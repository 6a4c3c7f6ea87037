---------------------------- MODULE ChainRunner ----------------------------
(***************************************************************************)
(* The runner of the enrichment chain (pipeline/chain/run.ts): it resolves *)
(* a plan, runs its steps one after another, lets the gate audit what they *)
(* wrote, and says in status.json and in its exit code whether the data    *)
(* may be synchronised and painted.  A run may fail or be killed at any    *)
(* step and be resumed (--from --plan) at any step, by the plan file of    *)
(* any earlier run, and the manifest may change in between.  Steps are     *)
(* external programs; of their data on disk the model keeps whether they   *)
(* are stale, torn by a failure, short of their feeds, or whole.  A skip   *)
(* changes nothing of that.  Chains do not overlap ("Never run two         *)
(* overlapping-scope chains concurrently", manifest.ts), and the extract   *)
(* that they enrich is not replaced.                                       *)
(***************************************************************************)
EXTENDS Naturals, Sequences, FiniteSets

CONSTANTS
    Manifests,  \* the plans that the manifest resolves to, a sequence of them
    Floored,    \* the steps with a floor of inputs (expectMinInputs)
    Skippable,  \* the steps whose cache may be missing
    Phases,     \* what --phase may be: "all", or one phase alone
    MaxPlans,   \* a bound on the plan files
    NoChain     \* no run in flight

VARIABLES
    crManifest, \* which of the plans the manifest resolves to now
    crRun,      \* the run in flight
    crPlans,    \* the plan.json files of all runs
    crPlan,     \* the plan of the last run, how it was started, and its history
    crStatus,   \* status.json and the exit code of the last run
    crData,     \* what each step has left on disk, stale when an earlier one changed
    crAudited,  \* the gate has passed what the steps before it left
    crBaseline  \* the gate's baseline of this scope and year

crVars == <<crManifest, crRun, crPlans, crPlan, crStatus, crData, crAudited, crBaseline>>

StepIds == UNION {{Manifests[m][i] : i \in DOMAIN Manifests[m]} : m \in DOMAIN Manifests}

\* "enrich" stands for the six phases before the gate.
PhaseOf(s) == IF s \in {"gate", "structures"} THEN s ELSE "enrich"

\* buildPlan pushes phase after phase: the steps of one are a stretch of the plan.
IsPhase(plan, phase, i, j) == \A n \in DOMAIN plan : PhaseOf(plan[n]) = phase <=> n \in i .. j
Stretches(plan) == (DOMAIN plan) \X (0 .. Len(plan))

PhasePlan(plan, phase) ==
    LET stretch == CHOOSE r \in Stretches(plan) : IsPhase(plan, phase, r[1], r[2])
    IN IF phase = "all" THEN plan ELSE SubSeq(plan, stretch[1], stretch[2])

PhasePlans == [m \in DOMAIN Manifests |-> [phase \in Phases |-> PhasePlan(Manifests[m], phase)]]

\* What --phase resolves to now.
Resolved(phase) == PhasePlans[crManifest][phase]

\* A plan has each step once, and the gate behind all that enrich.
IsPlan(plan) ==
    /\ plan \in Seq(StepIds)
    /\ \A i, j \in DOMAIN plan : plan[i] = plan[j] => i = j
    /\ \A i, j \in DOMAIN plan : plan[i] = "gate" /\ PhaseOf(plan[j]) = "enrich" => j < i

ASSUME ChainAssumption ==
    /\ 1 \in DOMAIN Manifests
    /\ \A m \in DOMAIN Manifests :
          /\ IsPlan(Manifests[m])
          /\ \E i \in DOMAIN Manifests[m] : Manifests[m][i] = "gate"
          /\ \A phase \in Phases \ {"all"} :
                 \E r \in Stretches(Manifests[m]) : IsPhase(Manifests[m], phase, r[1], r[2])
    /\ "gate" \notin Skippable

Logged(s, status, complete) == [id |-> s, status |-> status, complete |-> complete]

\* A claim of completeness counts for a floored step only, and by its number.
StepIsCompleteAlways(e) == TRUE
StepIsComplete(e) == e.id \in Floored => e.complete

Record(outcome, entries, gate, exit) ==
    [outcome |-> outcome, entries |-> entries, gate |-> gate, exit |-> exit,
     safe |-> /\ outcome = "complete"
              /\ gate = "read"
              /\ \A i \in DOMAIN entries : StepIsComplete(entries[i])]

CrInit ==
    /\ crManifest = 1
    /\ crRun = NoChain
    /\ crPlans = {}
    /\ crPlan = NoChain
    /\ crStatus = Record("none", <<>>, "none", "none")
    /\ crData = [s \in StepIds |-> "stale"]
    /\ crAudited = FALSE
    /\ crBaseline \in {"none", "foreign", "sealed"}

-----------------------------------------------------------------------------
(* Starting *)

\* A plan is resolved once, at its launch: a change during a run is one after it.
ManifestChanges ==
    /\ crRun = NoChain
    /\ crManifest' \in DOMAIN Manifests \ {crManifest}
    /\ UNCHANGED <<crRun, crPlans, crPlan, crStatus, crData, crAudited, crBaseline>>

\* --update-gate-baseline, when the auditor could read everything.
SealBaseline ==
    /\ crRun = NoChain
    /\ crBaseline # "sealed"
    /\ crBaseline' = "sealed"
    /\ UNCHANGED <<crManifest, crRun, crPlans, crPlan, crStatus, crData, crAudited>>

\* plan.json: what identifies a plan, but for the year, which does not change.
PlanFile(phase, scope) == [digest |-> Resolved(phase), scope |-> scope, phase |-> phase]

\* Where the runner's hint would have one resume: the first step of the last run
\* that it has no good word of.  Nothing enforces it.
ResumePoint ==
    crPlan.first + Cardinality({i \in DOMAIN crStatus.entries : crStatus.entries[i].status # "failed"})

Heeds(file, first) ==
    /\ crPlan.heeded
    /\ file = [digest |-> crPlan.digest, scope |-> crPlan.scope, phase |-> crPlan.phase]
    /\ first <= ResumePoint

\* The steps that the last run skipped, as its record says.
SkippedNow == {s \in StepIds : \E i \in DOMAIN crStatus.entries :
                   crStatus.entries[i].id = s /\ crStatus.entries[i].status = "skipped"}

SkippedBefore(file, first) ==
    {s \in crPlan.skipped \cup SkippedNow :
        Heeds(file, first) /\ \E i \in DOMAIN file.digest : i < first /\ file.digest[i] = s}

\* The plan file keeps the whole resolved plan, of which a resume runs a part; which
\* of its steps have a skipReason (skip) is found out at the launch.  The
\* history goes with it, and no guard reads it: has each resume since the start gone
\* by its hint (heeded), and what was skipped then before the part that this run has.
\* partial of a resume is that of its start: the gate asks it of fresh runs only.
LaunchPast(plan, first, fresh, partial, skip, heeded, skipped) ==
    /\ \A s \in skip : \E i \in first .. Len(plan.digest) : plan.digest[i] = s
    /\ crPlans' = crPlans \cup {plan}
    /\ Cardinality(crPlans') <= MaxPlans
    /\ crPlan' = [digest |-> plan.digest, scope |-> plan.scope, phase |-> plan.phase, first |-> first,
                  fresh |-> fresh, partial |-> partial, heeded |-> heeded, skipped |-> skipped]
    /\ crRun' = [steps |-> SubSeq(plan.digest, IF fresh THEN 1 ELSE first + 1, Len(plan.digest)),
                 at |-> 1, skip |-> skip]
    /\ crStatus' = Record("running", <<>>, "none", "none")
    /\ UNCHANGED <<crManifest, crData, crAudited, crBaseline>>

Launch(plan, first, fresh, partial, skip, heeded, skipped) ==
    /\ \A s \in skip : \E i \in first .. Len(plan.digest) : plan.digest[i] = s
    /\ crPlans' = crPlans \cup {plan}
    /\ Cardinality(crPlans') <= MaxPlans
    /\ crPlan' = [digest |-> plan.digest, scope |-> plan.scope, phase |-> plan.phase, first |-> first,
                  fresh |-> fresh, partial |-> partial, heeded |-> heeded, skipped |-> skipped]
    /\ crRun' = [steps |-> SubSeq(plan.digest, first, Len(plan.digest)), at |-> 1, skip |-> skip]
    /\ crStatus' = Record("running", <<>>, "none", "none")
    /\ UNCHANGED <<crManifest, crData, crAudited, crBaseline>>

StartChain(scope, phase, partial, skip) ==
    /\ crRun = NoChain
    /\ Launch(PlanFile(phase, scope), 1, TRUE, partial, skip, TRUE, {})

Resume(file, plan, first, skip) ==
    /\ first <= Len(plan.digest)
    /\ Launch(plan, first, FALSE, crPlan.partial, skip, Heeds(file, first), SkippedBefore(file, first))

\* --from runs the plan that --phase resolves to now, and refuses a file that names
\* another; whose step --from is, it does not ask.
ResumeUnchecked(file, first, skip) ==
    /\ crRun = NoChain
    /\ Resume(file, PlanFile(file.phase, file.scope), first, skip)

ResumeChain(file, first, skip) ==
    /\ crRun = NoChain
    /\ file = PlanFile(file.phase, file.scope)
    /\ Resume(file, file, first, skip)

-----------------------------------------------------------------------------
(* Steps *)

CrInFlight == crRun # NoChain /\ crRun.at <= Len(crRun.steps)
CurrentStep == crRun.steps[crRun.at]
Skips == CurrentStep \in crRun.skip
Reaches(phases) == CrInFlight /\ ~Skips /\ PhaseOf(CurrentStep) \in phases

GoesOn(entry, gate) ==
    /\ crStatus' = Record("running", Append(crStatus.entries, entry), gate, "none")
    /\ crRun' = [crRun EXCEPT !.at = @ + 1]

GivesUp(entries, gate) ==
    /\ crStatus' = Record("failed", entries, gate, "one")
    /\ crRun' = NoChain

\* What the step leaves, and what it takes away from the steps that build on it.
Leaves(s, state) ==
    /\ crData' = [t \in StepIds |->
           IF t = s THEN state
           ELSE IF \E i \in 1..crRun.at : crRun.steps[i] = t THEN crData[t]
           ELSE IF \E i \in DOMAIN crRun.steps : crRun.steps[i] = t THEN "stale"
           ELSE crData[t]]
    /\ crAudited' = (crAudited /\ PhaseOf(s) # "enrich")

StepSkipped ==
    /\ CrInFlight
    /\ Skips
    /\ GoesOn(Logged(CurrentStep, "skipped", TRUE), crStatus.gate)
    /\ UNCHANGED <<crManifest, crPlans, crPlan, crData, crAudited, crBaseline>>

StepDoneTrusting(state) ==
    /\ Reaches({"enrich", "structures"})
    /\ state = "short" => CurrentStep \in Floored
    /\ GoesOn(Logged(CurrentStep, "done", TRUE), crStatus.gate)
    /\ Leaves(CurrentStep, state)
    /\ UNCHANGED <<crManifest, crPlans, crPlan, crBaseline>>

\* Exit 0; only a floored step says how much it loaded.
StepDone(state) ==
    /\ Reaches({"enrich", "structures"})
    /\ state = "short" => CurrentStep \in Floored
    /\ GoesOn(Logged(CurrentStep, "done", state = "whole"), crStatus.gate)
    /\ Leaves(CurrentStep, state)
    /\ UNCHANGED <<crManifest, crPlans, crPlan, crBaseline>>

\* A signal or another exit code; the marker may have been printed before it.
StepFails(complete) ==
    /\ Reaches({"enrich", "structures"})
    /\ ~complete => CurrentStep \in Floored
    /\ GivesUp(Append(crStatus.entries, Logged(CurrentStep, "failed", complete)), crStatus.gate)
    /\ Leaves(CurrentStep, "torn")
    /\ UNCHANGED <<crManifest, crPlans, crPlan, crBaseline>>

-----------------------------------------------------------------------------
(* The gate *)

IsFreshFullWorld == crPlan.fresh /\ crPlan.scope = "world" /\ crPlan.phase = "all"
RefusesShort ==
    /\ IsFreshFullWorld
    /\ ~crPlan.partial
    /\ \E i \in DOMAIN crStatus.entries : ~StepIsComplete(crStatus.entries[i])

GateRefusesShort ==
    /\ Reaches({"gate"})
    /\ RefusesShort
    /\ GivesUp(crStatus.entries, crStatus.gate)
    /\ UNCHANGED <<crManifest, crPlans, crPlan, crData, crAudited, crBaseline>>

\* A baseline of another year or scope, or unreadable: no audit at all.
GateRefusesBaseline ==
    /\ Reaches({"gate"})
    /\ ~RefusesShort
    /\ crBaseline = "foreign"
    /\ GivesUp(Append(crStatus.entries, Logged("gate", "failed", TRUE)), crStatus.gate)
    /\ UNCHANGED <<crManifest, crPlans, crPlan, crData, crAudited, crBaseline>>

\* The auditor finds nothing, only what the baseline has, something new, or
\* cannot read the data or is killed.
GatePasses(found) ==
    /\ Reaches({"gate"})
    /\ ~RefusesShort
    /\ crBaseline # "foreign"
    /\ found = "known" => crBaseline = "sealed"
    /\ GoesOn(Logged("gate", "done", TRUE), "read")
    /\ crAudited' = TRUE
    /\ UNCHANGED <<crManifest, crPlans, crPlan, crData, crBaseline>>

GateFails(found) ==
    /\ Reaches({"gate"})
    /\ ~RefusesShort
    /\ crBaseline # "foreign"
    /\ GivesUp(Append(crStatus.entries, Logged("gate", "failed", TRUE)),
               IF found = "new" THEN "read" ELSE "ioError")
    /\ UNCHANGED <<crManifest, crPlans, crPlan, crData, crAudited, crBaseline>>

ChainCompletes ==
    /\ crRun # NoChain
    /\ crRun.at > Len(crRun.steps)
    /\ crStatus' = Record("complete", crStatus.entries, crStatus.gate, "zero")
    /\ crRun' = NoChain
    /\ UNCHANGED <<crManifest, crPlans, crPlan, crData, crAudited, crBaseline>>

\* The runner dies, before, in or after the step it is at, with the step's record
\* not written.
ChainKilled(state) ==
    /\ crRun # NoChain
    /\ crRun' = NoChain
    /\ \/ UNCHANGED <<crData, crAudited>>
       \/ /\ Reaches({"enrich", "structures"})
          /\ state = "short" => CurrentStep \in Floored
          /\ Leaves(CurrentStep, state)
    /\ UNCHANGED <<crManifest, crPlans, crPlan, crStatus, crBaseline>>

CrNext ==
    \/ ManifestChanges
    \/ SealBaseline
    \/ \E scope \in {"world", "country"}, phase \in Phases,
          partial \in BOOLEAN, skip \in SUBSET Skippable : StartChain(scope, phase, partial, skip)
    \/ \E file \in crPlans, first \in 1..Len(Manifests[crManifest]),
          skip \in SUBSET Skippable : ResumeChain(file, first, skip)
    \/ StepSkipped
    \/ \E state \in {"whole", "short"} : StepDone(state)
    \/ \E complete \in BOOLEAN : StepFails(complete)
    \/ GateRefusesShort
    \/ GateRefusesBaseline
    \/ \E found \in {"clean", "known"} : GatePasses(found)
    \/ \E found \in {"new", "unread"} : GateFails(found)
    \/ ChainCompletes
    \/ \E state \in {"torn", "whole", "short"} : ChainKilled(state)

CrSpec == CrInit /\ [][CrNext]_crVars

-----------------------------------------------------------------------------
(* Properties *)

\* Types; a run has recorded every step before the one it is at.
CrTypeOK ==
    /\ crManifest \in DOMAIN Manifests
    /\ crData \in [StepIds -> {"stale", "torn", "short", "whole"}]
    /\ crAudited \in BOOLEAN
    /\ crBaseline \in {"none", "foreign", "sealed"}
    /\ crStatus.exit = "zero" => crStatus.outcome = "complete" /\ crRun = NoChain
    /\ crRun # NoChain =>
          /\ crRun.at \in 1..Len(crRun.steps) + 1
          /\ Len(crStatus.entries) = crRun.at - 1
          /\ crStatus.outcome = "running"

\* A place of the plan that the runner answers for: of its step the data are of the
\* given states, and no step before it has written since, or it was skipped.
Answers(i, states, skipped) ==
    LET s == crPlan.digest[i]
    IN IF s = "gate" THEN crAudited ELSE crData[s] \in states \/ s \in skipped

\* safeToSync of any run, fresh or resumed at whatever step: the gate has read and
\* passed the data since a step before it last wrote, and every step from the first
\* of this run on has loaded all of its feeds or is recorded as skipped.
SafeToSyncIsEarned ==
    crStatus.safe =>
        /\ crAudited
        /\ \A i \in crPlan.first .. Len(crPlan.digest) : Answers(i, {"whole"}, SkippedNow)

\* An exit code of 0, wherever --from began: from there on every step of the plan
\* has run after those before it or is recorded as skipped, none that ran is torn or
\* stale, and the gate, if it was among them, has passed what they left.
ExitZeroRanTheRest ==
    crStatus.exit = "zero" =>
        \A i \in crPlan.first .. Len(crPlan.digest) : Answers(i, {"whole", "short"}, SkippedNow)

\* An exit code of 0 of all phases, when each resume since the start went by the
\* hint of the run before it: every step of one and the same plan has run in order
\* or was skipped in its turn, and the gate after them; failures, kills and changes
\* of the manifest slip no step past the chain.
ExitZeroIsWholePlan ==
    crStatus.exit = "zero" /\ crPlan.phase = "all" /\ crPlan.heeded =>
        /\ crAudited
        /\ \A i \in DOMAIN crPlan.digest :
               Answers(i, {"whole", "short"}, crPlan.skipped \cup SkippedNow)

\* "A crashed run still leaves an honest partial record": what status.json calls
\* done is done, and what it calls complete is whole.
RecordIsHonest ==
    \A i \in DOMAIN crStatus.entries :
        LET e == crStatus.entries[i]
        IN e.status = "done" /\ e.id # "gate" =>
               crData[e.id] = IF e.complete THEN "whole" ELSE "short"

\* What the chain says of its data is true, to whoever reads the field, the exit
\* code or the record of a run that died.
ChainIsHonest == SafeToSyncIsEarned /\ ExitZeroRanTheRest /\ ExitZeroIsWholePlan /\ RecordIsHonest

\* The runner's record is well formed, and vouches for nothing it did not see.
ChainIsSound == CrTypeOK /\ ChainIsHonest

\* "The chain gate FAILS a run with any partial/missing on a floored step"
\* (status.ts), and of a resumed run one is to "read its exit code, not this field"
\* (safeToSync): a world chain that was not started with --allow-partial and was
\* resumed only by its hints exits with 0 only when no floored step has loaded short.
ExitZeroIsNotShort ==
    /\ crStatus.exit = "zero"
    /\ crPlan.scope = "world" /\ crPlan.phase = "all" /\ ~crPlan.partial /\ crPlan.heeded
    => \A i \in DOMAIN crPlan.digest : crData[crPlan.digest[i]] # "short"
=============================================================================
