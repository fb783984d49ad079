---------------------------- MODULE ScenarioRunner ----------------------------
(***************************************************************************)
(* ScenarioRunner.prepare (src/icab/scenarios/runner.py), driving the      *)
(* simulator along a scenario's timeline and pushing every snapshot        *)
(* through TEPContextSync.sync into the context backends.  Preparations    *)
(* follow one another over the same backends; each may be abandoned at any *)
(* step (a write raises, or the process dies).                             *)
(***************************************************************************)
EXTENDS TEPSimulator, ContextStores

CONSTANTS
    Scenarios,         \* the registered scenarios
    MaxPreparations    \* bound on the number of preparations

(* duration 0 stands for None: the fault is never cleared.                 *)
Fault == [disturbance : Disturbances, activateAt : Nat, duration : Nat,
          magnitude : Nat]

ASSUME ScenarioAssumption ==
    /\ \A s \in Scenarios :
          /\ DOMAIN s = {"seed", "warmup", "duration", "sync", "faults"}
          /\ s.seed \in Seeds
          /\ s.warmup \in Nat
          /\ s.duration \in Nat \ {0}
          /\ s.sync \in Nat \ {0}
          /\ s.faults \in Seq(Fault)
    /\ MaxPreparations \in Nat

VARIABLES
    phase,
    prepared,          \* the scenarios prepared so far, one per generation id
    elapsed,           \* the runner's own clock
    toActivate,        \* faults still to inject (indices in scenario.faults)
    toClear,           \* temporary faults still to clear
    unpublished        \* topics the running sync has still to publish

runnerVars == <<phase, prepared, elapsed, toActivate, toClear, unpublished>>
vars == <<simulatorVars, storeVars, runnerVars>>

Phases == {"idle", "warmup", "entities", "relationships", "observations",
           "publishing", "running", "ready"}

generation == Len(prepared)
scenario == prepared[generation]
Total == scenario.warmup + scenario.duration

(* The next step of a loop that ends at `end`.                             *)
StepTo(end) == IF scenario.sync <= end - elapsed THEN scenario.sync ELSE end - elapsed

TypeOK ==
    /\ SimulatorTypeOK
    /\ entities \in BOOLEAN
    /\ edges \in 0..generation
    /\ DOMAIN observations \subseteq Nat
    /\ \A t \in DOMAIN observations : observations[t].generation \in 1..generation
    /\ DOMAIN retained \subseteq Topics
    /\ phase \in Phases
    /\ prepared \in Seq(Scenarios)
    /\ elapsed \in Nat
    /\ phase # "idle" =>
          /\ prepared # <<>>
          /\ toClear \subseteq DOMAIN scenario.faults
          /\ toActivate \subseteq DOMAIN scenario.faults
    /\ unpublished \subseteq Topics

Init ==
    /\ SimulatorInit
    /\ StoresInit
    /\ phase = "idle"
    /\ prepared = <<>>
    /\ elapsed = 0
    /\ toActivate = {}
    /\ toClear = {}
    /\ unpublished = {}
-----------------------------------------------------------------------------
(* A fresh generation id and a simulator reset with the scenario's seed.   *)
Prepare(s) ==
    /\ phase = "idle"
    /\ Len(prepared) < MaxPreparations
    /\ Reset(s.seed)
    /\ prepared' = Append(prepared, s)
    /\ elapsed' = 0
    /\ toActivate' = DOMAIN s.faults
    /\ toClear' = {i \in DOMAIN s.faults : s.faults[i].duration # 0}
    /\ phase' = "warmup"
    /\ UNCHANGED <<storeVars, unpublished>>

(* Variant with a plausible bug: the simulator's clock drives the loop.    *)
ElapseSimulated(duration) == elapsed' = Len(history')

(* elapsed += step                                                         *)
Elapse(duration) == elapsed' = elapsed + duration

(* Variant with a plausible bug: warmup snapshots are recorded too.        *)
RecordedWarmupStep ==
    /\ phase = "warmup" /\ elapsed < scenario.warmup
    /\ StepPlant(StepTo(scenario.warmup))
    /\ Elapse(StepTo(scenario.warmup))
    /\ phase' = "entities"
    /\ UNCHANGED <<storeVars, prepared, toActivate, toClear, unpublished>>

(* The plant settles; nothing is recorded.                                 *)
WarmupStep ==
    /\ phase = "warmup" /\ elapsed < scenario.warmup
    /\ StepPlant(StepTo(scenario.warmup))
    /\ Elapse(StepTo(scenario.warmup))
    /\ UNCHANGED <<storeVars, phase, prepared, toActivate, toClear, unpublished>>

FinishWarmup ==
    /\ phase = "warmup" /\ elapsed >= scenario.warmup
    /\ phase' = "entities"
    /\ UNCHANGED <<simulatorVars, storeVars, prepared, elapsed, toActivate,
                   toClear, unpublished>>
-----------------------------------------------------------------------------
(* TEPContextSync.sync and EnvironmentLoader.load: four backends in turn.  *)
SyncStep(here, there) ==
    /\ phase = here
    /\ phase' = there
    /\ UNCHANGED <<simulatorVars, prepared, elapsed, toActivate, toClear>>

SyncEntities ==
    /\ SyncStep("entities", "relationships")
    /\ WriteEntities
    /\ UNCHANGED unpublished

SyncRelationships ==
    /\ SyncStep("relationships", "observations")
    /\ WriteRelationships(generation)
    /\ UNCHANGED unpublished

SyncObservations ==
    /\ SyncStep("observations", "publishing")
    /\ WriteObservations(Timestamp(seed, Time), Measured, generation)
    /\ unpublished' = Topics

SyncTopic(topic) ==
    /\ topic \in unpublished /\ \A other \in unpublished : topic <= other
    /\ SyncStep("publishing", "publishing")
    /\ Publish(topic, Timestamp(seed, Time), Measured)
    /\ unpublished' = unpublished \ {topic}

(* sync returns; the loop goes on while elapsed < total.                   *)
FinishSync ==
    /\ unpublished = {}
    /\ SyncStep("publishing", IF elapsed < Total THEN "running" ELSE "ready")
    /\ UNCHANGED <<storeVars, unpublished>>
-----------------------------------------------------------------------------
(* Variant with a plausible bug: a fault due right now waits a step.       *)
DueLate(at) == at < elapsed

Due(at) == at <= elapsed

ActivateAt(i) == scenario.faults[i].activateAt
ClearAt(i) == scenario.faults[i].activateAt + scenario.faults[i].duration

DueActivations == {i \in toActivate : Due(ActivateAt(i))}
DueClears == {i \in toClear : Due(ClearAt(i))}

(* sorted() on the given times is stable.                                  *)
IsFirst(i, S, at(_)) ==
    \A j \in S : at(i) < at(j) \/ (at(i) = at(j) /\ i <= j)

Activate(i) ==
    /\ phase = "running"
    /\ i \in DueActivations /\ IsFirst(i, toActivate, ActivateAt)
    /\ InjectFault(scenario.faults[i].disturbance, scenario.faults[i].magnitude)
    /\ toActivate' = toActivate \ {i}
    /\ UNCHANGED <<storeVars, phase, prepared, elapsed, toClear, unpublished>>

(* A clear names the disturbance only, not the fault that raised it.       *)
Clear(i) ==
    /\ phase = "running" /\ DueActivations = {}
    /\ i \in DueClears /\ IsFirst(i, toClear, ClearAt)
    /\ InjectFault(scenario.faults[i].disturbance, 0)
    /\ toClear' = toClear \ {i}
    /\ UNCHANGED <<storeVars, phase, prepared, elapsed, toActivate, unpublished>>

(* Variant with a plausible bug: the last step is not followed by a sync.  *)
RunWithoutLastSync ==
    /\ phase = "running" /\ DueActivations = {} /\ DueClears = {}
    /\ StepPlant(StepTo(Total))
    /\ Elapse(StepTo(Total))
    /\ phase' = IF elapsed' < Total THEN "entities" ELSE "ready"
    /\ UNCHANGED <<storeVars, prepared, toActivate, toClear, unpublished>>

RunStep ==
    /\ phase = "running" /\ DueActivations = {} /\ DueClears = {}
    /\ StepPlant(StepTo(Total))
    /\ Elapse(StepTo(Total))
    /\ phase' = "entities"
    /\ UNCHANGED <<storeVars, prepared, toActivate, toClear, unpublished>>
-----------------------------------------------------------------------------
(* The prepared plant has been investigated, or the preparation gave up.   *)
Leave ==
    /\ phase # "idle"
    /\ phase' = "idle"
    /\ UNCHANGED <<simulatorVars, storeVars, prepared, elapsed, toActivate,
                   toClear, unpublished>>

Step ==
    \/ WarmupStep \/ FinishWarmup
    \/ SyncEntities \/ SyncRelationships \/ SyncObservations
    \/ (\E topic \in Topics : SyncTopic(topic)) \/ FinishSync
    \/ (\E i \in toActivate : Activate(i)) \/ (\E i \in toClear : Clear(i))
    \/ RunStep

Next == (\E s \in Scenarios : Prepare(s)) \/ Step \/ Leave

Spec == Init /\ [][Next]_vars

(* prepare is straight-line code between its writes: it keeps running      *)
(* unless it is abandoned.                                                 *)
FairSpec == Spec /\ WF_vars(Step)
-----------------------------------------------------------------------------
(* The disturbance vector the scenario's authors schedule at time t when   *)
(* no disturbance has two faults.                                          *)
Scheduled(s, t) ==
    [d \in Disturbances |->
        LET on == {i \in DOMAIN s.faults :
                     /\ s.faults[i].disturbance = d
                     /\ s.faults[i].activateAt <= t
                     /\ \/ s.faults[i].duration = 0
                        \/ t < s.faults[i].activateAt + s.faults[i].duration}
        IN  IF on = {} THEN 0 ELSE s.faults[CHOOSE i \in on : TRUE].magnitude]

(* The elapsed times at which prepare takes its snapshots.                 *)
Boundaries(s) ==
    {t \in s.warmup..(s.warmup + s.duration) :
        t = s.warmup + s.duration \/ (t - s.warmup) % s.sync = 0}

LastBoundary(s, t) ==
    CHOOSE b \in Boundaries(s) :
        b <= t /\ \A c \in Boundaries(s) : c <= t => c <= b

(* Until the first snapshot the plant ran undisturbed; from then on every  *)
(* interval ran under exactly the vector scheduled at the last snapshot    *)
(* before it: no fault early, none later than one sync interval, each      *)
(* cleared as punctually, and a fault that begins and ends between two     *)
(* snapshots never acts (scenarios/runner.py 82-124).                      *)
PlantFollowsSchedule ==
    phase # "idle" =>
        \A t \in DOMAIN history :
            history[t] = IF t <= scenario.warmup THEN AllOff
                         ELSE Scheduled(scenario, LastBoundary(scenario, t - 1))

(* When a prepared plant is handed over, the historian's rows in the       *)
(* scenario's day are exactly its snapshots, warmup excluded, with the     *)
(* values this plant had, although earlier or abandoned preparations may   *)
(* have written them (scenarios/runner.py 75-76 and 139-156,               *)
(* historian/repository.py 56-57).  It needs scenario-distinct seeds and   *)
(* timelines shorter than a day.                                           *)
SnapshotTimes == {IF b <= Time THEN b ELSE Time : b \in Boundaries(scenario)}

OwnTimeline ==
    phase = "ready" =>
        /\ {t \in DOMAIN observations :
               Timestamp(seed, 0) <= t /\ t < Timestamp(seed, DayLength)}
             = {Timestamp(seed, t) : t \in SnapshotTimes}
        /\ \A t \in SnapshotTimes :
              observations[Timestamp(seed, t)].value =
                  [seed |-> seed, history |-> SubSeq(history, 1, t)]

(* ... and every topic retains the final snapshot, whatever an abandoned   *)
(* preparation left half published (context_sync.py 68-71).                *)
RetainedIsFinal ==
    phase = "ready" => \A topic \in Topics :
        /\ topic \in DOMAIN retained
        /\ retained[topic] = [timestamp |-> Timestamp(seed, Time), value |-> Measured]

(* ... and every relationship carries this preparation's generation id,    *)
(* which the evaluator requires to confirm one (grounded.py 488-493,       *)
(* knowledge_graph/repository.py 124-151).                                 *)
RelationshipsOwned == phase = "ready" => edges = generation

(* A preparation that is not abandoned ends, a tripped plant included:     *)
(* its loops run on their own clock (scenarios/runner.py 77, 105).         *)
PreparationEnds == phase = "warmup" ~> phase \in {"ready", "idle"}
-----------------------------------------------------------------------------
(* Statements of the documentation that the code does not meet.            *)

(* Without a duration a fault is, "once activated, never cleared"          *)
(* (scenarios/runner.py 91).                                               *)
PermanentFaultStays ==
    phase # "idle" => \A i \in DOMAIN scenario.faults :
        scenario.faults[i].duration = 0 /\ i \notin toActivate =>
            disturbances[scenario.faults[i].disturbance] # 0
=============================================================================
