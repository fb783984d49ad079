------------------------- MODULE ContextExperiment -------------------------
(***************************************************************************)
(* The two runners that fill the shared results/ root: BenchmarkRunner     *)
(* (src/icab/benchmark/runner.py), tasks against architecture arms, and    *)
(* ContextExperimentRunner (context_experiment.py), one task against the   *)
(* context conditions of a design, both over the archive whose records the *)
(* analyses and the replay design read back.  One process runs at a time   *)
(* and may be killed anywhere.  QuestionCampaign has the files of a single *)
(* save; here a record is saved, cut short or not there.                   *)
(***************************************************************************)
EXTENDS ContextAnalysis

CONSTANTS
    Tasks,             \* task id -> the fields ValidTask reads, and its use case
    Scenarios,         \* scenario id -> the architectures it is synced into
    Splits,            \* split -> scenario ids
    NamesUnder,        \* name -> the names whose files <name>-*.json matches
    Configs,           \* the invocations considered
    Scores,            \* the scores an evaluation may give
    MaxStarts          \* bound: invocations

ASSUME TasksAssumption == \A t \in DOMAIN Tasks : ValidTask(Tasks[t], Scenarios)
ASSUME UseCasesAssumption == \A u \in DOMAIN UseCases : ValidUseCase(UseCases[u], Scenarios)

(* What ContextExperimentConfig and BenchmarkConfig accept.                *)
Strategies == {"single", "pairwise", "progressive", "targeted", "ablation", "replay"}

ValidConfig(cfg) ==
    /\ cfg.kind \in {"benchmark", "context"} /\ cfg.reps \in Nat \ {0}
    /\ cfg.spec \in {"all"} \cup DOMAIN ArchitectureCombinations
    /\ cfg.kind = "context" => cfg.task # "" /\ cfg.design \in Strategies
    /\ cfg.targets \in Seq(AllCombinations)

(* A scenario is synced into architectures there are, and the pattern of a *)
(* name matches the files of that name.                                    *)
ASSUME ExperimentAssumption ==
    /\ IsFiniteSet(DOMAIN Tasks) /\ MaxStarts \in Nat /\ Configs # {}
    /\ \A s \in DOMAIN Scenarios : Scenarios[s] \subseteq Architectures
    /\ \A cfg \in Configs : ValidConfig(cfg) /\ cfg.name \in NamesUnder[cfg.name]

VARIABLES
    archive,           \* run id -> the record saved under it
    aggregates,        \* benchmark id -> its aggregate file
    job,               \* the invocation: what is left to do and what it counted
    starts             \* invocations so far

experimentVars == <<archive, aggregates, job, starts>>

(* run ids: <name>-<task or combination>-<arm>-rep<n>.                     *)
RunId(cfg, part, arm, n) == [name |-> cfg.name, part |-> part, arm |-> arm, rep |-> n]

Idle == [pc |-> "idle", cfg |-> CHOOSE c \in Configs : TRUE, todo |-> <<>>,
         queue |-> <<>>, records |-> {}, outcomes |-> <<>>,
         successful |-> 0, failed |-> 0, skipped |-> 0]

Saved(id) == id \in DOMAIN archive
Write(files, key, contents) ==
    [k \in DOMAIN files \cup {key} |-> IF k = key THEN contents ELSE files[k]]
Readable == \A id \in DOMAIN archive : archive[id].status # "torn"
Loaded == {archive[id] : id \in {i \in DOMAIN archive : archive[i].status # "torn"}}

ExperimentInit ==
    /\ archive = <<>>
    /\ aggregates = <<>>
    /\ job = Idle
    /\ starts = 0
-----------------------------------------------------------------------------
(* Variant with a plausible bug: a benchmark that never got to its         *)
(* aggregate does not count.                                               *)
ExistingAggregate(cfg) == cfg.name \in DOMAIN aggregates

(* _check_no_existing_benchmark, _check_no_existing_campaign: an aggregate *)
(* of that name (benchmarks only) or any raw file the name is a prefix of. *)
Existing(cfg) ==
    \/ cfg.kind = "benchmark" /\ cfg.name \in DOMAIN aggregates
    \/ \E id \in DOMAIN archive : id.name \in NamesUnder[cfg.name]

(* _select_tasks: an explicit task wins over a split and a scenario, which *)
(* narrow the suite; no task is an error.                                  *)
SelectTasks(cfg) ==
    IF cfg.task # "" THEN {cfg.task} \cap DOMAIN Tasks
    ELSE {t \in IF cfg.split # "" THEN TasksInSplit(Tasks, Splits, cfg.split)
                ELSE DOMAIN Tasks :
            cfg.scenario \in {"", Tasks[t].scenario}}

(* The conditions of a context experiment.  Replay takes every combination *)
(* some record of the task already has, and has to load every record.      *)
ReplayConditions(task) ==
    InOrder({r.combo : r \in {x \in Loaded : x.task = task}})

SelectConditions(cfg) ==
    IF cfg.design = "replay" THEN ReplayConditions(cfg.task)
    ELSE GenerateConditions(cfg.design, cfg.targets, Tasks[cfg.task].available)

Units(cfg) ==
    IF cfg.kind = "benchmark" THEN [i \in 1..Cardinality(SelectTasks(cfg)) |->
                                       {SetToSeq(SelectTasks(cfg))[i]}]
    ELSE SelectConditions(cfg)

(* An invocation that is refused leaves the store as it was.               *)
StartJob(cfg) ==
    /\ job.pc \in {"idle", "done"} /\ starts < MaxStarts
    /\ starts' = starts + 1
    /\ cfg.force \/ ~Existing(cfg)
    /\ SelectTasks(cfg) # {}
    /\ cfg.design = "replay" => Readable
    /\ job' = [Idle EXCEPT !.pc = "running", !.cfg = cfg, !.todo = Units(cfg)]
    /\ UNCHANGED <<archive, aggregates>>
-----------------------------------------------------------------------------
(* Variant with a plausible bug: repetitions counted from zero.            *)
RepetitionsFromZero(cfg, part, arm, key) ==
    [n \in 1..cfg.reps |-> [id |-> RunId(cfg, part, arm, n - 1), arm |-> arm, key |-> key]]

Repetitions(cfg, part, arm, key) ==
    [n \in 1..cfg.reps |-> [id |-> RunId(cfg, part, arm, n), arm |-> arm, key |-> key]]

(* Arm after arm, the repetitions of each.                                 *)
ArmRuns(cfg, task, arms) ==
    [k \in 1..Len(arms) * cfg.reps |->
        LET arm == arms[((k - 1) \div cfg.reps) + 1]
        IN  Repetitions(cfg, {task}, arm.arm, arm.key)[((k - 1) % cfg.reps) + 1]]

(* The next task of a benchmark: its arms, or a skip.                      *)
NextTask ==
    LET cfg  == job.cfg
        task == CHOOSE t \in DOMAIN Tasks : Head(job.todo) = {t}
        arms == SetToSeq(ResolveArchitectureArms(cfg.spec, Tasks[task].available))
    IN  /\ job.pc = "running" /\ cfg.kind = "benchmark"
        /\ job.queue = <<>> /\ job.todo # <<>>
        /\ job' = [job EXCEPT !.todo = Tail(@),
                              !.queue = ArmRuns(cfg, task, arms),
                              !.skipped = IF arms = <<>> THEN @ + cfg.reps ELSE @]
        /\ UNCHANGED <<archive, aggregates, starts>>

Outcome(combo, status, arm, executed) ==
    [combo |-> combo, status |-> status, arm |-> arm, executed |-> executed]

(* Variant with a plausible bug: an overshooting condition always runs.    *)
ExecutesOvershoot(cfg, res) == res.status # "unrealizable"

(* Unrealizable conditions never run, overshooting ones only on request.   *)
Executes(cfg, res) == \/ res.status = "exact"
                      \/ res.status = "overshoot" /\ cfg.overshoot

(* The next condition of a context experiment: outside the use case's      *)
(* candidate context, not realizable by the task, or its repetitions.      *)
NextCondition ==
    LET cfg   == job.cfg
        combo == Head(job.todo)
        task  == Tasks[cfg.task]
        res   == Resolve(combo, task.available)
        outside == ~(combo \subseteq UseCases[task.use_case].candidate)
        runs  == ~outside /\ Executes(cfg, res)
    IN  /\ job.pc = "running" /\ cfg.kind = "context"
        /\ job.queue = <<>> /\ job.todo # <<>>
        /\ job' = [job EXCEPT
              !.todo = Tail(@),
              !.queue = IF runs THEN Repetitions(cfg, combo, res.arm, "none") ELSE <<>>,
              !.outcomes = Append(@, IF outside
                                     THEN Outcome(combo, "not_applicable", {}, FALSE)
                                     ELSE Outcome(combo, res.status, res.arm, runs))]
        /\ UNCHANGED <<archive, aggregates, starts>>

TaskOf(run) == IF job.cfg.kind = "context" THEN job.cfg.task
               ELSE CHOOSE t \in DOMAIN Tasks : run.id.part = {t}

(* Variant with a plausible bug: the record carries the condition that was *)
(* asked for.                                                              *)
RequestedCombination(run) ==
    IF job.cfg.kind = "context" THEN run.id.part ELSE ProvidedDimensions(run.arm)

(* build_experiment_config: the record carries what its arm provides.      *)
RecordedCombination(run) == ProvidedDimensions(run.arm)

RecordOf(run, status, score) ==
    [id |-> run.id, task |-> TaskOf(run), use_case |-> Tasks[TaskOf(run)].use_case,
     scenario |-> Tasks[TaskOf(run)].scenario, combo |-> RecordedCombination(run),
     arm |-> run.arm, key |-> run.key, valid |-> ~job.cfg.legacy,
     status |-> status, evaluated |-> status = "COMPLETED", score |-> score]

(* run_one never raises; save() replaces whatever the run id had.          *)
RunOne ==
    LET run == Head(job.queue) IN
    /\ job.pc = "running" /\ job.queue # <<>>
    /\ \E done \in BOOLEAN, score \in Scores :
          LET rec == RecordOf(run, IF done THEN "COMPLETED" ELSE "FAILED", score) IN
          /\ ~done => score = 0
          /\ archive' = Write(archive, run.id, rec)
          /\ job' = [job EXCEPT !.queue = Tail(@), !.records = @ \cup {rec},
                                !.successful = IF done THEN @ + 1 ELSE @,
                                !.failed = IF done THEN @ ELSE @ + 1]
    /\ UNCHANGED <<aggregates, starts>>

(* A benchmark with any record writes its aggregate and its reports.       *)
FinishJob ==
    /\ job.pc = "running" /\ job.queue = <<>> /\ job.todo = <<>>
    /\ job' = [job EXCEPT !.pc = "done"]
    /\ aggregates' =
         IF job.cfg.kind = "benchmark" /\ job.records # {}
         THEN Write(aggregates, job.cfg.name,
                    [runs |-> {r.id : r \in {x \in job.records : x.valid}},
                     consistent |-> ControlsConsistent(job.records)])
         ELSE aggregates
    /\ UNCHANGED <<archive, starts>>

(* The process dies, perhaps while it saves a record: in the middle of the *)
(* raw file, or after it and before the evaluation.                        *)
CrashJob ==
    /\ job.pc = "running"
    /\ job' = Idle
    /\ \/ UNCHANGED archive
       \/ /\ job.queue # <<>>
          /\ \E status \in {"torn", "FAILED", "COMPLETED"} :
                archive' = Write(archive, Head(job.queue).id,
                                 [RecordOf(Head(job.queue), status, 0)
                                      EXCEPT !.evaluated = FALSE])
    /\ UNCHANGED <<aggregates, starts>>

ExperimentNext ==
    \/ \E cfg \in Configs : StartJob(cfg)
    \/ NextTask \/ NextCondition \/ RunOne \/ FinishJob \/ CrashJob

ExperimentSpec == ExperimentInit /\ [][ExperimentNext]_experimentVars
-----------------------------------------------------------------------------
ExperimentTypeOK ==
    /\ \A id \in DOMAIN archive :
          /\ archive[id].id = id /\ id.rep \in Nat \ {0}
          /\ archive[id].task \in DOMAIN Tasks
          /\ archive[id].combo \in AllCombinations
          /\ archive[id].status \in {"COMPLETED", "FAILED", "torn"}
          /\ archive[id].evaluated => archive[id].status = "COMPLETED"
          /\ archive[id].score \in Scores \cup {0}
    /\ job.pc \in {"idle", "running", "done"} /\ job.cfg \in Configs
    /\ starts \in 0..MaxStarts

(* Every condition is answered by the best arm the task has: unrealizable  *)
(* only if all its architectures together do not cover it, exact whenever  *)
(* some arm provides it alone, and no arm that covers it provides strictly *)
(* less or is a proper part of the chosen one while providing the same     *)
(* (context_conditions.py 86-177).                                         *)
ResolutionsAreBest ==
    \A i \in DOMAIN job.outcomes :
        LET o    == job.outcomes[i]
            all  == Tasks[job.cfg.task].available
            covering == {a \in Arms(all) : o.combo \subseteq ProvidedDimensions(a)}
        IN  o.status # "not_applicable" =>
            /\ o.status = "unrealizable" <=> ~(o.combo \subseteq ProvidedDimensions(all))
            /\ o.status = "exact" <=> o.combo \in RealizableCombinations(all)
            /\ \A a \in covering :
                  /\ ~(ProvidedDimensions(a) \subseteq ProvidedDimensions(o.arm)
                       /\ ProvidedDimensions(a) # ProvidedDimensions(o.arm))
                  /\ ~(a \subseteq o.arm /\ a # o.arm
                       /\ ProvidedDimensions(a) = ProvidedDimensions(o.arm))

(* "already persisted" combinations replay as they are: whatever was run   *)
(* under any design, overshooting or not, a replayed condition that        *)
(* applies is exact and runs, also where the replay itself would accept    *)
(* overshooting (context_experiment.py, _replay_conditions).               *)
ReplayIsExact ==
    job.cfg.design = "replay" =>
        \A i \in DOMAIN job.outcomes :
            \/ job.outcomes[i].status = "not_applicable"
            \/ job.outcomes[i].status = "exact" /\ job.outcomes[i].executed

(* Two conditions of one experiment share an architecture arm only when    *)
(* overshooting was asked for, so without it no arm is run twice for two   *)
(* names (questions/instance.py 76: the instance is named by its arm).     *)
NoArmTwice ==
    ~job.cfg.overshoot =>
        \A i, j \in DOMAIN job.outcomes :
            job.outcomes[i].executed /\ job.outcomes[j].executed
            /\ job.outcomes[i].arm = job.outcomes[j].arm
                => job.outcomes[i].combo = job.outcomes[j].combo

(* A benchmark that was not forced finishes with an aggregate of exactly   *)
(* the valid records the archive has under its name, whatever was started, *)
(* killed or refused before (benchmark/runner.py 328-351).                 *)
AggregateIsArchive ==
    job.pc = "done" /\ job.cfg.kind = "benchmark" /\ ~job.cfg.force =>
        LET mine == {id \in DOMAIN archive : id.name = job.cfg.name} IN
        /\ {archive[id] : id \in mine} = job.records
        /\ job.records # {} =>
              aggregates[job.cfg.name].runs = {id \in mine : archive[id].valid}

(* What the analyses decide: the sufficient and the best condition, the    *)
(* requirement matrix, the representation of each dimension, the           *)
(* hypotheses.  The confidence and the options of a profile count every    *)
(* record and are not among them.                                          *)
Conclusions(rs, u) ==
    LET scoped == RecordsForUseCase(rs, u) IN
    [sufficient      |-> MinimalSufficient(scoped),
     best            |-> BestTested(scoped),
     matrix          |-> [d \in Dimensions |-> RequirementCell(rs, u, d)],
     representations |-> Profile(rs, u).representations,
     hypotheses      |-> [h \in DOMAIN HypothesisSpecs |-> EvaluateHypothesis(h, rs)]]

(* A run that fails, or one of a legacy agent, moves none of these         *)
(* conclusions; it may only add a condition that is not sufficient         *)
(* (analysis/_shared.py 31-38, experiments/hypotheses.py,                  *)
(* is_usable_record).                                                      *)
FailuresConcludeNothing ==
    [][(\A id \in DOMAIN archive' : Saved(id) \/ ~IsUsable(archive'[id]))
       /\ (\A id \in DOMAIN archive : archive'[id] = archive[id])
       => \A u \in DOMAIN UseCases :
             Conclusions(Loaded', u) = Conclusions(Loaded, u)]_experimentVars
=============================================================================
