# A verification model of icab

icab is a benchmark of tool-using agents on an industrial plant: it simulates the
Tennessee Eastman Process (TEP), pushes snapshots of it into several context
architectures (historian, knowledge graph, MQTT, OPC UA, i3X, UNS), lets an agent
investigate a question through a Gateway that exposes those architectures as
tools, and stores, evaluates and compares the runs.

This directory holds TLA+ modules that model the parts of the program that keep
state and act over time, TLC configurations that check them on small instances,
and proofs, checked by TLAPS, that hold for every value of the constants.
Line numbers below are those of files under `src/`; `src/icab` is the package
`src/src/icab` of the repository tree. `PROJECT.json` maps every definition to
the lines it models and lists the runs, the hazards and the theorems.

Contents: [the system](#1-the-system), [the modules](#2-the-modules),
[the runs](#3-the-runs), [bounds and fairness](#4-bounds-and-fairness),
[proofs](#5-proofs), [where code and documentation disagree](#6-where-code-and-documentation-disagree),
[what is not modelled](#7-what-is-not-modelled), [the plan](#8-the-plan).

## 1. The system

A question campaign, the longest of the program's workflows, runs through every
layer:

    operator -> run_level_benchmark.py -> QuestionBenchmarkRunner.run
                  for each question x scenario x combination x seed x repetition:
                    run_one -> ExperimentRunner.run_task
                                 ScenarioRunner.prepare  -> TEPSimulator
                                                         -> TEPContextSync -> backends
                                 LLMInvestigationAgent.run -> provider
                                                         -> AgentGatewayClient -> Gateway -> backends
                                 evaluator
                    ExperimentResultStore.save -> raw/, traces/, evaluations/
                  manifest.json, then LevelResultsExporter

| component | state it keeps | operations | what makes it correct |
|---|---|---|---|
| `experiments/storage.py` result store | three files per run id | `save`, `load_record`, `list_run_ids` | the three files of a run are of one execution; a record that was written stays |
| `benchmark/question_runner.py` campaign runner | position in its nested loops, counters | `run` with `--force`, `--resume`; collision check; level check | nothing is overwritten unasked; a resume neither repeats nor loses a run; the report says what the store holds |
| `benchmark/manifest.py` | `manifest.json` of the level | `build_manifest`, `write_manifest` | names every record of the level and nothing else |
| `benchmark/_execution.py`, `experiments/runner.py` | one record in the making | `run_one`, `run_task`, `_run_prepared` | every run ends in a record; a FAILED record never looks evaluated |
| `agent/llm/agent.py` LLM agent | conversation, budgets used, findings, evidence | the tool-calling loop | every tool call answered before the next turn; budgets hold; only granted tools |
| `agent/client.py`, `trace/collector.py` | the trace of the run | `call_tool`, `record` | the trace tells what the agent saw, in order |
| `scenarios/runner.py` scenario runner | elapsed time, pending activations and clears | `prepare` | the plant follows the fault schedule; the backends end up with this plant's data |
| `tep/simulator.py` | kernel state, disturbance vector | `reset`, `step`, `inject_fault` | deterministic for a seed; stops when the plant trips |
| `tep/context_sync.py`, `context/environment_loader.py`, `tep/adapter.py` | none | `sync`: graph entities, graph relationships, observations, MQTT | the backends agree |
| `context/historian`, `context/knowledge_graph`, `context/mqtt` | rows, nodes and edges, retained messages; they outlive processes | `write_*`, `publish_state` | first writer, last writer and merge rules leave what the next reader needs |
| `scripts/run_level_benchmark.py` level command | exit code, what it has loaded | campaign, export, validation, completeness table; `--check-only` | exits with 0 only when nothing failed or the level is complete; a resume reaches its export |
| `export/` writer, validation | the export tree of a campaign; outlives processes | per-execution files written once, aggregates regenerated, `validate_export` | an accepted export describes every planned run once; aggregates are of one generation |
| `benchmark/completeness.py`, `benchmark/levels.py` | none | completeness of a level from its records | complete means exactly the target repetitions of every question |
| `benchmark/runner.py`, `benchmark/context_experiment.py` | counters and records of a suite, the archive `results/` | `run`, collision check, replay | the aggregate is what was saved under the name; a replay finds what was recorded |
| `tasks/` conditions, combinations, designs, `experiments/architecture_combinations.py` | none | resolution of a combination of dimensions to an architecture arm; design strategies | the arm is the best there is; no arm is run twice without overshoot |
| `analysis/`, `reporting/aggregation.py`, `experiments/hypotheses.py` | none | sufficiency, necessity, composition, representation, profile, requirement matrix, hypotheses | failed and legacy runs change none of these but a profile's confidence |
| `gateway/`, `context/opcua/client.py`, `context/i3x` | the shared OPC UA connection | read-only tool handlers, concurrently | a call that no other overlaps succeeds and cleans up; every request is answered |
| `context/opcua/tep_server.py` | one value per node | rewritten node by node from a live simulator | a read is a value the node held |
| deterministic agents (`agent/baseline`, `context_aware.py`, `architecture_aware.py`) | none | fixed plans of Gateway calls | end, or fail, within their plan |
| `evaluation/`, `analysis/failure_taxonomy.py`, `analysis/discoverability.py` | none | scoring of a result against ground truth and trace; two classifications of the record | attributions are final; the classifications agree; only this preparation's relationships confirm |
| registries (`scenarios`, `tasks`, `questions`, `usecases`) | loaded once | validation of YAML | a task's dimensions are supported by its architectures |

Interactions. Everything runs in one thread of one process per command; the only
sharing between processes is through files (two commands on one level) and
through the backends (preparations one after the other, each of which finds what
the earlier ones, finished or abandoned, left behind). The Gateway is a separate
asynchronous server that all commands call, with one OPC UA client for all
requests, and the OPC UA server beside it is fed by a simulator of its own.

What is hard to test here: a process that dies between two of the three files of
a run, and the resume after it; sequences of starts with different flags; two
campaigns on one level; faults that fall between two snapshots or on one; a
tripped plant whose clock stands still; backends that keep an earlier
preparation's data; turns with several tool calls of which some fail, submit, or
exceed one of four budgets; exceptions at each stage of a run. `PROJECT.json`
lists them as hazards, at their lines, with the properties that cover them.

## 2. The modules

| module | models | role |
|---|---|---|
| `ResultStore` | `experiments/storage.py`, `trace/storage.py` | state and write steps of the store; extended by `QuestionCampaign` |
| `QuestionCampaign` | `benchmark/question_runner.py`, `benchmark/manifest.py`, the record of `run_one` | any number of invocations over one store |
| `CampaignLedger` | what campaigns promise | abstract specification that `QuestionCampaign` implements |
| `QuestionCampaign_proofs`, `CampaignReports_proofs` | | theorems |
| `TEPSimulator` | `tep/simulator.py` around an external kernel | extended by `ScenarioRunner` |
| `ContextStores` | graph, historian and broker writes | extended by `ScenarioRunner` |
| `ScenarioRunner` | `scenarios/runner.py`, `tep/context_sync.py`, `context/environment_loader.py`, `tep/adapter.py` | preparations over persistent backends |
| `ScenarioRunner_proofs` | | theorems |
| `InvestigationAgent` | `agent/llm/*`, `agent/client.py`, `trace/*`, `experiments/runner.py`, `benchmark/_execution.py` | one run, from `run_one` to its record |
| `InvestigationAgent_proofs` | | theorems |
| `LevelCompleteness` | `benchmark/completeness.py` | operators over `ResultStore`; extended by `CampaignExport` |
| `CampaignExport` | `scripts/run_level_benchmark.py`, `export/*`, `scripts/reset_active_results.py` | the level command around a `QuestionCampaign`, and the export tree |
| `CampaignExport_proofs` | | theorems |
| `ContextDesign` | `tasks/context_*.py`, `tasks/experiment_design.py`, `tasks/splits.py`, `experiments/architecture_combinations.py`, arms of `benchmark/config.py` | operators: dimensions, combinations, resolution, designs |
| `ContextAnalysis` | `analysis/*`, `reporting/aggregation.py`, `reporting/stats.py`, `experiments/controls.py`, `experiments/hypotheses.py` | operators over sets of records |
| `ContextExperiment` | `benchmark/runner.py`, `benchmark/context_experiment.py` | invocations of both runners over one archive |
| `ContextDesign_proofs`, `ContextExperiment_proofs` | | theorems |
| `AgentGateway` | `gateway/*`, `context/opcua/*`, the tool catalogue of `agent/llm/tools.py`, the backends' reads | concurrent requests over moving backends |
| `GroundedEvaluation` | `evaluation/*`, `analysis/failure_taxonomy.py`, `analysis/discoverability.py` | operators over a trace and a result |
| `EvidenceRuns` | the deterministic agents, the calls of the LLM agent, `experiments/runner.py` | composes `AgentGateway` and `GroundedEvaluation`: whole runs and what is made of them |
| `EvidenceRuns_proofs` | | theorems |
| `MCQuestionCampaign`, `MCScenarioRunner`, `MCInvestigationAgent`, `MCCampaignExport`, `MCContextExperiment`, `MCEvidenceRuns` | | the small instances TLC checks |

    ResultStore <- LevelCompleteness <-.
         ^                              CampaignExport
         '-------- QuestionCampaign  <-'
    TEPSimulator, ContextStores <- ScenarioRunner
    ContextDesign <- ContextAnalysis <- ContextExperiment
    AgentGateway, GroundedEvaluation <- EvidenceRuns
    (X <- Y: Y extends X)

Definitions commented "Variant ..." are bugs on purpose: each replaces one
definition of the code in a mutation test, and shows that a property would notice.

### QuestionCampaign and ResultStore

A file is absent, torn (opened for writing, then the process died) or whole, and
a whole file is known by the execution that wrote it: `exec` numbers the calls
of `run_one` for a run id. `save` is six steps, open and write of each file, in
the order of `storage.py` 96-112; the evaluation is written only when the record
has one.

An invoker is an operating-system process. `Start` is the operator's command
with a campaign and flags; `CheckNoExistingCampaign` the collision check with
its prefix glob (`Matches`: the glob of `pilot` also finds the files of
`pilot-2`); then, per run id of the plan, `RefuseForeignLevel`, `SkipRecorded`
or `BeginExecution`, `EndExecution` and the steps of `save`; `FinishLoops`,
`ListRecords`, `LoadNext` and the two steps of the manifest follow. `Crash`
stands for a kill and for a write that raises, and may happen at any step. The
order in which the loops visit run ids is deterministic, so it is a constant,
`Plan`; questions, scenarios and combinations appear only through it. `Start`
assumes that operators do not run one campaign twice at the same time.

`CampaignLedger` says the same without files and processes: a run id is recorded
once and never changed, and a report is given only for a campaign whose runs are
all recorded, with the true counts. The refinement maps a whole raw file to its
status and everything else to "none"; it holds without `--force`.

### ScenarioRunner, TEPSimulator, ContextStores

The kernel is external and deterministic: every measurement is a function of the
seed and of the disturbance vectors of the intervals since the reset. The model
keeps exactly this history, so two measurements are equal in the model when the
program could not tell them apart. Time is counted in native control intervals.
`StepPlant` stops when the plant trips, as `step` does; `Time` then stands still
while `elapsed`, the runner's own clock, goes on.

`Prepare` starts a preparation with a fresh generation id (its number), the
warmup steps record nothing, then the loop: four backend writes per snapshot
(`SyncEntities` to `SyncTopic`, each backend with its own conflict rule:
first writer wins in the historian, last writer in the graph and the broker),
due activations in order, due clears in order, one step of at most the sync
interval. `Leave` ends or abandons the preparation at any point, also between
two backend writes. The backends are never reset.

### InvestigationAgent

The provider and the Gateway are the environment. A turn is any sequence of up
to `MaxTurn` calls from `ToolCalls`; a call answers "value" or "error"; the
provider may raise. The budgets are checked where the code checks them: wall
time before a turn, tokens after a response (whose usage counts and whose calls
are dropped), tool calls before each call, steps by the loop. A call the arm
does not grant becomes an error answer without reaching the Gateway and a call
that fails is not traced, but both count against the budget, leave a finding and
an evidence reference. `StoreReturned`, `StoreRaised` and `StoreUnprepared`
are the three ways a run becomes a record; the last loses the trace, and stands for an
exception anywhere in `run_task` outside the try around the agent, also after an agent
that raised. `CallRaises` is a call whose arguments are JSON but no object. Sums and selections over the trace are
written with a recursive function and with the places selected (`Chosen`), which can
be reasoned about.

### CampaignExport and LevelCompleteness

`StartCommand` is an invocation of the level command; `CampaignStep` is a step of
`QuestionCampaign`, whole. A campaign that ended is loaded (`LoadRecords`: every
planned run with its trace; what cannot be read ends the command, with exit code 2 for
a trace with a cut line and 1 for anything else), its files are written one
after the other (`WriteFile`, in the order of `writer.py` 98-112, each kept or
rewritten as the code decides), validated, and the command ends with the
completeness table and its exit code. A file of the tree is absent, torn or
whole with its rows; a row names the executions that its record, its evaluation
and its trace came from, so a mixture of executions is visible. `CrashCommand`
and `CrashWriting` kill the process between and within files. `CheckOnly` is
`--check-only`; `--no-export` is left out. A campaign that raised counts as no
runs, as `_run_one_level` has it. `ResetResults` belongs to a specification of
its own, `ResetSpec`, used by one run.

### ContextDesign, ContextAnalysis, ContextExperiment

A combination is the set of its dimensions and an arm the set of its
architectures. `Resolve` is `resolve_condition_architectures` with its ranks and
ties, `GenerateConditions` the five designs; the support table is the code's.
The analyses work on sets of records with one integer score; a mean is kept as
sum and count, and "no value" as count 0. `ContextExperiment` starts any of the
`Configs` after the collision check by name prefix, selects tasks or conditions
(`ReplayConditions` reads the archive), runs the arms run by run with either
outcome, and writes the aggregate of a benchmark. A record is saved, cut short
(`"torn"`) or absent; one that was saved by a process that died before the evaluation
file has no score, and the analyses leave it out (`Evaluated`). The steps inside one
save are those of `QuestionCampaign`.
The tasks and use cases of the instance satisfy `ValidTask` and `ValidUseCase`,
the conditions the registries check, as assumptions TLC evaluates; so are the
configurations, which satisfy `ValidConfig`, what the two configuration classes accept.

### AgentGateway, GroundedEvaluation, EvidenceRuns

The plant is cut to one equipment with two measurements, and the static
prototype's measurement that has no row. A response is kept by what an
evaluation can find in it: ids with an observation, names, numbers, and the
generation of the relationship. Requests of several clients interleave; those
over OPC UA take three steps, because `connect`, the operation and `disconnect`
each await, and share `session`, the one connection the client object knows. A
second `connect` replaces it, the replaced connection stays in `open`, and
whoever disconnects first takes the connection away from the other. Around the
requests the live simulator rewrites the OPC UA nodes one by one, and another
preparation replaces graph, historian and broker in the order of
`TEPContextSync.sync`. Backends may fail any request, the connection to the OPC UA
server included. The Gateway takes a request only by its route's method and with the
parameter its model names (`Accepts`).

`EvidenceRuns` runs an agent of every kind against it: the deterministic agents
by their plans, with the requests they really send (the knowledge-graph agent
sends `entity_id`, which the request model rejects; the i3X agent posts its first call
to a GET route, `agent/client.py` 31 and `gateway/app.py` 219-274, and is answered 405;
both always fail), the LLM agent as any
sequence of calls of its menu. `GroundedEvaluation` turns the ended run into
scores, kept as whether they are 1.0, into an information flow and into the two
classifications. A text is the identifiers, names and numbers the evaluator's
patterns find in it, the objective's included, as in the code.

## 3. The runs

| run | instance | shows |
|---|---|---|
| `export_modes` | the level command: one operator, three campaigns, two with a shared prefix and one refused for a run of another level, all four flag combinations, two starts, killed anywhere | what may be overwritten (`OverwrittenOnlyByForce`), that reports count what the store holds (`ReportsMatchStore`) and the manifest covers the level; that an accepted export describes each planned run once and its whole per-execution files are of that very run and no newer (`AcceptedExportCoversPlan`), aggregates are of one generation (`AggregatesAgree`) and per-execution files final (`ExportedOnce`); what exit code 0 and completeness mean; that a resume on readable files exports (`ResumeExports`) |
| `campaign_ledger` | two processes, two campaigns of one level interleaved file by file, without force, three starts | files of a run stay of one execution (`ArtefactsPaired`), the manifest names only whole records, the write-once ledger is implemented through crashes |
| `scenario_timeline` | five scenarios with their own seeds, three preparations, any of them abandoned anywhere | the plant follows the schedule, the historian holds exactly this plant's snapshots, every topic retains the last one, the graph belongs to this preparation, preparations end |
| `agent_run` | every run of two turns of two calls under three budgets | conversation, trace, findings, evidence, usage and record tell the same story, the budgets hold, every run is recorded |
| `context_experiment` | two tasks of the shipped suite, nine invocations of both runners and every design but two, two starts, killed anywhere | conditions resolve to the best arm (`ResolutionsAreBest`), a replay finds exact arms whatever was run before (`ReplayIsExact`), no arm is run twice without overshoot (`NoArmTwice`), the aggregate is what was saved (`AggregateIsArchive`), failed and legacy runs do not change which combinations suffice, which one is best, the requirement matrix, the representations or the verdict on a hypothesis (`FailuresConcludeNothing`) |
| `investigation_evidence` | an agent of every kind beside a client that reads OPC UA; the live plant steps once, another preparation replaces graph and historian | an OPC UA call no other overlaps succeeds with a value its node held (`LoneCallsSucceed`); every run ends (`RunsEnd`); an acquisition once attributed stays (`AttributionIsFinal`); a relationship another preparation wrote confirms nothing (`NoLateConfirmation`); taxonomy and ladder agree (`LadderMatchesTaxonomy`) |
| six more | | each violates one sentence of the documentation, see section 6 |

The type invariants (`TypeOK`, `ExportTypeOK`, `ExperimentTypeOK`,
`EvidenceTypeOK`) are in the runs of their modules.

## 4. Bounds and fairness

| bound | value | why it is enough |
|---|---|---|
| `RunIds` | 4 or 5 | two campaigns with one and two runs, and a run another level owns (`Foreign`) |
| `MaxStarts` | 2 or 3 | two make start, crash and resume (or force) over the remains; three add a second process or a resume of a resume; the theorems of section 5 have no such bound |
| `Bank`, targets | 2 questions, 1 repetition | a level can be short, exact, or over its target through a second campaign |
| `Configs` | nine invocations | benchmark before and after benchmark of a name it is a prefix of, forced, legacy; context experiments with and without overshoot; a replay after each |
| `Scores`, `Threshold` | {0, 2}, 1 | above and below the pass threshold, and means between |
| `MaxSamples`, `MaxGenerations` | 1; 2, 2, 1 | a node is read before, between and after its rewrite; the other preparation stops between graph and historian, and before the broker |
| `MaxCalls` | 2 and 1 | two calls in either order, and a budget that cuts a run off; the second client overlaps any of them |
| `Invokers` | 1 or 2 | the properties compare one process with the rest of the level |
| scenarios | `Permanent`, `Tripping`, `Expired`, `Temporary`, `Quiet` | a fault in mid-timeline; one between snapshots, with a trip and a short last step; one over before the first snapshot and one cleared at the end; one never visible; none |
| `DayLength` | 10 | longer than every timeline, as 24 h is longer than every shipped scenario |
| `Trips` | disturbance `b` in two intervals | the tripping scenario trips before its end, in the middle of a step |
| `Topics` | 2 | a preparation can be abandoned between two publishes |
| `MaxPreparations` | 3 | an abandoned or finished one before, and one between |
| `Budgets` | none, small tool-call and token limits, small tool-call and time limits | each limit is hit and is also absent |
| `MaxTurn`, steps | 2, 2 | two calls of one tool in one turn share a finding; an answer precedes a later turn |
| `Usages`, `MaxClock` | {0, 2}, 2 | unreported usage; a token limit of 3 broken by the second response; the clock saturates at the time limit |

`CHECK_DEADLOCK FALSE` appears in the campaign, export and experiment runs, which
stop when `MaxStarts` invocations have ended, in the scenario runs, which stop
after `MaxPreparations`, and in the evidence runs, which stop when both runs have
ended. The agent run checks for deadlock: its only end is a stored record.

Fairness. `QuestionCampaign` assumes weak fairness of each process's own `Step`,
never of `Start` or `Crash`: `run` is straight-line code in one thread, its loops
are over finite products, and `run_one` returns because the agent's loop is
bounded by `max_steps` (`agent/llm/agent.py` 119) and each provider and Gateway
request by a timeout. `ScenarioRunner` assumes it of `Step` for the same reason;
`Leave` is never forced. `InvestigationAgent` assumes it of `Next`.
`CampaignExport` assumes it of each command's own steps: loading, writing and
validating are straight-line code. `EvidenceRuns` assumes it of each client's
handler step and agent step, because the event loop of the Gateway resumes every
coroutine that can go on, every client request has a timeout (`agent/client.py`
45-50) and the OPC UA client one of 30 s; nothing is assumed of the live plant
or of the other preparation. `ContextExperiment` states no liveness. Liveness
under a kill is not claimed: `ResumeExports` allows a kill and says nothing of a level
with a torn file, which makes every resume raise until the file is removed by hand.

## 5. Proofs

TLAPS checks every theorem for all values of the constants that satisfy the
named assumptions of the modules. A bound such as `MaxStarts` or `MaxTurn` is
any natural number in them.

`QuestionCampaign_proofs`, from `CampaignAssumption` and `RunIdsAssumption`:

- `TypeCorrect`: `Spec => []TypeOK`. Inductive invariant `TypeInv`, which adds
  `InPlan`: a process that executes or saves a run is at a position of its plan.
- `RecordsProtected`: `DistinctPlans => (Spec => OverwrittenOnlyByForce)`, for any
  number of processes, starts and crashes. A process that is about to open a raw
  file for writing decided so several steps earlier, at the collision check or at
  the resume skip, and other processes write in between. `ProtectInv` carries the
  decision forward: `Exclusive` (no two running processes share a campaign),
  `FreshAhead` (what a fresh start has ahead of it has no raw file),
  `Unwritten` (nor has the run any unforced process is executing) and
  `TornMeanwhile` (between open and write its file is torn). `DistinctPlans` is
  needed: with two positions of one run id the second rightly finds a file.
- `ManifestSound`: with `DistinctPlans` and no forced start (`NoForcedModes`),
  `Spec => []ManifestNamesOnlyRecords`. `ManifestInv` adds that what a process has
  loaded, and will write, stays recorded, which is `RecordsProtected` again: the
  lemma `RecordKept` serves both.

`CampaignReports_proofs` extends it. The hypotheses are those above and
`OneInvoker`, that the level has one process at a time; two processes may record
runs between the listing and the writing of a manifest, so `ManifestCoversLevel`
needs it and the run `export_modes` has it.

- `ReportsTrue`: `DistinctPlans => (Spec => ReportsMatchStore)`, forced invocations
  included. `CountInv` relates the three counters of a running invocation to the
  positions of its plan that it has behind it: each is the number of those whose
  record has the status counted. Another process cannot disturb it, because plans
  share no run id and no two running processes a campaign.
- `LedgerImplemented`: `DistinctPlans /\ NoForcedModes => (Spec => ImplementsLedger)`.
  The write that completes a raw file is `RecordRun`, the end of an invocation
  `ReportCampaign`, and every other step stutters (`StepImplementsLedger`); the first
  needs `RecordsProtected`, the second `CountInv`.
- `FilesPaired` (`ArtefactsPaired`): `PairInv` says that a run without a record has
  no other file, since `save` writes the record first; with `Written`, that the record
  is of the execution in hand while the other two files are written beside it.
- `ManifestComplete`: `OneInvoker => (Spec => []ManifestCoversLevel)`. `CoverInv`
  splits the level's records into the loaded ones and the ones still listed.

`CampaignExport_proofs` extends that one, and adds `BankAssumption`.

- `CommandsRunCampaigns`: `ExportSpec => Spec`. A step of the command is a step of a
  campaign or leaves it alone, so every theorem above holds of commands; the
  following proofs use them.
- `CompletenessExact` (`CompleteIsExact`), for any bank, target and processes: the
  completed records of a question have as many repetitions as the target, so with no
  duplicate there is exactly one record for each.
- `ExportTypeCorrect` (`ExportTypeOK`), and `PerExecutionFilesKept` (`ExportedOnce`)
  without any hypothesis.
- `ExitZeroTrue`, `AggregatesTrue`, `AcceptedExportTrue`, with `DistinctPlans` (not the
  last) and `OneInvoker`, because between an invocation's campaign and its export
  another may change the records it reads. `DoneInv` carries `CountInv` past the end of
  the campaign; `TreeInv` says which of the `Writes` are already in the tree
  with the rows in hand, by their order; `ExecInv` that no file of an execution is of a
  later one than the record it stands beside. That the rows have an order at all
  (`Sorted`) is `SortingExists`, by a least counterexample, since the library's
  induction rule cannot be used.

`ScenarioRunner_proofs`, from `ScenarioAssumption`, `SimulatorAssumption` and
`TopicsAssumption`:

- `TypeCorrect`: `TypeInv` adds `Running`, that a loop that goes on is short of
  its end, without which a step could be negative.
- `GraphOwned`: `Spec => []RelationshipsOwned`. `OwnedInv` says that from the
  relationship write of the first snapshot on, entities exist and the edges carry
  this preparation's generation, until it is left.
- `TopicsFinal` (`RetainedIsFinal`): `PublishInv` follows the snapshot through the
  topics that have been published and those that have not.
- `ScheduleFollowed`: `SingleFaults => (Spec => []PlantFollowsSchedule)`.
  `ScheduleInv` says of every fault whether it waits, is in force or is cleared, and
  that none of this came early; of the loop, that its clock is at a snapshot's
  boundary; and of the plant, that its history is `Course`, the schedule's. A kernel
  that trips leaves the course where it is. `SingleFaults`, that the faults of a scenario
  have disturbances of their own, is what every shipped scenario does; without it the
  statement is false, which is the run `scenario_permanent_fault`.
- `OwnTimelineKept`: `SingleFaults /\ SeparateDays => (Spec => []OwnTimeline)`. `RowInv`
  says of every row in the historian, whoever wrote it, that its value is the one the
  scenario of that seed has at that time on its course; an abandoned preparation
  leaves a part of these rows and the first writer's value is the same as any
  later one's, because the kernel is deterministic. `SeparateDays`, different seeds and
  timelines shorter than a day, is again what is shipped; with `--seeds` two scenarios
  share a day and the statement is false (section 6).

`InvestigationAgent_proofs`, from `AgentAssumption` and `RecordAssumption`:

- `GrantRespected` (`OnlyGrantedTools`), from the lemma `TraceStep`: a step extends
  the trace by a response's usage or by a call of a granted tool.
- `BudgetsRespected` (`BudgetsHold`): `BudgetInv` adds that the turns in the
  conversation are exactly those before this one, and this one while its calls
  are answered; that is why a run that ends by its steps has had all of them.
- `RecordsTruthful` (`RecordTellsRun`): from `Ended`, that an agent has a result
  exactly from its return on.
- `TypeCorrect` (`TypeOK`), `TraceTellsTruth` (`TraceTellsAnswers`) and
  `ResultTellsTruth` (`ResultTellsAnswers`): only a response and an answered call add to
  what a run claims (`ClaimStep`), and a selection from a longer sequence is that from
  the shorter one, with the last element if it is selected (`SelectionGrows`). So the
  trace's calls and the answers with a value grow together (`TraceInv`), and so do
  the answers, the evidence and the findings (`ResultInv`).
- `UsageExact` (`UsageAccounted`): one more event adds its usage to the sum
  (`TotalGrows`), so the agent's own count is the sum over its trace at every step.
  That the recursive `RunningTotal` has the value it should is shown by the least
  number at which it would not (`TotalExists`, `TotalsAgree`).
- `CallsAnswered` (`TurnsAnswered`): `AnswerInv` places the assistant message of
  the running turn at `Len(messages) - answered`, with its answers behind it.

`EvidenceRuns_proofs`, the first two without any assumption on agents, menus, tasks
or bounds, the others from `GatewayAssumption` and `EvidenceAssumption`:

- `ClassificationsMatch` (`LadderMatchesTaxonomy`): the lemma `ClassificationsAgree`
  goes through the two chains of rules for every status and every report there
  could be, reachable or not.
- `AttributionsFinal` (`AttributionIsFinal`): a step leaves a trace as it is or
  appends one event (`TraceStep`), and what an event acquires is a function of the
  events up to it (`AcquiredBefore`, for which the node names are collected from
  the part before it), so a longer trace has the acquisitions of the shorter one
  and none else from its events (`AcquisitionsOfPrefix`). The inductive invariant is
  only `Shape`: every client has a run, whose trace is a sequence.
- `EvidenceTypeCorrect` (`EvidenceTypeOK`): `TypeInv` adds that an LLM that waits for an
  answer has a step left, and that only OPC UA requests are connected or operated. The
  lemmas `SendStep` to `SyncStep` say field by field what each step does to a request;
  all later proofs are by them.
- `LoneCallsAnswered` (`LoneCallsSucceed`), for any number of clients on the one
  connection object: `LoneInv` says of a request that is still alone that no other OPC UA
  request is under way and, from its connect on, that the shared client knows its
  connection and exactly this one has been added to those open when it came; of a read,
  that the node's value is among those it held meanwhile, and so is the answer. Left-over
  connections of others stay in `before` and do no harm.
- `LateAnswersConfirmNothing` (`NoLateConfirmation`): `GraphInv` says that an answer's
  relationship, if it has one, is at least as young as the graph the request found,
  because the generations of a store only grow (`NextStoreInv`).

`ContextDesign_proofs`, for the code's table of dimensions and architectures:

- `InOrderSorts`: the order of ids, by size and then by position, is the order of a
  natural number (`CombinationLessIsRank`, `ArmLessIsRank`), so a set has a first member
  (`FirstIsLeast`) and listing by rank is a bijection.
- `ResolveGivesBest`: any combination on any task. A larger arm provides more
  (`MoreProvidesMore`), hence a combination is covered by some arm exactly when all
  architectures together cover it; some cover has the least excess
  (`SomethingIsClosest`); and a part that provides the same would come first.

`ContextExperiment_proofs` extends it, from `TasksAssumption` and `ExperimentAssumption`,
for any suite, configurations and number of invocations, killed anywhere:

- `ExperimentTypeCorrect`, from the inductive invariant `ExperimentInv`: every record of
  the archive ran an arm its task has and carries the combination that arm provides, what
  is queued asks for no other arm, and every outcome is the resolution of its condition.
- `ResolutionsBest` and `NoArmRunTwice` follow from it by `ResolveGivesBest`: without
  overshoot an executed outcome is exact, and one arm provides one combination.
- `ReplaysAreExact`: the conditions of a replay are those of records (`RecordedArmsProvide`)
  that the replaying task can realize; the ones it cannot are not applicable.
- `AggregatesAreArchive` (`AggregateIsArchive`): `OwnFiles` says that the records of an
  unforced benchmark are what the archive has under its name, and `NothingTwice` that
  what is left to run meets none of these files and no other run. It starts true only
  because the pattern of a name matches the files of that name (`ExperimentAssumption`).
- `FailuresDecideNothing` (`FailuresConcludeNothing`): `UsableRunsDecide` goes through the
  analyses one by one and shows that each of those `Conclusions` lists depends on the
  usable records alone. The confidence of a profile is not among them.

Only model-checked: all liveness (`ResumeExports`, `PreparationEnds`,
`EveryRunRecorded`, `RunsEnd`), which the prover cannot reach. Every invariant and
every action property the passing runs check is also a theorem.

## 6. Where code and documentation disagree

Each of these is a run that TLC finds violated, and a finding in `PROJECT.json`.

- `campaign_unevaluated`: a crash after the raw file and before the evaluation leaves a COMPLETED record; a resume skips it and it is never evaluated ("one EvaluationReport JSON per completed run").
- `export_torn_accepted`: a per-execution file that a crash cut short is kept by every later export, and validation, which asks only that it exists, accepts the export ("never silently reports a partial/corrupted export as complete").
- `scenario_permanent_fault`: clearing a temporary fault names only the disturbance, so it also clears a permanent fault of that disturbance ("once activated, never cleared").
- `export_reset_contaminated`: the reset leaves `benchmark_exports/` where it is, so a fresh campaign of an old name exports new aggregates beside the old answers and traces, and validation accepts them ("starts clean and cannot be contaminated by pre-existing results").
- `evidence_not_retrieved`: required evidence is a hit when any reference or text names it, so a run that retrieved nothing of it is placed at `retrieved_value` or beyond ("every piece of REQUIRED evidence was actually retrieved").
- `evidence_broken_blamed`: an LLM run whose every call failed still cites the identifiers it asked for, and is a `reasoning_failure` ("a broken architecture is never mistaken for poor agent reasoning").

Others met while modelling, without a run of their own; the models contain the
behaviour, and the properties are stated around it:

- `--force` executes the same run ids again and saves over them; `run_level_benchmark.py` 125 says it "overwrites nothing".
- A forced rerun that fails leaves the evaluation of the earlier execution beside the new record (`storage.py` 107), and `load_record` attaches it.
- The epoch depends on the seed alone; with `--seeds` two scenarios share a timestamp range and the second reads the first one's rows (`scenarios/runner.py` 152-156).
- After an earlier scenario with a later epoch the historian's current value is not the value the broker retains (`tep/context_sync.py` 3-5).
- The confidence of a profile counts all records of the use case (`analysis/profile.py` 114) where its comment says usable ones (44-46), so a failed run can raise it; `FailuresConcludeNothing` names the conclusions it is about, and confidence is not one.
- A call that fails leaves no trace event (`agent/client.py` 52), nor does one of a tool the arm lacks; `README.md` 154 says "every tool call, argument, and result". `TraceTellsAnswers` speaks of the successful ones, and `evidence_broken_blamed` shows what follows from it.
- `completeness.py` 137-139 calls a duplicate repetition "not itself an error", but any duplicate makes the level incomplete (`IsCompleteWithDuplicates` is the comment's reading).
- Two of the single-architecture agents cannot succeed against the Gateway (`entity_id` for the graph, a POST to a GET route for i3X), and the earliest baseline raises on any real scenario.
- A level whose campaign is refused or raises (`run_level_benchmark.py` 389) counts as no failed run, so a command that did nothing exits with 0; `ExitZeroMeansCompleted` speaks only of a command that reported its campaign.
- A completed run without evaluation is `none` in the taxonomy and `not_reached` on the ladder; a run that acquires nothing can be `none` and `exists_in_architecture`.

## 7. What is not modelled

- Two invocations of one campaign name at once (both would pass the collision check) and a lost MQTT publish (`mqtt/client.py` 73-77 returns when its wait expires): hazards with a note. A reset under a running campaign is left to the operator. Two preparations at once appear in `EvidenceRuns` as the backends see them, not in `ScenarioRunner`.
- A record of another level among the level's own: `ManifestCoversLevel` and `LevelIssues` leave such records out, but a campaign refuses to make them, so the instances hold none.
- In validation, the check that every exported question has usable ground truth (`export/validation.py` 96-100): a question that was run has a resolved task, and with it ground truth.
- A client timeout (`agent/client.py` 45-50) ends the request together with its handler; in the code the handler goes on at the Gateway until it is done.
- No LLM of the instances calls an i3X tool: those calls are modelled, but only the deterministic i3X agent makes one, and it is rejected.
- `--no-export`; several levels in one command, `--check-only` included, which are the same steps one after the other.
- Wording: prompts, markdown, CSV and figures (`reporting/` renderers), the QA report, the text patterns of the evaluator. Medians, deviations, question statistics, efficiency and use-case tables: arithmetic on the same records, by the same filter.
- The TEP kernel (external code, a deterministic function in the model), the fault catalogue built from it, floating-point sums of time (shipped intervals of 0.25 h are exact).
- The architecture health check: it prepares one scenario itself, and what that does to a run under way is `OtherPreparation`; a backend that fails makes that preparation fail, and with it every check that needs it.
- Settings, data classes, static tables, command-line parsing, generators of tasks and question banks.
- `run_hypothesis_experiment.py`, which stores its results without any collision check.

## 8. The plan

Done: the store and its campaigns, the scenario timeline, one agent run, the
level command and export with completeness and reset, the context design and
experiments with their analyses, the Gateway and the evaluation of whole runs.

Done in the proofs: every safety property of every component that a run checks.

Proofs to come: safety facts behind the liveness properties (what is left to do
only shrinks: positions of a campaign's plan, steps and calls of an agent, snapshots
of a preparation), which would leave only fairness to the model checker.
