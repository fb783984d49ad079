------------------------ MODULE MCContextExperiment ------------------------
(* Two tasks of tasks_v2 on one scenario, with their use cases, the suite  *)
(* split of that scenario, and one invocation of each kind over them.      *)
EXTENDS ContextExperiment

(* configs/benchmark/tasks_v2/d2_reactor_cooling_deviation.yaml            *)
MCTasks ==
    [category |-> [available |-> {"historian", "knowledge_graph"},
                   required |-> {"C3", "C5"}, temporal |-> FALSE, relational |-> TRUE,
                   scenario |-> "cooling", use_case |-> "diagnosis"],
     value    |-> [available |-> {"historian"}, required |-> {"C5"},
                   temporal |-> FALSE, relational |-> FALSE,
                   scenario |-> "cooling", use_case |-> "interpretation"]]

(* configs/usecases/equipment.yaml                                         *)
MCUseCases ==
    [diagnosis      |-> [required |-> {"C3", "C4"}, candidate |-> {"C3", "C4", "C5", "C7"},
                         scenarios |-> {"cooling"}],
     interpretation |-> [required |-> {"C5"}, candidate |-> {"C4", "C5"},
                         scenarios |-> {"cooling"}]]

MCScenarios == [cooling |-> {"historian", "knowledge_graph", "uns", "opcua"}]
MCSplits == [development |-> {}, validation |-> {"cooling"}, test |-> {}]

(* b-2-... is also matched by b-*.json                                     *)
MCNamesUnder ==
    [n \in {"b", "b-2", "c", "c-2", "c-3", "r"} |->
        {n} \cup (IF n = "b" THEN {"b-2"} ELSE IF n = "c" THEN {"c-2", "c-3"} ELSE {})]

Invocation == [kind |-> "benchmark", name |-> "b", force |-> FALSE, task |-> "",
               split |-> "", scenario |-> "", spec |-> "all", legacy |-> FALSE, design |-> "none",
               targets |-> <<>>, overshoot |-> FALSE, reps |-> 1]
Context == [Invocation EXCEPT !.kind = "context", !.name = "c", !.task = "category"]

MCConfigs ==
    {[Invocation EXCEPT !.split = "validation", !.scenario = "cooling", !.spec = "kg_historian"],
     [Invocation EXCEPT !.name = "b-2", !.spec = "historian_only", !.reps = 2],
     [Invocation EXCEPT !.task = "category", !.force = TRUE],
     [Invocation EXCEPT !.task = "value", !.legacy = TRUE],
     [Context EXCEPT !.design = "targeted", !.overshoot = TRUE,
                     !.targets = <<{"C4"}, {"C4", "C5", "C7"}, {"C3", "C5"}>>],
     [Context EXCEPT !.design = "targeted", !.name = "c-2",
                     !.targets = <<{"C4"}, {"C7"}, {"C4", "C5", "C7"}, {"C1"}>>],
     [Context EXCEPT !.design = "single", !.name = "c-3"],
     [Context EXCEPT !.design = "ablation", !.name = "c-3", !.overshoot = TRUE],
     [Context EXCEPT !.design = "replay", !.name = "r", !.overshoot = TRUE]}
=============================================================================
