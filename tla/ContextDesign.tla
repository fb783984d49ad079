--------------------------- MODULE ContextDesign ---------------------------
(***************************************************************************)
(* The experimental design space (src/icab/tasks): the seven context       *)
(* dimensions, the architectures that supply them, the combinations of     *)
(* dimensions, the strategies that select combinations, and the resolution *)
(* of a combination to an architecture arm.  A combination is the set of   *)
(* its dimensions and an arm the set of its architectures; ids and         *)
(* canonical tuples carry nothing more.                                    *)
(***************************************************************************)
EXTENDS Naturals, FiniteSets, SequencesExt

CanonicalDimensionOrder == <<"C1", "C2", "C3", "C4", "C5", "C6", "C7">>
Dimensions == ToSet(CanonicalDimensionOrder)

ArchitectureOrder == <<"historian", "i3x", "knowledge_graph", "mqtt", "opcua", "uns">>
Architectures == ToSet(ArchitectureOrder)

ArchitecturesSupporting ==
    [C1 |-> {"uns", "i3x"},
     C2 |-> {"uns", "opcua", "i3x", "knowledge_graph"},
     C3 |-> {"knowledge_graph", "i3x"},
     C4 |-> {"historian", "i3x"},
     C5 |-> {"historian", "mqtt", "opcua", "i3x"},
     C6 |-> {"knowledge_graph", "i3x"},
     C7 |-> {"historian", "i3x"}]

UnsupportedDimensions(required, available) ==
    {d \in required : ArchitecturesSupporting[d] \cap available = {}}

ProvidedDimensions(available) ==
    {d \in Dimensions : ArchitecturesSupporting[d] \cap available # {}}

(* The 127 combinations, and the order of their ids within a cardinality:  *)
(* of two different ids the smaller has the first element they do not      *)
(* share.                                                                  *)
AllCombinations == (SUBSET Dimensions) \ {{}}

Position(order, x) == CHOOSE i \in DOMAIN order : order[i] = x

Precedes(order, A, B) ==
    \/ Cardinality(A) < Cardinality(B)
    \/ /\ Cardinality(A) = Cardinality(B)
       /\ \E x \in A \ B : \A y \in B \ A : Position(order, x) < Position(order, y)

CombinationLess(A, B) == Precedes(CanonicalDimensionOrder, A, B)
ArmLess(A, B) == Precedes(ArchitectureOrder, A, B)

First(arms) == CHOOSE a \in arms : \A b \in arms \ {a} : ArmLess(a, b)

(* The combinations sorted by id: the i-th has i - 1 before it.            *)
InOrder(combos) ==
    [i \in 1..Cardinality(combos) |->
        CHOOSE c \in combos : Cardinality({d \in combos : CombinationLess(d, c)}) = i - 1]
-----------------------------------------------------------------------------
(* resolve_condition_architectures.  An exact arm provides the combination *)
(* and nothing else; an overshooting one provides more, as little as       *)
(* possible.  Ties go to the smaller arm, then to the alphabet.            *)
Resolution(status, arm, target) ==
    [status |-> status, arm |-> arm, provided |-> ProvidedDimensions(arm),
     extra |-> ProvidedDimensions(arm) \ target]

Arms(available) == (SUBSET available) \ {{}}

(* Variant with a plausible bug: any arm that covers the target counts as  *)
(* exact.                                                                  *)
ResolveCovering(target, available) ==
    LET covering == {a \in Arms(available) : target \subseteq ProvidedDimensions(a)} IN
    IF covering # {} THEN Resolution("exact", First(covering), target)
    ELSE [status |-> "unrealizable", arm |-> {}, provided |-> {}, extra |-> {}]

Resolve(target, available) ==
    LET covering == {a \in Arms(available) : target \subseteq ProvidedDimensions(a)}
        exact    == {a \in covering : ProvidedDimensions(a) = target}
        excess(a) == Cardinality(ProvidedDimensions(a) \ target)
        closest  == {a \in covering : \A b \in covering : excess(a) <= excess(b)}
    IN  IF exact # {} THEN Resolution("exact", First(exact), target)
        ELSE IF covering # {} THEN Resolution("overshoot", First(closest), target)
        ELSE [status |-> "unrealizable", arm |-> {}, provided |-> {}, extra |-> {}]

RealizableCombinations(available) ==
    {ProvidedDimensions(a) : a \in Arms(available)} \ {{}}
-----------------------------------------------------------------------------
(* The static strategies of experiment_design.py, as sequences of          *)
(* combinations in the order in which they are run.                        *)
CombinationsOfSize(n) == InOrder({c \in AllCombinations : Cardinality(c) = n})

SingleDimensionConditions == CombinationsOfSize(1)
PairwiseConditions == CombinationsOfSize(2)

ProgressiveConditions(order) ==
    [n \in DOMAIN order |-> ToSet(SubSeq(order, 1, n))]

AblationConditions(baseline) ==
    LET removed == InOrder({{d} : d \in baseline}) IN
    <<baseline>> \o (IF Cardinality(baseline) = 1 THEN <<>>
                     ELSE [i \in DOMAIN removed |-> baseline \ removed[i]])

(* The baseline of an ablation that names none: what all the architectures *)
(* of the task provide together.                                           *)
DefaultBaseline(available) == ProvidedDimensions(available)

GenerateConditions(design, targets, available) ==
    CASE design = "single"      -> SingleDimensionConditions
      [] design = "pairwise"    -> PairwiseConditions
      [] design = "progressive" -> ProgressiveConditions(CanonicalDimensionOrder)
      [] design = "targeted"    -> targets
      [] design = "ablation"    -> AblationConditions(DefaultBaseline(available))
-----------------------------------------------------------------------------
(* The named presets of architecture_combinations.py that a task may be    *)
(* run with, and the arms an --architectures specification expands to.     *)
ArchitectureCombinations ==
    [historian_only     |-> {"historian"},
     uns_mqtt           |-> {"uns", "mqtt"},
     opcua_historian    |-> {"opcua", "historian"},
     i3x_historian      |-> {"i3x", "historian"},
     kg_historian       |-> {"knowledge_graph", "historian"},
     uns_historian_kg   |-> {"uns", "historian", "knowledge_graph"},
     mqtt_uns_historian |-> {"mqtt", "uns", "historian"},
     full               |-> Architectures]

Arm(architectures, key) == [arm |-> architectures, key |-> key]

(* Every preset is all or nothing: a task that lacks one of its            *)
(* architectures is skipped.                                               *)
ResolveArchitectureArms(spec, available) ==
    IF spec = "all" THEN {Arm({a}, "none") : a \in available}
    ELSE {Arm(as, spec) : as \in {ArchitectureCombinations[spec]} \cap SUBSET available}
-----------------------------------------------------------------------------
(* What the registries check before a task, a use case or a question can   *)
(* be used.  Unique ids are what indexing them by id says.                 *)
ValidTask(t, scenarios) ==
    /\ t.available # {} /\ t.required # {}
    /\ UnsupportedDimensions(t.required, t.available) = {}
    /\ t.temporal => t.required \cap {"C4", "C7"} # {}
    /\ t.relational => t.required \cap {"C3", "C6"} # {}
    /\ t.scenario \in DOMAIN scenarios /\ t.available \subseteq scenarios[t.scenario]

ValidUseCase(u, scenarios) ==
    /\ u.required # {} /\ u.required \subseteq u.candidate
    /\ u.scenarios # {} /\ u.scenarios \subseteq DOMAIN scenarios

(* The tasks of a split are those of every scenario in its list.           *)
TasksInSplit(tasks, assignment, split) ==
    {t \in DOMAIN tasks : tasks[t].scenario \in assignment[split]}
=============================================================================
