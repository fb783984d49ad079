-------------------------- MODULE ContextAnalysis --------------------------
(***************************************************************************)
(* What is concluded from persisted run records: grouped aggregation       *)
(* (src/icab/reporting/aggregation.py), the hypotheses (src/icab/          *)
(* experiments/hypotheses.py) and the context analyses (src/icab/analysis).*)
(* One integer score stands for the binding and compared metrics; a mean   *)
(* is the pair of sum and count it is the quotient of, n = 0 being None.   *)
(*                                                                         *)
(* A record is [id, task, combo, arm, key, valid, status, evaluated,       *)
(* score]; the use case of a record is its task's.                         *)
(***************************************************************************)
EXTENDS ContextDesign

CONSTANTS
    Threshold,         \* pass_threshold, in units of the score
    UseCases           \* use case -> [required, candidate] sets of dimensions

ASSUME ThresholdAssumption == Threshold \in Nat \ {0}

(* is_usable_record: VALID and COMPLETED.                                  *)
IsUsable(r) == r.valid /\ r.status = "COMPLETED"
Usable(rs) == {r \in rs : IsUsable(r)}

(* A usable record without its evaluation has no value of the metric.      *)
Evaluated(rs) == {r \in Usable(rs) : r.evaluated}

SumOfScores(rs) == MapThenSumSet(LAMBDA r : r.score, rs)

(* Variant with a plausible bug: a failed run scores nothing.              *)
SummarizeAll(rs) == [sum |-> SumOfScores(rs), n |-> Cardinality(rs)]

(* summarize over the metric values of the usable records that have one.   *)
Summarize(rs) == [sum |-> SumOfScores(Evaluated(rs)), n |-> Cardinality(Evaluated(rs))]

Below(a, b) == a.sum * b.n < b.sum * a.n
Passes(mean) == mean.n > 0 /\ mean.sum >= Threshold * mean.n

(* aggregate_records: invalid records are left out, failed ones counted.   *)
AggregateRecords(rs, dimension) ==
    LET included == {r \in rs : r.valid}
        group(v) == {r \in included : r[dimension] = v}
    IN  [v \in {r[dimension] : r \in included} |->
            [n_runs      |-> Cardinality(group(v)),
             n_completed |-> Cardinality(Usable(group(v))),
             mean        |-> Summarize(group(v))]]

(* control_variance: what an architecture comparison should hold constant. *)
ControlsConsistent(rs) == \A r, s \in rs : r.valid /\ s.valid => r.scenario = s.scenario

RecordsForUseCase(rs, u) == {r \in rs : r.use_case = u}
TestedCombinations(rs) == {r.combo : r \in rs}
WithCombination(rs, combos) == {r \in rs : r.combo \in combos}
-----------------------------------------------------------------------------
(* Sufficiency: the tested combinations that pass, and the minimal ones    *)
(* among them under inclusion.                                             *)
SufficientCombinations(rs) ==
    {c \in TestedCombinations(rs) : Passes(Summarize(WithCombination(rs, {c})))}

MinimalSufficient(rs) ==
    LET enough == SufficientCombinations(rs) IN
    {c \in enough : ~\E d \in enough : d # c /\ d \subseteq c}

(* The one that is reported alone, the empty set when there is none.       *)
MinimumSufficient(rs) ==
    LET minimal == MinimalSufficient(rs) IN
    IF minimal = {} THEN {}
    ELSE CHOOSE c \in minimal : \A d \in minimal \ {c} : CombinationLess(c, d)

(* Necessity of a dimension: the runs whose combination has it against the *)
(* runs whose combination has not.                                         *)
Side(rs, dim, has) ==
    WithCombination(rs, {c \in TestedCombinations(rs) : (dim \in c) = has})

HasEvidence(rs, dim) ==
    \A has \in BOOLEAN : Summarize(Side(rs, dim, has)).n > 0

Beneficial(rs, dim) ==
    /\ HasEvidence(rs, dim)
    /\ Below(Summarize(Side(rs, dim, FALSE)), Summarize(Side(rs, dim, TRUE)))

(* Composition: the tested combination with the best mean.                 *)
BestTested(rs) ==
    LET scored == {c \in TestedCombinations(rs) : Summarize(WithCombination(rs, {c})).n > 0}
        mean(c) == Summarize(WithCombination(rs, {c}))
        best == {c \in scored : \A d \in scored : ~Below(mean(c), mean(d))}
    IN  IF best = {} THEN {}
        ELSE CHOOSE c \in best : \A d \in best \ {c} : CombinationLess(c, d)

(* Representation: per required dimension the architecture that, alone,    *)
(* scored best among those capable of it.                                  *)
SingleArchitecture(rs) == {r \in rs : Cardinality(r.arm) = 1}

Represents(rs, dim) ==
    LET groups == AggregateRecords(SingleArchitecture(rs), "arm")
        capable == {a \in DOMAIN groups :
                       a \subseteq ArchitecturesSupporting[dim] /\ groups[a].mean.n > 0}
    IN  {a \in capable : \A b \in capable : ~Below(groups[a].mean, groups[b].mean)}

(* The context design profile of a use case.                               *)
ConfidenceFor(runs, combinations) ==
    IF runs >= 5 /\ combinations >= 2 THEN "high" ELSE IF runs >= 2 THEN "medium" ELSE "low"

Profile(rs, u) ==
    LET scoped == RecordsForUseCase(rs, u) IN
    [minimum         |-> MinimumSufficient(scoped),
     representations |-> [d \in UseCases[u].required |-> Represents(scoped, d)],
     options         |-> {r.arm : r \in {r \in SingleArchitecture(scoped) : r.valid}},
     confidence      |-> ConfidenceFor(Cardinality(scoped),
                                       Cardinality(TestedCombinations(scoped)))]

(* The context requirement matrix.                                         *)
RequirementCell(rs, u, dim) ==
    LET scoped == RecordsForUseCase(rs, u) IN
    CASE dim \notin UseCases[u].candidate -> "not_applicable"
      [] OTHER -> IF dim \in MinimumSufficient(scoped) THEN "sufficient"
                  ELSE IF dim \in UseCases[u].required THEN "required"
                  ELSE IF Beneficial(scoped, dim) THEN "beneficial"
                  ELSE "not_demonstrated"
-----------------------------------------------------------------------------
(* The hypotheses: two arms, one metric.                                   *)
HypothesisSpecs ==
    [H1 |-> [treatment |-> {"kg_historian"}, control |-> {"historian_only"}, higher |-> TRUE],
     H2 |-> [treatment |-> {"uns_historian_kg"}, control |-> {"kg_historian"}, higher |-> FALSE],
     H3 |-> [treatment |-> {"kg_historian"}, control |-> {"historian_only"}, higher |-> TRUE],
     H4 |-> [treatment |-> {"kg_historian"}, control |-> {"full"}, higher |-> FALSE],
     H5 |-> [treatment |-> {"kg_historian"}, control |-> {"historian_only"}, higher |-> FALSE]]

ArmRecords(rs, keys) == {r \in Evaluated(rs) : r.key \in keys}

EvaluateHypothesis(h, rs) ==
    LET spec == HypothesisSpecs[h]
        side(keys) == [sum |-> SumOfScores(ArmRecords(rs, keys)),
                       n   |-> Cardinality(ArmRecords(rs, keys))]
        t == side(spec.treatment)
        c == side(spec.control)
    IN  [treatment |-> t, control |-> c,
         supports  |-> IF t.n = 0 \/ c.n = 0 THEN "unknown"
                       ELSE IF (IF spec.higher THEN Below(c, t) ELSE Below(t, c))
                            THEN "yes" ELSE "no"]
=============================================================================
