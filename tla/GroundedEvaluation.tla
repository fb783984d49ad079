-------------------------- MODULE GroundedEvaluation --------------------------
(***************************************************************************)
(* What is computed from the trace and the result of one run:              *)
(* GroundedInvestigationEvaluator (evaluation/grounded.py),                *)
(* InformationFlowAnalyzer (evaluation/information_flow.py), and the two   *)
(* classifications the analysis makes of a record, the failure taxonomy    *)
(* and the discoverability ladder (analysis/failure_taxonomy.py,           *)
(* analysis/discoverability.py).  Nothing here has state.                  *)
(*                                                                         *)
(* An event is [tool, arg, response, acquired, consumed]; a response is by *)
(* what can be found in it, [ids, named, numbers, edge] (AgentGateway).    *)
(* A text is what the evaluator's patterns find in it: the identifiers and *)
(* asset names it mentions and the numbers it cites.                       *)
(***************************************************************************)
EXTENDS Integers, FiniteSets, Sequences, SequencesExt

ValueBearingTools == {"get_current_value", "get_historical_values", "i3x_get_value",
                      "i3x_get_history"}
TemporalTools == {"get_historical_values", "i3x_get_history"}
RelationshipTools == {"get_entity_relationships"}
CanonicalIdSources == {"get_current_value", "get_historical_values",
                       "get_entity_relationships", "browse_uns"}
DiscoveryTools == {"browse_uns", "get_entity_relationships", "i3x_get_objects",
                   "i3x_get_related_objects", "opcua_browse"}
AcquisitionTools == {"get_current_value", "get_historical_values", "read_mqtt",
                     "opcua_read", "i3x_get_value", "i3x_get_history"}

Text(ids, names, numbers) == [ids |-> ids, names |-> names, numbers |-> numbers]

Events(trace, tools) == {trace[i] : i \in {j \in DOMAIN trace : trace[j].tool \in tools}}
-----------------------------------------------------------------------------
(* The evaluator.                                                          *)

(* Observations carry their measurement; an i3X value its element.         *)
RetrievedValueIds(trace) ==
    UNION {e.response.ids \cup (IF e.tool \in {"i3x_get_value", "i3x_get_history"}
                                THEN e.response.named ELSE {}) :
              e \in Events(trace, ValueBearingTools)}

Hits(truth, result, trace) ==
    LET asserted == {result.evidence[i].identifier : i \in DOMAIN result.evidence}
    IN  [item \in truth.evidence |->
           \/ item \in RetrievedValueIds(trace) \cup asserted
           \/ item \in result.objective.ids \cup result.conclusion.ids]

(* Only evidence from these tools is held to the shape of a canonical id;  *)
(* a UNS path, which browse_uns is given, does not have it.                *)
CanonicalIdValidity(result, canonical) ==
    LET cited == {result.evidence[i] : i \in DOMAIN result.evidence}
    IN  [id \in {e.identifier : e \in {c \in cited : c.source \in CanonicalIdSources}} |->
           id \in canonical]

(* Variant with a plausible bug: an edge counts whoever wrote it.          *)
RelationshipConfirmedUngated(trace, generation) ==
    \E e \in Events(trace, RelationshipTools) : e.response.edge # 0

(* The expected relationship, written by this preparation.                 *)
RelationshipConfirmed(trace, generation) ==
    \E e \in Events(trace, RelationshipTools) : e.response.edge = generation

ObservedNumbers(trace) == UNION {trace[i].response.numbers : i \in DOMAIN trace}

Distance(m, n) == IF m > n THEN m - n ELSE n - m

(* Within max(1, 2% of the number).                                        *)
IsSupported(number, observed) ==
    \E v \in observed : \/ Distance(number, v) <= 1
                        \/ 50 * Distance(number, v) <= Distance(number, 0)

UnsupportedClaims(result, trace) ==
    {n \in result.conclusion.numbers :
        ~IsSupported(n, ObservedNumbers(trace) \cup result.objective.numbers)}

ConclusionCorrect(truth, result) ==
    truth.affected \cup truth.rootCause
        \subseteq result.objective.names \cup result.conclusion.names

AllTrue(checks) == \A i \in DOMAIN checks : checks[i]

(* EvaluationReport, a score kept as whether it is 1.0.                    *)
Evaluate(truth, result, trace, generation, canonical) ==
    LET hits      == AllTrue(Hits(truth, result, trace))
        confirmed == truth.relationship => RelationshipConfirmed(trace, generation)
        ended     == result.termination \notin {"step_budget_exceeded",
                        "tool_call_budget_exceeded", "token_budget_exceeded",
                        "wall_time_budget_exceeded"}
    IN  [required      |-> hits,
         canonical     |-> AllTrue(CanonicalIdValidity(result, canonical)),
         temporal      |-> Events(trace, TemporalTools) # {},
         relationships |-> confirmed,
         correct       |-> ConclusionCorrect(truth, result),
         grounded      |-> UnsupportedClaims(result, trace) = {},
         acquired      |-> UNION {trace[i].acquired : i \in DOMAIN trace},
         consumed      |-> UNION {trace[i].consumed : i \in DOMAIN trace},
         toolCalls     |-> Len(trace),
         terminated    |-> ended,
         complete      |-> hits /\ confirmed /\ ended]
-----------------------------------------------------------------------------
(* Information flow.  nameOf gives the measurement behind a display name   *)
(* or an i3X element, for those that have one.                             *)

(* Variant with a plausible bug: a name found later counts as well.        *)
NodeNamesAnywhere(trace, i) ==
    UNION {e.response.named : e \in Events(trace, {"opcua_browse"})}

(* The nodes whose display name was browsed before event i.                *)
NodeNames(trace, i) ==
    UNION {e.response.named : e \in Events(SubSeq(trace, 1, i - 1), {"opcua_browse"})}

AcquiredIds(trace, i, nameOf) ==
    LET event == trace[i]
        Names(found) == {nameOf[x] : x \in found \cap DOMAIN nameOf}
    IN  CASE event.tool = "opcua_read" -> Names({event.arg} \cap NodeNames(trace, i))
          [] event.tool \in {"i3x_get_value", "i3x_get_history"} ->
                Names(event.response.named)
          [] OTHER -> event.response.ids

(* One record per measurement an acquiring event resolves to.              *)
Acquisitions(trace, nameOf) ==
    UNION {{[id |-> m, tool |-> trace[i].tool, at |-> i] : m \in AcquiredIds(trace, i, nameOf)} :
              i \in {j \in DOMAIN trace : trace[j].tool \in AcquisitionTools}}

DiscoveredIds(trace, nameOf, measurements) ==
    LET Resolve(e) == IF e.tool \in {"browse_uns", "get_entity_relationships"}
                      THEN e.response.named \cap measurements
                      ELSE {nameOf[x] : x \in e.response.named \cap DOMAIN nameOf}
    IN  UNION {Resolve(e) : e \in Events(trace, DiscoveryTools)}

(* InformationFlowReport; architecture gives the one a tool belongs to.    *)
InformationFlow(trace, nameOf, measurements, architecture) ==
    LET acquisitions == Acquisitions(trace, nameOf)
        measured     == {a.id : a \in acquisitions}
        Of(m)        == {a \in acquisitions : a.id = m}
    IN  [discovered   |-> DiscoveredIds(trace, nameOf, measurements),
         acquisitions |-> acquisitions,
         redundant    |-> {m \in measured : Cardinality({architecture[a.tool] : a \in Of(m)}) > 1},
         repeated     |-> Cardinality(acquisitions) - Cardinality(measured),
         unresolved   |-> Cardinality({i \in DOMAIN trace :
                              /\ trace[i].tool \in AcquisitionTools
                              /\ AcquiredIds(trace, i, nameOf) = {}})]
-----------------------------------------------------------------------------
(* The two classifications of a record, which may have lost its evaluation *)
(* in a crash while it was saved (QuestionCampaign).                       *)

(* Variant with a plausible bug: the conclusion is judged first.           *)
FailureCategoryByConclusion(status, evaluated, report) ==
    IF status = "FAILED" THEN "architecture_connectivity_failure"
    ELSE IF ~evaluated THEN "none"
    ELSE IF ~report.terminated THEN "efficiency_failure"
    ELSE IF ~report.correct THEN "reasoning_failure"
    ELSE IF ~report.required
         THEN IF report.acquired = {} THEN "context_not_discoverable"
                                      ELSE "context_not_retrieved"
    ELSE IF ~report.canonical THEN "representation_failure"
    ELSE IF ~report.grounded THEN "grounding_failure"
    ELSE IF ~report.relationships THEN "context_not_integrated"
    ELSE "none"

(* The first rule that applies decides; any failure counts as one of the   *)
(* infrastructure.                                                         *)
FailureCategory(status, evaluated, report) ==
    IF status = "FAILED" THEN "architecture_connectivity_failure"
    ELSE IF ~evaluated THEN "none"
    ELSE IF ~report.terminated THEN "efficiency_failure"
    ELSE IF ~report.required
         THEN IF report.acquired = {} THEN "context_not_discoverable"
                                      ELSE "context_not_retrieved"
    ELSE IF ~report.canonical THEN "representation_failure"
    ELSE IF ~report.grounded THEN "grounding_failure"
    ELSE IF ~report.correct THEN "reasoning_failure"
    ELSE IF ~report.relationships THEN "context_not_integrated"
    ELSE "none"

DiscoverabilityStage(status, evaluated, report) ==
    IF status = "FAILED" \/ ~evaluated THEN "not_reached"
    ELSE IF report.acquired = {} THEN "exists_in_architecture"
    ELSE IF ~report.required THEN "discovered_identifier"
    ELSE IF ~report.canonical THEN "retrieved_value"
    ELSE IF ~report.grounded THEN "used_as_evidence"
    ELSE "grounded_in_conclusion"
=============================================================================
