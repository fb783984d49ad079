----------------------------- MODULE EvidenceRuns -----------------------------
(***************************************************************************)
(* Runs of every kind of agent against one Agent Gateway, at the same      *)
(* time, and what the evaluation makes of their traces: the LLM agent      *)
(* reduced to the calls it makes (InvestigationAgent models its loop), and *)
(* the deterministic agents, each a fixed plan of calls: the scenario-aware*)
(* baseline and the four earlier ones (agent/baseline, context_aware.py,   *)
(* architecture_aware.py, by architecture).  The first preparation is the  *)
(* one that all the runs belong to.                                        *)
(***************************************************************************)
EXTENDS AgentGateway, GroundedEvaluation

CONSTANTS
    Kinds,             \* client -> the agents it may run
    Menu,              \* client -> the calls an LLM may think of
    Conclusions,       \* client -> the texts it may conclude with
    Task,              \* the ground truth and the objective
    MaxCalls           \* client -> max_steps of an LLM run, one call a step

AgentKinds == {"llm", "structured_retrieval", "context_aware", "scenario_aware",
               "uns", "opcua", "i3x", "kg"}

(* A node that is read is one of the address space.                        *)
ASSUME EvidenceAssumption == \A c \in Clients :
    /\ Kinds[c] \subseteq AgentKinds
    /\ MaxCalls[c] \in Nat
    /\ \A call \in Menu[c] : call.tool = "opcua_read" => call.arg \in ToSet(VariableNodes)

VARIABLE runs          \* client -> its run

vars == <<gatewayVars, runs>>

Own == 1
MeasurementOrder == <<"legacy", "level", "pressure">>

NoText == Text({}, {}, {})
NoResult == [objective |-> NoText, conclusion |-> NoText, evidence |-> <<>>,
             termination |-> "none"]
-----------------------------------------------------------------------------
(* A deterministic agent begins with calls that are fixed.  The i3X one    *)
(* posts to a route that is a GET, the graph one names its entity by       *)
(* entity_id: neither gets further than this call.                         *)
Opening(kind) ==
    CASE kind = "structured_retrieval" ->
            <<Call("get_current_value", "legacy"),
              Call("get_entity_relationships", "reactor")>>
      [] kind \in {"context_aware", "uns"} -> <<Call("browse_uns", "path_legacy")>>
      [] kind = "scenario_aware" -> <<Call("browse_uns", "path_reactor")>>
      [] kind = "opcua" -> <<Call("opcua_browse", "node_reactor")>>
      [] kind = "i3x" ->
            <<[Call("i3x_get_objects", "none") EXCEPT !.method = "POST"]>>
      [] kind = "kg" ->
            <<[Call("get_entity_relationships", "reactor") EXCEPT !.key = "entity_id"]>>

FirstOf(order, S) ==
    {order[i] : i \in {j \in DOMAIN order :
        order[j] \in S /\ \A k \in 1..(j - 1) : order[k] \notin S}}

(* It goes on with what the first answer named, one thing after another;   *)
(* the scenario-aware agent ends with the equipment's relationships.       *)
PlannedCalls(run) ==
    LET asked    == {run.trace[i].arg : i \in DOMAIN run.trace}
        named    == run.trace[1].response.named \ asked
        readings == {Call("get_current_value", m) : m \in FirstOf(MeasurementOrder, named)}
    IN  IF run.asked < Len(Opening(run.kind)) THEN {Opening(run.kind)[run.asked + 1]}
        ELSE CASE run.kind \in {"context_aware", "uns"} -> readings
               [] run.kind = "scenario_aware" ->
                     IF readings # {} THEN readings
                     ELSE {Call("get_entity_relationships", e) : e \in {"reactor"} \ asked}
               [] run.kind = "opcua" ->
                     {Call("opcua_read", n) : n \in FirstOf(VariableNodes, named)}
               [] OTHER -> {}

(* Variant with a plausible bug: one step more than max_steps.             *)
NextCallsInclusive(c, run) ==
    IF run.kind = "llm" THEN {call \in Menu[c] : run.asked <= MaxCalls[c]}
    ELSE PlannedCalls(run)

NextCalls(c, run) ==
    IF run.kind = "llm" THEN {call \in Menu[c] : run.asked < MaxCalls[c]}
    ELSE PlannedCalls(run)

(* LLMInvestigationAgent._identifier_for                                   *)
IdentifierKeys == {"measurement_id", "canonical_id", "path", "node_id", "topic",
                   "topic_filter"}
IdentifierFor(call) == IF call.key \in IdentifierKeys THEN {call.arg} ELSE {}

(* context_acquired and context_consumed of the call of an agent.          *)
Acquired(kind, call) ==
    CASE kind = "llm" -> IdentifierFor(call)
      [] kind = "structured_retrieval" -> {}
      [] kind = "i3x" -> {"i3x"}
      [] kind \in {"context_aware", "uns", "opcua"} ->
            IF call.tool \in DiscoveryTools THEN {call.arg} ELSE {}
      [] kind \in {"scenario_aware", "kg"} -> {call.arg}

Consumed(kind, call) ==
    CASE kind \in {"scenario_aware", "uns"} /\ call.tool = "get_current_value" ->
            {IF kind = "uns" THEN "path_legacy" ELSE "path_reactor"}
      [] kind = "opcua" /\ call.tool = "opcua_read" -> {"node_reactor"}
      [] OTHER -> {}

EvidenceFor(call) ==
    [source |-> call.tool,
     identifier |-> IF IdentifierFor(call) = {} THEN call.tool ELSE call.arg]

(* What ends an agent with an exception, besides a call that fails: the    *)
(* prototype's value that is not in the historian.                         *)
Raises(run) == run.kind = "structured_retrieval" /\ run.trace[1].response.ids = {}

(* The results an agent may return once its plan is done.                  *)
Cite(source, ids) == [i \in DOMAIN ids |-> [source |-> source, identifier |-> ids[i]]]

Results(c, run) ==
    LET found == [i \in 2..Len(run.trace) |-> run.trace[i].arg]
        read  == SelectSeq(MeasurementOrder, LAMBDA m : m \in ToSet(found))
        Returned(conclusion, evidence, reason) ==
            [objective |-> Task.objective, conclusion |-> conclusion,
             evidence |-> evidence, termination |-> reason]
    IN  CASE run.kind = "llm" ->
               {Returned(text, run.evidence, "submitted") : text \in Conclusions[c]}
               \cup (IF run.asked < MaxCalls[c] THEN {}
                     ELSE {Returned(NoText, run.evidence, "step_budget_exceeded")})
          [] run.kind = "scenario_aware" ->
               {Returned(Text(ToSet(read), {"reactor"}, ObservedNumbers(run.trace)),
                         Cite("browse_uns", <<"path_reactor">>)
                             \o Cite("get_entity_relationships", <<"reactor">>)
                             \o Cite("get_current_value", read), "submitted")}
          [] run.kind = "context_aware" ->
               {Returned(Text({}, {"reactor"}, {}),
                         Cite("uns", <<"path_legacy">>) \o Cite("historian", read),
                         "submitted")}
          [] run.kind \in {"uns", "opcua", "i3x", "kg"} ->
               {Returned(Text({}, {"reactor"}, {}),
                         Cite(run.kind, <<CHOOSE x \in run.trace[1].acquired : TRUE>>),
                         "submitted")}
-----------------------------------------------------------------------------
Init ==
    /\ GatewayInit
    /\ runs \in [Clients -> {[kind |-> k, phase |-> "running", asked |-> 0, failed |-> 0,
                              trace |-> <<>>, evidence |-> <<>>, result |-> NoResult] :
                                k \in UNION {Kinds[c] : c \in Clients}}]
    /\ \A c \in Clients : runs[c].kind \in Kinds[c]

Ask(c) ==
    /\ runs[c].phase = "running"
    /\ \E call \in NextCalls(c, runs[c]) : Send(c, call)
    /\ UNCHANGED runs

(* AgentGatewayClient.call_tool raises on an error and traces the rest; an *)
(* LLM agent goes on with the error as an observation, and cites the call  *)
(* as evidence either way, the deterministic agents end.                   *)
Receive(c) ==
    LET run   == runs[c]
        call  == calls[c].call
        error == calls[c].error
        event == [tool |-> call.tool, arg |-> call.arg, response |-> calls[c].response,
                  acquired |-> Acquired(run.kind, call),
                  consumed |-> Consumed(run.kind, call)]
    IN  /\ run.phase = "running" /\ calls[c].stage = "answered"
        /\ runs' = [runs EXCEPT ![c] =
             [run EXCEPT !.asked = @ + 1,
                         !.failed = IF error THEN @ + 1 ELSE @,
                         !.trace = IF error THEN @ ELSE Append(@, event),
                         !.evidence = IF run.kind = "llm"
                                      THEN Append(@, EvidenceFor(call)) ELSE @,
                         !.phase = IF error /\ run.kind # "llm" THEN "FAILED" ELSE @]]
        /\ calls' = [calls EXCEPT ![c] = IdleRequest]
        /\ UNCHANGED <<stores, liveVars, session, open, opened>>

(* The agent returns, or raises: ExperimentRunner records either.          *)
Conclude(c) ==
    /\ runs[c].phase = "running" /\ calls[c].stage = "idle"
    /\ runs[c].kind # "llm" => NextCalls(c, runs[c]) = {}
    /\ \/ /\ Raises(runs[c])
          /\ runs' = [runs EXCEPT ![c].phase = "FAILED"]
       \/ /\ ~Raises(runs[c])
          /\ \E result \in Results(c, runs[c]) :
                runs' = [runs EXCEPT ![c].phase = "COMPLETED", ![c].result = result]
    /\ UNCHANGED gatewayVars

AgentStep(c) == Ask(c) \/ Receive(c) \/ Conclude(c)

Next ==
    \/ \E c \in Clients : AgentStep(c) \/ (GatewayStep(c) /\ UNCHANGED runs)
    \/ WorldStep /\ UNCHANGED runs

(* Requests are handled and agents go on; nothing else has to happen.      *)
Spec ==
    /\ Init /\ [][Next]_vars
    /\ \A c \in Clients : WF_vars(GatewayStep(c) /\ UNCHANGED runs) /\ WF_vars(AgentStep(c))
-----------------------------------------------------------------------------
(* What is recorded of a run that has ended.                               *)
Ended(c) == runs[c].phase \in {"COMPLETED", "FAILED"}
Completed(c) == runs[c].phase = "COMPLETED"

Report(c) == Evaluate(Task, runs[c].result, runs[c].trace, Own, CanonicalIds)
Flow(trace) == InformationFlow(trace, Named, Measurements,
                               [tool \in AcquisitionTools |-> ArchitectureOf(tool)])
Category(c) == FailureCategory(runs[c].phase, TRUE, Report(c))
Stage(c) == DiscoverabilityStage(runs[c].phase, TRUE, Report(c))

(* The values the state takes: no agent calls more often than its plan or  *)
(* its budget says, a request that is under way belongs to a run that is,  *)
(* and the shared client knows a connection that was made.                 *)
EvidenceTypeOK ==
    /\ DOMAIN stores = ToSet(StoreOrder)
    /\ \A s \in DOMAIN stores : stores[s] \in 1..MaxGenerations[s]
    /\ values \in [ToSet(VariableNodes) -> 0..sample] /\ sample \in 0..MaxSamples
    /\ session \in 0..opened /\ open \subseteq 1..opened
    /\ \A c \in Clients :
          /\ calls[c].stage \in {"idle", "requested", "connected", "operated", "answered"}
          /\ runs[c].phase \in {"running", "COMPLETED", "FAILED"}
          /\ calls[c].stage # "idle" => ~Ended(c)
          /\ runs[c].asked = Len(runs[c].trace) + runs[c].failed
          /\ runs[c].kind = "llm" => runs[c].asked \in 0..MaxCalls[c]
          /\ runs[c].kind # "llm" /\ runs[c].failed > 0 => runs[c].phase = "FAILED"

(* An OPC UA request that got its connection and that no other overlapped  *)
(* is answered, a read with a value its node held since it came, and       *)
(* leaves the connections as they were: OPCUAClient.browse and read,       *)
(* finally disconnect.                                                     *)
LoneCallsSucceed ==
    [][\A c \in Clients :
          calls[c].stage = "operated" /\ calls'[c].stage = "answered" /\ calls[c].alone =>
            /\ ~calls'[c].error /\ open' = calls[c].before
            /\ calls[c].call.tool = "opcua_read" =>
                 calls'[c].response.numbers \subseteq
                    {LiveReading(Named[calls[c].call.arg], s) : s \in calls[c].held}]_vars

(* What a trace has acquired does not change when the run goes on: a call  *)
(* adds acquisitions of its own and resolves none of an earlier one        *)
(* (InformationFlowAnalyzer, node_display_names).                          *)
AttributionIsFinal ==
    [][\A c \in Clients :
          LET before == Flow(runs[c].trace).acquisitions
          IN  before = {a \in Flow(runs'[c].trace).acquisitions :
                           a.at <= Len(runs[c].trace)}]_vars

(* The two classifications of one record agree on how far the run came,    *)
(* unless it was cut off or acquired nothing; a completed run whose        *)
(* evaluation was lost is no failure for the one and no run for the other  *)
(* (failure_taxonomy.py, discoverability.py).                              *)
LadderMatchesTaxonomy ==
    \A c \in Clients, evaluated \in BOOLEAN : Ended(c) =>
        LET category == FailureCategory(runs[c].phase, evaluated, Report(c))
            stage    == DiscoverabilityStage(runs[c].phase, evaluated, Report(c))
        IN  /\ stage = "not_reached" <=>
                 category = "architecture_connectivity_failure"
                   \/ (category = "none" /\ ~evaluated)
            /\ category = "context_not_discoverable" => stage = "exists_in_architecture"
            /\ stage \notin {"not_reached", "exists_in_architecture"}
                 /\ category # "efficiency_failure" =>
                 /\ stage = "discovered_identifier" <=> category = "context_not_retrieved"
                 /\ stage = "retrieved_value" <=> category = "representation_failure"
                 /\ stage = "used_as_evidence" <=> category = "grounding_failure"

(* A request that came after another preparation had rewritten the graph   *)
(* confirms no relationship for a run of the first                         *)
(* (grounded.py _relationship_confirmed, generation_id).                   *)
Confirmed(c) == RelationshipConfirmed(runs[c].trace, Own)
NoLateConfirmation ==
    [][\A c \in Clients :
          calls[c].graph # Own /\ ~Confirmed(c) => ~Confirmed(c)']_vars

(* Every request is answered and every run ends, whatever the others do to *)
(* the client they share.                                                  *)
RunsEnd == <>(\A c \in Clients : Ended(c))
-----------------------------------------------------------------------------
(* discoverability.py: "every piece of REQUIRED evidence was actually      *)
(* retrieved", from the stage of that name on.                             *)
RequiredEvidenceWasRetrieved ==
    \A c \in Clients :
        Completed(c) /\ Stage(c) \in {"retrieved_value", "used_as_evidence",
                                      "grounded_in_conclusion"} =>
            Task.evidence \subseteq {a.id : a \in Flow(runs[c].trace).acquisitions}

(* failure_taxonomy.py: "a broken architecture is never mistaken for poor  *)
(* agent reasoning": a run that got no answer at all did not reason badly. *)
BrokenIsNotReasoning ==
    \A c \in Clients :
        Completed(c) /\ runs[c].failed > 0 /\ runs[c].trace = <<>> =>
            Category(c) # "reasoning_failure"
=============================================================================
