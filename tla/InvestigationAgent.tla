-------------------------- MODULE InvestigationAgent --------------------------
(***************************************************************************)
(* One benchmark run of the LLM agent: run_one (benchmark/_execution.py)   *)
(* around ExperimentRunner.run_task (experiments/runner.py) around the     *)
(* tool-calling loop of LLMInvestigationAgent (agent/llm/agent.py), its    *)
(* Gateway client (agent/client.py) and the trace collector.               *)
(*                                                                         *)
(* The model provider and the Gateway are the environment: a turn is any   *)
(* sequence of at most MaxTurn tool calls, a tool call succeeds or fails,  *)
(* and either of them may raise.  What a tool returns is abstracted to     *)
(* "value" or "error"; the two opening prompts of the conversation never   *)
(* change and are left out of `messages`.                                  *)
(***************************************************************************)
EXTENDS Naturals, Sequences, FiniteSets

CONSTANTS
    Targets,           \* identifiers a tool call can name
    ToolNames,         \* names the model may put in a call, Submit included
    ToolCalls,         \* the calls the model may make
    Submit,            \* "submit_investigation"
    None,              \* Python's None
    Budgets,           \* the budgets a run may be configured with
    Grants,            \* the tool sets the architectures of an arm grant
    Usages,            \* total_tokens of a turn; 0 when none is reported
    MaxTurn,           \* bound: tool calls in one turn
    MaxClock           \* bound: where the clock saturates

Terminations == {"submitted", "no_tool_call", "step_budget_exceeded",
                 "tool_call_budget_exceeded", "token_budget_exceeded",
                 "wall_time_budget_exceeded"}

(* An optional limit is the set of the limits that are configured: at most *)
(* one, and the empty set for Python's None.                               *)
IsLimit(l) == l \subseteq Nat \ {0} /\ \A m, n \in l : m = n

ASSUME AgentAssumption ==
    /\ Submit \in ToolNames
    /\ None \notin ToolNames \cup Targets \cup Terminations
    /\ ToolCalls \subseteq [name : ToolNames, target : Targets \cup {None}]
    /\ \A b \in Budgets :
          /\ DOMAIN b = {"steps", "toolCalls", "tokens", "wallTime"}
          /\ b.steps \in Nat \ {0}
          /\ IsLimit(b.toolCalls) /\ IsLimit(b.tokens) /\ IsLimit(b.wallTime)
          /\ \A n \in b.wallTime : n <= MaxClock
    /\ \A g \in Grants : g \subseteq ToolNames \ {Submit}
    /\ Usages \subseteq Nat
    /\ MaxTurn \in Nat /\ MaxClock \in Nat

Outcomes == {"value", "error"}

Turns == UNION {[1..n -> ToolCalls] : n \in 0..MaxTurn}

(* An assistant message opens a turn; a tool message answers its call.     *)
Message == [role : {"assistant"}, step : Nat, calls : Turns]
      \cup [role : {"tool"}, step : Nat, index : Nat, call : ToolCalls,
            result : Outcomes]

Event == [action : {"llm_generate"}, step : Nat, tokens : Nat]
    \cup [action : {"tool_call"}, step : Nat, tool : ToolNames, result : Outcomes,
          acquired : Targets \cup {None}]

VARIABLES
    phase,
    budget, granted,   \* the configuration of the run
    clock,             \* seconds since the agent started
    step,
    turn, answered,    \* the calls of the current turn, and how many are done
    toolCalls, tokens, \* total_tool_calls, total_tokens_used
    messages,
    findings, evidence,
    trace,
    termination,       \* of the InvestigationResult; None while there is none
    record             \* the persisted record and trace; None until stored

agentVars == <<clock, step, turn, answered, toolCalls, tokens, messages, findings,
               evidence, trace, termination>>
vars == <<phase, budget, granted, agentVars, record>>

Phases == {"preparing", "building", "checking", "generating", "calling",
           "returned", "raised", "recorded"}

Record == [status : {"COMPLETED", "FAILED"}, prepared : BOOLEAN,
           evaluated : BOOLEAN, totalTokens : Nat, toolErrors : Nat,
           trace : Seq(Event)]

ASSUME RecordAssumption == None \notin Record

TypeOK ==
    /\ phase \in Phases
    /\ budget \in Budgets /\ granted \in Grants
    /\ clock \in 0..MaxClock
    /\ step \in 0..budget.steps
    /\ turn \in Turns /\ answered \in 0..Len(turn)
    /\ toolCalls \in Nat /\ tokens \in Nat
    /\ messages \in Seq(Message)
    /\ DOMAIN findings \subseteq ToolNames \X (1..step)
    /\ \A key \in DOMAIN findings : findings[key] \in Outcomes
    /\ evidence \in Seq([source : ToolNames, identifier : Targets \cup ToolNames])
    /\ trace \in Seq(Event)
    /\ termination \in Terminations \cup {None}
    /\ record = None <=> phase # "recorded"
    /\ record # None => record \in Record

Init ==
    /\ phase = "preparing"
    /\ budget \in Budgets /\ granted \in Grants
    /\ clock = 0 /\ step = 0
    /\ turn = <<>> /\ answered = 0
    /\ toolCalls = 0 /\ tokens = 0
    /\ messages = <<>> /\ findings = <<>> /\ evidence = <<>>
    /\ trace = <<>>
    /\ termination = None
    /\ record = None

Exhausted(limit, used) == \E n \in limit : used >= n
Exceeded(limit, used) == \E n \in limit : used > n

(* A call to the provider or the Gateway takes some time.                  *)
Tick == clock' \in {t \in {clock, clock + 1} : t <= MaxClock}

-----------------------------------------------------------------------------
(* The trace collector, and what the record keeps of its events.           *)

Traced(event) == trace' = Append(trace, event)

Usage(event) == IF event.action = "llm_generate" THEN event.tokens ELSE 0

(* total[i] is the usage of the first i events.                            *)
RunningTotal(events) ==
    LET total[i \in 0..Len(events)] ==
            IF i = 0 THEN 0 ELSE total[i - 1] + Usage(events[i])
    IN  total

SumTotalTokens(events) == RunningTotal(events)[Len(events)]

(* InformationFlowReport.tool_error_count                                  *)
ToolErrorCount(events) ==
    Cardinality({i \in DOMAIN events :
                    events[i].action = "tool_call" /\ events[i].result = "error"})

-----------------------------------------------------------------------------
(* LLMInvestigationAgent.run                                               *)

Return(reason) ==
    /\ phase' = "returned"
    /\ termination' = reason

\* Variant of NextTurn with a bug: the loop runs to max_steps + 1.
NextTurnInclusive ==
    IF step <= budget.steps
      THEN step' = step + 1 /\ phase' = "checking" /\ UNCHANGED termination
      ELSE Return("step_budget_exceeded") /\ UNCHANGED step

(* The loop moves to its next turn, or ends: range(1, max_steps + 1).      *)
NextTurn ==
    IF step < budget.steps
      THEN step' = step + 1 /\ phase' = "checking" /\ UNCHANGED termination
      ELSE Return("step_budget_exceeded") /\ UNCHANGED step

\* Variant of CheckWallTime with a bug: a run whose time is up waits for more.
WaitForWallTime ==
    /\ phase = "checking"
    /\ IF Exhausted(budget.wallTime, clock) THEN UNCHANGED phase
                                            ELSE phase' = "generating"
    /\ UNCHANGED <<budget, granted, agentVars, record>>

CheckWallTime ==
    /\ phase = "checking"
    /\ IF Exhausted(budget.wallTime, clock)
         THEN Return("wall_time_budget_exceeded")
         ELSE phase' = "generating" /\ UNCHANGED termination
    /\ UNCHANGED <<budget, granted, clock, step, turn, answered, toolCalls, tokens,
                   messages, findings, evidence, trace, record>>

\* Variant of AccountUsage with a bug: a response over the budget is dropped untraced.
AccountUsageWithinBudget(usage) ==
    /\ tokens' = tokens + usage
    /\ IF usage = 0 \/ Exceeded(budget.tokens, tokens + usage) THEN UNCHANGED trace
       ELSE Traced([action |-> "llm_generate", step |-> step, tokens |-> usage])

(* total_tokens_used and the llm_generate event, for one response.         *)
AccountUsage(usage) ==
    /\ tokens' = tokens + usage
    /\ IF usage = 0 THEN UNCHANGED trace
       ELSE Traced([action |-> "llm_generate", step |-> step, tokens |-> usage])

OverTokens(usage) == usage # 0 /\ Exceeded(budget.tokens, tokens + usage)

Generate(calls, usage) ==
    /\ phase = "generating"
    /\ Tick
    /\ AccountUsage(usage)
    /\ IF OverTokens(usage) \/ calls = <<>>
         THEN /\ Return(IF OverTokens(usage) THEN "token_budget_exceeded"
                                             ELSE "no_tool_call")
              /\ UNCHANGED <<turn, answered, messages>>
         ELSE /\ messages' = Append(messages,
                   [role |-> "assistant", step |-> step, calls |-> calls])
              /\ turn' = calls /\ answered' = 0
              /\ phase' = "calling"
              /\ UNCHANGED termination
    /\ UNCHANGED <<budget, granted, step, toolCalls, findings, evidence, record>>

(* The provider raises, or its arguments are not JSON.                     *)
GenerateRaises ==
    /\ phase = "generating"
    /\ Tick
    /\ phase' = "raised"
    /\ UNCHANGED <<budget, granted, step, turn, answered, toolCalls, tokens, messages,
                   findings, evidence, trace, termination, record>>

\* Variant of ExecuteTool with a bug: the name goes to the Gateway unchecked.
ExecuteAnyTool(call, result) ==
    IF result = "error" THEN UNCHANGED trace
    ELSE Traced([action |-> "tool_call", step |-> step, tool |-> call.name,
                 result |-> result, acquired |-> call.target])

\* Variant of ExecuteTool with a bug: the request is traced before its answer is read.
ExecuteTracedTool(call, result) ==
    IF call.name \notin granted
      THEN result = "error" /\ UNCHANGED trace
      ELSE Traced([action |-> "tool_call", step |-> step, tool |-> call.name,
                   result |-> result, acquired |-> call.target])

(* LLMInvestigationAgent._execute_tool and AgentGatewayClient.call_tool: a *)
(* tool outside `granted` never reaches the Gateway, and a request is      *)
(* traced after raise_for_status and the parsing of its answer.            *)
ExecuteTool(call, result) ==
    IF call.name \notin granted
      THEN result = "error" /\ UNCHANGED trace
      ELSE IF result = "error" THEN UNCHANGED trace
      ELSE Traced([action |-> "tool_call", step |-> step, tool |-> call.name,
                   result |-> result, acquired |-> call.target])

\* Variant of Find with a bug: the first finding of a tool in a turn is kept.
FindFirst(call, result) ==
    LET key == <<call.name, step>> IN
    findings' = [k \in DOMAIN findings \cup {key} |->
                   IF k \in DOMAIN findings THEN findings[k] ELSE result]

(* The dictionary entry "name#step": a second call of one tool in one turn *)
(* replaces the entry of the first.                                        *)
Find(call, result) ==
    LET key == <<call.name, step>> IN
    findings' = [k \in DOMAIN findings \cup {key} |->
                   IF k = key THEN result ELSE findings[k]]

EvidenceFor(call) ==
    [source |-> call.name,
     identifier |-> IF call.target = None THEN call.name ELSE call.target]

\* Variant of Reply with a bug: a failed call is not answered.
ReplySuccess(call, result) ==
    IF result = "error" THEN UNCHANGED messages
    ELSE messages' = Append(messages,
        [role |-> "tool", step |-> step, index |-> answered + 1, call |-> call,
         result |-> result])

Reply(call, result) ==
    messages' = Append(messages,
        [role |-> "tool", step |-> step, index |-> answered + 1, call |-> call,
         result |-> result])

\* Variant of SpentToolCalls with a bug: the comparison lets one call too many through.
OverspentToolCalls == Exceeded(budget.toolCalls, toolCalls)

SpentToolCalls == Exhausted(budget.toolCalls, toolCalls)

(* The loop over the calls of a turn: the next call ends the run, or is    *)
(* executed and answered.                                                  *)
CallPending == phase = "calling" /\ answered < Len(turn)

StopAtCall ==
    /\ CallPending
    /\ \/ turn[answered + 1].name = Submit /\ Return("submitted")
       \/ /\ turn[answered + 1].name # Submit
          /\ SpentToolCalls
          /\ Return("tool_call_budget_exceeded")
    /\ UNCHANGED <<budget, granted, clock, step, turn, answered, toolCalls, tokens,
                   messages, findings, evidence, trace, record>>

AnswerCall(result) ==
    /\ CallPending
    /\ ~SpentToolCalls
    /\ LET call == turn[answered + 1] IN
       /\ call.name # Submit
       /\ ExecuteTool(call, result)
       /\ Find(call, result)
       /\ evidence' = Append(evidence, EvidenceFor(call))
       /\ Reply(call, result)
    /\ Tick
    /\ toolCalls' = toolCalls + 1
    /\ answered' = answered + 1
    /\ UNCHANGED <<phase, budget, granted, step, turn, tokens, termination, record>>

(* A call whose JSON arguments are no object ends the run outside the try  *)
(* of _execute_tool; the locals of the loop are lost with the exception.   *)
CallRaises ==
    /\ CallPending
    /\ turn[answered + 1].name = Submit \/ ~SpentToolCalls
    /\ phase' = "raised"
    /\ UNCHANGED <<budget, granted, agentVars, record>>

EndTurn ==
    /\ phase = "calling" /\ answered = Len(turn)
    /\ NextTurn
    /\ turn' = <<>> /\ answered' = 0
    /\ UNCHANGED <<budget, granted, clock, toolCalls, tokens, messages, findings,
                   evidence, trace, record>>

-----------------------------------------------------------------------------
(* ExperimentRunner.run_task and run_one.                                  *)

(* ScenarioRunner.prepare is modelled by the module of that name; here it  *)
(* ends or raises.                                                         *)
Prepare ==
    /\ phase = "preparing"
    /\ phase' = "building"
    /\ UNCHANGED <<budget, granted, agentVars, record>>

BuildAgent ==
    /\ phase = "building"
    /\ step' = 1 /\ phase' = "checking"
    /\ UNCHANGED <<budget, granted, clock, turn, answered, toolCalls, tokens, messages,
                   findings, evidence, trace, termination, record>>

(* No provider is configured, or an architecture is unknown.               *)
BuildRaises ==
    /\ phase = "building"
    /\ phase' = "raised"
    /\ UNCHANGED <<budget, granted, agentVars, record>>

Store(status, prepared, evaluated, events) ==
    /\ phase' = "recorded"
    /\ record' = [status |-> status, prepared |-> prepared, evaluated |-> evaluated,
                  totalTokens |-> SumTotalTokens(events),
                  toolErrors |-> ToolErrorCount(events), trace |-> events]
    /\ UNCHANGED <<budget, granted, agentVars>>

(* _run_prepared: the agent returned and its result is evaluated.          *)
StoreReturned ==
    /\ phase = "returned"
    /\ Store("COMPLETED", TRUE, TRUE, trace)

(* _run_prepared: the agent raised; the trace is kept.                     *)
StoreRaised ==
    /\ phase = "raised"
    /\ Store("FAILED", TRUE, FALSE, trace)

\* Variant of StoreUnprepared with a bug: the exception handler keeps the status.
StoreUnevaluated ==
    /\ phase \in {"preparing", "building", "returned", "raised"}
    /\ Store(IF phase = "returned" THEN "COMPLETED" ELSE "FAILED", FALSE, FALSE, <<>>)

(* run_one: the preparation, the resolution of the configuration, or       *)
(* anything _run_prepared does once the agent is done raised; the          *)
(* generation id and the trace are lost with the exception.                *)
StoreUnprepared ==
    /\ phase \in {"preparing", "building", "returned", "raised"}
    /\ Store("FAILED", FALSE, FALSE, <<>>)

Done == phase = "recorded" /\ UNCHANGED vars

Next ==
    \/ Prepare
    \/ BuildAgent
    \/ BuildRaises
    \/ CheckWallTime
    \/ \E calls \in Turns, usage \in Usages : Generate(calls, usage)
    \/ GenerateRaises
    \/ StopAtCall
    \/ \E result \in Outcomes : AnswerCall(result)
    \/ CallRaises
    \/ EndTurn
    \/ StoreReturned
    \/ StoreRaised
    \/ StoreUnprepared
    \/ Done

Spec == Init /\ [][Next]_vars

(* One thread runs the loop to its end; every provider and Gateway call is *)
(* bounded by a timeout and then returns or raises.                        *)
FairSpec == Spec /\ WF_vars(Next)

-----------------------------------------------------------------------------
(* Properties                                                              *)

(* What a sequence has at some of its places, in order.                    *)
Place(places, k) ==
    CHOOSE i \in places : Cardinality({j \in places : j <= i}) = k
Chosen(s, places) == [k \in 1..Cardinality(places) |-> s[Place(places, k)]]

Answers == Chosen(messages, {i \in DOMAIN messages : messages[i].role = "tool"})
ToolEvents(events) ==
    Chosen(events, {i \in DOMAIN events : events[i].action = "tool_call"})

(* Call k of the assistant message i is followed by its own answer.        *)
AnsweredAt(i, k) ==
    /\ i + k \in DOMAIN messages
    /\ messages[i + k].role = "tool"
    /\ messages[i + k].step = messages[i].step
    /\ messages[i + k].index = k
    /\ messages[i + k].call = messages[i].calls[k]

(* The provider is never called with a dangling tool call: every call of   *)
(* every earlier turn is followed by its own answer, in order, the calls   *)
(* that failed or named no tool included (agent.py run and _execute_tool,  *)
(* which turns every exception into an answer).                            *)
TurnsAnswered ==
    phase \in {"checking", "generating"} =>
        \A i \in DOMAIN messages : messages[i].role = "assistant" =>
            \A k \in DOMAIN messages[i].calls : AnsweredAt(i, k)

(* The trace tells what the model saw: its tool_call events are exactly    *)
(* the successful answers of the conversation, in its order, and no event  *)
(* belongs to an earlier turn than the one before it (collector.py events, *)
(* "in execution order"; the analysers resolve reads by earlier browses).  *)
TraceTellsAnswers ==
    LET seen == Chosen(Answers, {i \in DOMAIN Answers : Answers[i].result = "value"})
        told == ToolEvents(trace) IN
    /\ Len(told) = Len(seen)
    /\ \A i \in DOMAIN told : /\ told[i].step = seen[i].step
                              /\ told[i].tool = seen[i].call.name
    /\ \A i, j \in DOMAIN trace : i < j => trace[i].step <= trace[j].step

(* An arm's investigation only ever touches the tools of the architectures *)
(* it was granted, whatever the model asks for (agent.py _execute_tool     *)
(* with the tools of tools_for_architectures): the controlled comparison   *)
(* rests on it.                                                            *)
OnlyGrantedTools ==
    \A i \in DOMAIN trace :
        trace[i].action = "tool_call" => trace[i].tool \in granted

(* The budgets hold across turns and calls, and a run that says a budget   *)
(* stopped it had spent that budget: no call past max_tool_calls, no turn  *)
(* past max_context_tokens, max_steps turns at most (agent.py run).        *)
BudgetsHold ==
    /\ ~Exceeded(budget.toolCalls, toolCalls)
    /\ phase \in {"checking", "generating", "calling"} => ~Exceeded(budget.tokens, tokens)
    /\ termination = "token_budget_exceeded" => Exceeded(budget.tokens, tokens)
    /\ termination = "tool_call_budget_exceeded" => Exhausted(budget.toolCalls, toolCalls)
    /\ termination = "step_budget_exceeded" =>
          {messages[i].step : i \in DOMAIN messages} = 1..budget.steps

(* The stored total_tokens is the usage of every response the provider     *)
(* gave, the one that broke the token budget included, also when the run   *)
(* failed later on (agent.py run and experiments/runner.py                 *)
(* _sum_total_tokens, which keep the two sums apart).                      *)
UsageAccounted ==
    record # None /\ record.prepared => record.totalTokens = tokens

(* What the result claims is what happened: one evidence reference per     *)
(* answered call, in order, and for every tool used in a turn the finding  *)
(* of its last call in that turn (agent.py run, the key "name#step").      *)
ResultTellsAnswers ==
    LET keys == {<<Answers[i].call.name, Answers[i].step>> : i \in DOMAIN Answers} IN
    /\ Len(evidence) = Len(Answers) /\ toolCalls = Len(Answers)
    /\ \A i \in DOMAIN evidence : evidence[i] = EvidenceFor(Answers[i].call)
    /\ DOMAIN findings = keys
    /\ \A i \in DOMAIN Answers :
          \/ findings[<<Answers[i].call.name, Answers[i].step>>] = Answers[i].result
          \/ \E j \in DOMAIN Answers :
                /\ j > i
                /\ Answers[j].step = Answers[i].step
                /\ Answers[j].call.name = Answers[i].call.name

(* A COMPLETED record has a result, its evaluation and its whole trace; a  *)
(* FAILED one has no evaluation, and keeps its trace exactly when          *)
(* _run_prepared outlived a raising agent; otherwise it has no event       *)
(* (_run_prepared and run_one).                                            *)
RecordTellsRun ==
    record # None =>
        /\ record.status = "COMPLETED" =>
              termination # None /\ record.evaluated /\ record.trace = trace
        /\ record.status = "FAILED" =>
              /\ ~record.evaluated
              /\ record.trace = IF record.prepared THEN trace ELSE <<>>
              /\ record.prepared => termination = None

(* Every run ends in a record: run_one "never raises" and the loop's       *)
(* budgets bound the investigation, whatever fails.                        *)
EveryRunRecorded == <>(record # None)

=============================================================================
