-------------------------- MODULE EvidenceRuns_proofs --------------------------
(***************************************************************************)
(* Theorems about EvidenceRuns, for any clients, agents, menus and tasks,  *)
(* and any number of samples and preparations: the two classifications of  *)
(* a record agree, what a trace has acquired is never changed by what      *)
(* comes later, an OPC UA request that is alone succeeds, and a late       *)
(* answer confirms nothing.                                                *)
(***************************************************************************)
EXTENDS EvidenceRuns, TLAPS

(* What the functions of the state are defined on.                         *)
IsSequence(t) == \E S : t \in Seq(S)

Shape ==
    /\ DOMAIN runs = Clients /\ DOMAIN calls = Clients
    /\ \A c \in Clients :
          /\ "trace" \in DOMAIN runs[c]
          /\ IsSequence(runs[c].trace)

(* Appending leaves the earlier elements where they are.                   *)
LEMMA AppendEvent ==
  ASSUME NEW t, IsSequence(t), NEW e
  PROVE  /\ IsSequence(Append(t, e))
         /\ Len(t) \in Nat /\ DOMAIN t = 1..Len(t)
         /\ DOMAIN Append(t, e) = 1..(Len(t) + 1)
         /\ \A i \in 1..Len(t) : Append(t, e)[i] = t[i]
         /\ Append(t, e)[Len(t) + 1] = e
<1>1. PICK S : t \in Seq(S)
  BY DEF IsSequence
<1> DEFINE T == S \cup {e}
<1>2. t \in Seq(T)
  BY <1>1
<1>3. e \in T
  OBVIOUS
<1>4. Append(t, e) \in Seq(T)
  BY <1>2, <1>3
<1> HIDE DEF T
<1> QED  BY <1>2, <1>3, <1>4 DEF IsSequence

(* The part before an event is not changed by an event at the end.         *)
LEMMA PrefixOfAppend ==
  ASSUME NEW t, IsSequence(t), NEW e, NEW i \in 1..Len(t)
  PROVE  SubSeq(Append(t, e), 1, i - 1) = SubSeq(t, 1, i - 1)
<1>1. /\ IsSequence(Append(t, e)) /\ Len(t) \in Nat
      /\ \A k \in 1..Len(t) : Append(t, e)[k] = t[k]
  BY AppendEvent
<1>2. \A k \in 1..(i - 1) : Append(t, e)[k] = t[k]
  BY <1>1
<1> QED  BY <1>1, <1>2
-----------------------------------------------------------------------------
(* The taxonomy and the ladder agree on every report there could be, of a  *)
(* run with any status.                                                    *)
LEMMA ClassificationsAgree ==
  ASSUME NEW status, NEW evaluated \in BOOLEAN, NEW report,
         NEW category, category = FailureCategory(status, evaluated, report),
         NEW stage, stage = DiscoverabilityStage(status, evaluated, report)
  PROVE  /\ stage = "not_reached" <=>
              category = "architecture_connectivity_failure"
                \/ (category = "none" /\ ~evaluated)
         /\ category = "context_not_discoverable" => stage = "exists_in_architecture"
         /\ stage \notin {"not_reached", "exists_in_architecture"}
              /\ category # "efficiency_failure" =>
              /\ stage = "discovered_identifier" <=> category = "context_not_retrieved"
              /\ stage = "retrieved_value" <=> category = "representation_failure"
              /\ stage = "used_as_evidence" <=> category = "grounding_failure"
<1>1. CASE status = "FAILED" \/ ~evaluated
  BY <1>1 DEF FailureCategory, DiscoverabilityStage
<1>2. CASE ~(status = "FAILED" \/ ~evaluated)
  BY <1>2 DEF FailureCategory, DiscoverabilityStage
<1> QED  BY <1>1, <1>2

(* Every run, evaluated or not, is told alike by both classifications, as  *)
(* far as both speak of it (failure_taxonomy.py, discoverability.py).      *)
THEOREM ClassificationsMatch == Spec => []LadderMatchesTaxonomy
<1>1. LadderMatchesTaxonomy
  BY ClassificationsAgree DEF LadderMatchesTaxonomy
<1> QED  BY <1>1, PTL
-----------------------------------------------------------------------------
(* A step leaves the trace of a run as it is or adds the answer of the     *)
(* call it is waiting for.                                                 *)
LEMMA TraceStep ==
  ASSUME Shape, [Next]_vars, NEW c \in Clients
  PROVE  \/ runs'[c].trace = runs[c].trace
         \/ \E e : /\ e.tool = calls[c].call.tool /\ e.response = calls[c].response
                   /\ calls[c].stage = "answered" /\ ~calls[c].error
                   /\ runs'[c].trace = Append(runs[c].trace, e)
<1>1. CASE UNCHANGED runs
  BY <1>1
<1>2. ASSUME NEW d \in Clients, Receive(d)
      PROVE  \/ runs'[c].trace = runs[c].trace
             \/ \E e : /\ e.tool = calls[c].call.tool /\ e.response = calls[c].response
                       /\ calls[c].stage = "answered" /\ ~calls[c].error
                       /\ runs'[c].trace = Append(runs[c].trace, e)
  <2>1. CASE d # c
    BY <1>2, <2>1 DEF Receive, Shape
  <2>2. CASE d = c /\ calls[c].error
    BY <1>2, <2>2 DEF Receive, Shape
  <2>3. CASE d = c /\ ~calls[c].error
    <3> DEFINE e == [tool |-> calls[c].call.tool, arg |-> calls[c].call.arg,
                     response |-> calls[c].response,
                     acquired |-> Acquired(runs[c].kind, calls[c].call),
                     consumed |-> Consumed(runs[c].kind, calls[c].call)]
    <3>1. runs'[c].trace = Append(runs[c].trace, e)
      BY <1>2, <2>3 DEF Receive, Shape
    <3>2. e.tool = calls[c].call.tool /\ e.response = calls[c].response
      OBVIOUS
    <3>3. calls[c].stage = "answered"
      BY <1>2, <2>3 DEF Receive
    <3> HIDE DEF e
    <3> QED  BY <2>3, <3>1, <3>2, <3>3
  <2> QED  BY <2>1, <2>2, <2>3
<1>3. ASSUME NEW d \in Clients, Conclude(d)
      PROVE  runs'[c].trace = runs[c].trace
  BY <1>3 DEF Conclude, Shape
<1>4. ASSUME NEW d \in Clients, Ask(d)
      PROVE  UNCHANGED runs
  BY <1>4 DEF Ask
<1> QED  BY <1>1, <1>2, <1>3, <1>4 DEF Next, AgentStep, vars

(* The functions keep their domains, and traces are sequences.             *)
LEMMA ShapeInductive ==
  /\ Init => Shape
  /\ Shape /\ [Next]_vars => Shape'
<1>1. ASSUME Init
      PROVE  Shape
  <2>1. /\ DOMAIN runs = Clients /\ DOMAIN calls = Clients
        /\ \A c \in Clients : "trace" \in DOMAIN runs[c] /\ runs[c].trace = <<>>
    BY <1>1 DEF Init, GatewayInit
  <2>2. IsSequence(<<>>)
    <3>1. <<>> \in Seq({})
      OBVIOUS
    <3> QED  BY <3>1 DEF IsSequence
  <2> QED  BY <2>1, <2>2 DEF Shape
<1>2. ASSUME Shape, [Next]_vars
      PROVE  Shape'
  <2>1. DOMAIN calls' = Clients
    <3>1. CASE UNCHANGED calls
      BY <1>2, <3>1 DEF Shape
    <3>2. ASSUME NEW d \in Clients, Ask(d)
          PROVE  DOMAIN calls' = Clients
      BY <3>2 DEF Ask, Send
    <3>3. ASSUME NEW d \in Clients, Receive(d)
          PROVE  DOMAIN calls' = Clients
      BY <1>2, <3>3 DEF Receive, Shape
    <3>4. ASSUME NEW d \in Clients, Conclude(d)
          PROVE  UNCHANGED calls
      BY <3>4 DEF Conclude, gatewayVars
    <3>5. ASSUME NEW d \in Clients, GatewayStep(d)
          PROVE  DOMAIN calls' = Clients
      BY <1>2, <3>5 DEF GatewayStep, Serve, Answered, Connect, Operate, Disconnect, Shape
    <3>6. CASE WorldStep
      BY <1>2, <3>6 DEF WorldStep, StepSimulator, SyncNode, OtherPreparation, Shape
    <3> QED  BY <1>2, <3>1, <3>2, <3>3, <3>4, <3>5, <3>6 DEF Next, AgentStep, vars, gatewayVars
  <2>2. DOMAIN runs' = Clients /\ \A c \in Clients : "trace" \in DOMAIN runs'[c]
    <3>1. CASE UNCHANGED runs
      BY <1>2, <3>1 DEF Shape
    <3>2. ASSUME NEW d \in Clients, Receive(d)
          PROVE  DOMAIN runs' = Clients /\ \A c \in Clients : "trace" \in DOMAIN runs'[c]
      BY <1>2, <3>2 DEF Receive, Shape
    <3>3. ASSUME NEW d \in Clients, Conclude(d)
          PROVE  DOMAIN runs' = Clients /\ \A c \in Clients : "trace" \in DOMAIN runs'[c]
      BY <1>2, <3>3 DEF Conclude, Shape
    <3> QED  BY <1>2, <3>1, <3>2, <3>3 DEF Next, AgentStep, Ask, vars
  <2>3. ASSUME NEW c \in Clients
        PROVE  IsSequence(runs'[c].trace)
    <3>1. IsSequence(runs[c].trace)
      BY <1>2 DEF Shape
    <3>2. \A e : IsSequence(Append(runs[c].trace, e))
      BY <3>1, AppendEvent
    <3> QED  BY <1>2, <3>1, <3>2, TraceStep
  <2> QED  BY <2>1, <2>2, <2>3 DEF Shape
<1> QED  BY <1>1, <1>2
-----------------------------------------------------------------------------
(* What an event acquires depends on the events before it alone.           *)
LEMMA AcquiredBefore ==
  ASSUME NEW t, IsSequence(t), NEW e, NEW i \in 1..Len(t), NEW nameOf
  PROVE  AcquiredIds(Append(t, e), i, nameOf) = AcquiredIds(t, i, nameOf)
<1>1. Append(t, e)[i] = t[i]
  BY AppendEvent
<1>2. NodeNames(Append(t, e), i) = NodeNames(t, i)
  BY PrefixOfAppend DEF NodeNames
<1> QED  BY <1>1, <1>2 DEF AcquiredIds

(* An acquisition, without the sets it is collected from.                  *)
LEMMA AcquisitionIs ==
  ASSUME NEW t, NEW nameOf, NEW a
  PROVE  a \in Acquisitions(t, nameOf) <=>
           \E i \in DOMAIN t : /\ t[i].tool \in AcquisitionTools
                               /\ \E m \in AcquiredIds(t, i, nameOf) :
                                     a = [id |-> m, tool |-> t[i].tool, at |-> i]
BY DEF Acquisitions

(* A longer trace has the acquisitions of the shorter one, and no other    *)
(* from its events.                                                        *)
LEMMA AcquisitionsOfPrefix ==
  ASSUME NEW t, IsSequence(t), NEW e, NEW nameOf
  PROVE  Acquisitions(t, nameOf) =
           {a \in Acquisitions(Append(t, e), nameOf) : a.at <= Len(t)}
<1> DEFINE u == Append(t, e)
<1>1. /\ Len(t) \in Nat /\ DOMAIN t = 1..Len(t) /\ DOMAIN u = 1..(Len(t) + 1)
      /\ \A i \in 1..Len(t) : u[i] = t[i]
  BY AppendEvent
<1>2. \A i \in 1..Len(t) : AcquiredIds(u, i, nameOf) = AcquiredIds(t, i, nameOf)
  BY AcquiredBefore
<1> HIDE DEF u
<1>3. ASSUME NEW a \in Acquisitions(t, nameOf)
      PROVE  a \in Acquisitions(u, nameOf) /\ a.at <= Len(t)
  <2>1. PICK i \in 1..Len(t) :
           /\ t[i].tool \in AcquisitionTools
           /\ \E m \in AcquiredIds(t, i, nameOf) : a = [id |-> m, tool |-> t[i].tool, at |-> i]
    BY <1>1, <1>3, AcquisitionIs
  <2>2. i \in DOMAIN u
    BY <1>1
  <2>3. a.at = i
    BY <2>1
  <2> QED  BY <1>1, <1>2, <2>1, <2>2, <2>3, AcquisitionIs
<1>4. ASSUME NEW a \in Acquisitions(u, nameOf), a.at <= Len(t)
      PROVE  a \in Acquisitions(t, nameOf)
  <2>1. PICK i \in DOMAIN u :
           /\ u[i].tool \in AcquisitionTools
           /\ \E m \in AcquiredIds(u, i, nameOf) : a = [id |-> m, tool |-> u[i].tool, at |-> i]
    BY <1>4, AcquisitionIs
  <2>2. a.at = i
    BY <2>1
  <2>3. i \in 1..Len(t)
    BY <1>1, <1>4, <2>2
  <2> QED  BY <1>1, <1>2, <2>1, <2>3, AcquisitionIs
<1> QED  BY <1>3, <1>4 DEF u

(* No event of a trace is attributed otherwise once the run goes on        *)
(* (InformationFlowAnalyzer, node_display_names).                          *)
THEOREM AttributionsFinal == Spec => AttributionIsFinal
<1> DEFINE Kept(c) == Flow(runs[c].trace).acquisitions =
              {a \in Flow(runs'[c].trace).acquisitions : a.at <= Len(runs[c].trace)}
<1>1. ASSUME Shape, [Next]_vars, NEW c \in Clients
      PROVE  Kept(c)
  <2>1. IsSequence(runs[c].trace)
    BY <1>1 DEF Shape
  <2>2. \A t : Flow(t).acquisitions = Acquisitions(t, Named)
    BY DEF Flow, InformationFlow
  <2>3. CASE runs'[c].trace = runs[c].trace
    <3> DEFINE t == runs[c].trace
    <3>1. Len(t) \in Nat /\ DOMAIN t = 1..Len(t)
      BY <2>1, AppendEvent
    <3> HIDE DEF t
    <3>2. ASSUME NEW a \in Acquisitions(t, Named)
          PROVE  a.at <= Len(t)
      <4>1. PICK i \in DOMAIN t : \E m : a = [id |-> m, tool |-> t[i].tool, at |-> i]
        BY <3>2, AcquisitionIs
      <4> QED  BY <3>1, <4>1
    <3>3. Acquisitions(t, Named) = {a \in Acquisitions(t, Named) : a.at <= Len(t)}
      BY <3>2
    <3> QED  BY <2>2, <2>3, <3>3 DEF t
  <2>4. CASE \E e : runs'[c].trace = Append(runs[c].trace, e)
    BY <2>1, <2>2, <2>4, AcquisitionsOfPrefix
  <2> QED  BY <1>1, <2>3, <2>4, TraceStep
<1>2. Shape /\ [Next]_vars => [\A c \in Clients : Kept(c)]_vars
  BY <1>1
<1> QED  BY <1>2, ShapeInductive, PTL DEF Spec, AttributionIsFinal
-----------------------------------------------------------------------------
(***************************************************************************)
(* What each action does to the requests, field by field.                  *)
(***************************************************************************)
RequestFields == {"stage", "call", "response", "error", "alone", "before", "held", "graph"}
RunFields == {"kind", "phase", "asked", "failed", "trace", "evidence", "result"}

Fields ==
    /\ DOMAIN runs = Clients /\ DOMAIN calls = Clients
    /\ \A c \in Clients : DOMAIN runs[c] = RunFields /\ DOMAIN calls[c] = RequestFields

(* The request of c keeps every other field; the other requests stay.      *)
Changes(c, fields) == \A f \in RequestFields \ fields : calls'[c][f] = calls[c][f]
OthersStay(c) == \A d \in Clients \ {c} : calls'[d] = calls[d]

FieldsKept == DOMAIN calls' = Clients /\ \A c \in Clients : DOMAIN calls'[c] = RequestFields

(* An OPC UA request that comes while another is under way is not alone,   *)
(* and neither is that one from then on.                                   *)
Overlaps(c, call) ==
    IsOpcua(call) /\ \E d \in Clients \ {c} : Busy(d) /\ IsOpcua(calls[d].call)

(* A client posts a request, and others may stop being alone by it.        *)
LEMMA SendStep ==
  ASSUME Fields, NEW c \in Clients, NEW call, Send(c, call)
  PROVE  /\ FieldsKept
         /\ calls[c].stage = "idle"
         /\ calls'[c].stage = "requested" /\ calls'[c].call = call
         /\ calls'[c].error = FALSE
         /\ calls'[c].alone <=> ~Overlaps(c, call)
         /\ IsOpcua(call) => calls'[c].before = open
         /\ call.tool = "opcua_read" => calls'[c].held = {values[call.arg]}
         /\ call.tool \in ToolNamesOf.knowledge_graph => calls'[c].graph = stores.graph
         /\ call.tool \notin ToolNamesOf.knowledge_graph => calls'[c].graph = 1
         /\ ~IsOpcua(call) => OthersStay(c)
         /\ \A d \in Clients \ {c} :
              /\ Changes(d, {"alone"})
              /\ IsOpcua(call) /\ Busy(d) /\ IsOpcua(calls[d].call) => ~calls'[d].alone
<1> DEFINE others == {d \in Clients \ {c} : Busy(d) /\ IsOpcua(calls[d].call)}
           shared == IsOpcua(call) /\ others # {}
<1>1. calls[c].stage = "idle" /\ (shared <=> Overlaps(c, call))
  BY DEF Send, Overlaps
<1>2. calls' = [d \in Clients |->
              IF d = c
              THEN [IdleRequest EXCEPT !.stage = "requested", !.call = call,
                       !.alone = ~shared, !.before = IF IsOpcua(call) THEN open ELSE {},
                       !.graph = IF call.tool \in ToolNamesOf.knowledge_graph
                                 THEN stores.graph ELSE @,
                       !.held = IF call.tool = "opcua_read" THEN {values[call.arg]} ELSE {}]
              ELSE IF shared /\ d \in others THEN [calls[d] EXCEPT !.alone = FALSE]
              ELSE calls[d]]
  BY DEF Send
<1>3. \A d \in Clients \ {c} :
         shared /\ d \in others <=> IsOpcua(call) /\ Busy(d) /\ IsOpcua(calls[d].call)
  OBVIOUS
<1> HIDE DEF shared, others
<1>4. calls'[c] = [stage |-> "requested", call |-> call, response |-> Nothing,
                   error |-> FALSE, alone |-> ~shared,
                   before |-> IF IsOpcua(call) THEN open ELSE {},
                   held |-> IF call.tool = "opcua_read" THEN {values[call.arg]} ELSE {},
                   graph |-> IF call.tool \in ToolNamesOf.knowledge_graph
                             THEN stores.graph ELSE 1]
  BY <1>2 DEF IdleRequest
<1>5. \A d \in Clients \ {c} :
        calls'[d] = IF shared /\ d \in others THEN [calls[d] EXCEPT !.alone = FALSE]
                    ELSE calls[d]
  BY <1>2
<1>6. \A d \in Clients \ {c} :
        /\ Changes(d, {"alone"}) /\ DOMAIN calls'[d] = RequestFields
        /\ calls'[d].alone = IF shared /\ d \in others THEN FALSE ELSE calls[d].alone
  BY <1>5 DEF Fields, RequestFields, Changes
<1>7. \A d \in Clients \ {c} :
        /\ IsOpcua(call) /\ Busy(d) /\ IsOpcua(calls[d].call) => ~calls'[d].alone
        /\ ~IsOpcua(call) => calls'[d] = calls[d]
  BY <1>3, <1>5, <1>6
<1>8. DOMAIN calls' = Clients /\ DOMAIN calls'[c] = RequestFields
  BY <1>2, <1>4 DEF RequestFields
<1>9. FieldsKept
  BY <1>6, <1>8 DEF FieldsKept
<1>10. /\ calls'[c].stage = "requested" /\ calls'[c].call = call
       /\ calls'[c].error = FALSE /\ calls'[c].alone = ~shared
       /\ calls'[c].before = IF IsOpcua(call) THEN open ELSE {}
       /\ calls'[c].held = IF call.tool = "opcua_read" THEN {values[call.arg]} ELSE {}
       /\ calls'[c].graph = IF call.tool \in ToolNamesOf.knowledge_graph
                            THEN stores.graph ELSE 1
  BY <1>4
<1>11. calls'[c].alone <=> ~Overlaps(c, call)
  BY <1>1, <1>10
<1> QED
  BY <1>1, <1>6, <1>7, <1>9, <1>10, <1>11 DEF OthersStay

(* A handler of one call answers it, or fails.                             *)
LEMMA ServeStep ==
  ASSUME Fields, NEW c \in Clients, Serve(c)
  PROVE  /\ FieldsKept /\ OthersStay(c) /\ Changes(c, {"stage", "response", "error"})
         /\ calls[c].stage = "requested" /\ calls'[c].stage = "answered"
         /\ calls'[c].error \/ calls'[c].response \in Answers(calls[c].call)
<1>1. /\ calls[c].stage = "requested"
      /\ Answered(c, Answers(calls[c].call)) \/ Answered(c, {})
  BY DEF Serve
<1>2. CASE calls' = [calls EXCEPT ![c].stage = "answered", ![c].error = TRUE]
  BY <1>1, <1>2 DEF Fields, RequestFields, FieldsKept, OthersStay, Changes
<1>3. ASSUME NEW r \in Answers(calls[c].call),
             calls' = [calls EXCEPT ![c].stage = "answered", ![c].response = r]
      PROVE  /\ FieldsKept /\ OthersStay(c) /\ Changes(c, {"stage", "response", "error"})
             /\ calls'[c].stage = "answered"
             /\ calls'[c].error \/ calls'[c].response \in Answers(calls[c].call)
  BY <1>3 DEF Fields, RequestFields, FieldsKept, OthersStay, Changes
<1> QED  BY <1>1, <1>2, <1>3 DEF Answered

(* Connect, operate, disconnect.                                           *)
LEMMA ConnectStep ==
  ASSUME Fields, NEW c \in Clients, Connect(c)
  PROVE  /\ FieldsKept /\ OthersStay(c) /\ Changes(c, {"stage"})
         /\ IsOpcua(calls[c].call)
         /\ calls[c].stage = "requested" /\ calls'[c].stage = "connected"
BY DEF Connect, Fields, RequestFields, FieldsKept, OthersStay, Changes

(* The operation is answered, unless its connection has been closed.       *)
LEMMA OperateStep ==
  ASSUME Fields, NEW c \in Clients, Operate(c)
  PROVE  /\ FieldsKept /\ OthersStay(c) /\ Changes(c, {"stage", "response", "error"})
         /\ calls[c].stage = "connected" /\ calls'[c].stage = "operated"
         /\ session \in open => calls'[c].response = OpcuaAnswer(calls[c].call)
         /\ calls'[c].error = (session \notin open)
<1> DEFINE answer == OpcuaAnswer(calls[c].call)
           fails == session \notin open
<1>1. /\ calls[c].stage = "connected"
      /\ calls' = [calls EXCEPT ![c].stage = "operated",
                       ![c].response = IF session \in open THEN answer ELSE @,
                       ![c].error = fails]
  BY DEF Operate
<1> HIDE DEF answer, fails
<1>2. /\ FieldsKept /\ OthersStay(c) /\ Changes(c, {"stage", "response", "error"})
      /\ calls[c].stage = "connected" /\ calls'[c].stage = "operated"
      /\ session \in open => calls'[c].response = answer
      /\ calls'[c].error = fails
  BY <1>1 DEF Fields, RequestFields, FieldsKept, OthersStay, Changes
<1> QED  BY <1>2 DEF answer, fails

(* The request gives its connection up and is answered.                    *)
LEMMA DisconnectStep ==
  ASSUME Fields, NEW c \in Clients, Disconnect(c)
  PROVE  /\ FieldsKept /\ OthersStay(c) /\ Changes(c, {"stage", "error"})
         /\ calls[c].stage = "operated" /\ calls'[c].stage = "answered"
         /\ session \in open /\ ~calls[c].error => ~calls'[c].error
<1>1. PICK raises \in BOOLEAN :
         /\ raises => session \notin open
         /\ calls' = [calls EXCEPT ![c].stage = "answered", ![c].error = @ \/ raises]
  BY DEF Disconnect
<1>2. FieldsKept /\ OthersStay(c) /\ Changes(c, {"stage", "error"})
      /\ calls'[c].stage = "answered" /\ calls'[c].error = (calls[c].error \/ raises)
  BY <1>1 DEF Fields, RequestFields, FieldsKept, OthersStay, Changes
<1> QED  BY <1>1, <1>2 DEF Disconnect

(* The agent takes the answer and is free for its next request.            *)
LEMMA ReceiveStep ==
  ASSUME Fields, NEW c \in Clients, Receive(c)
  PROVE  /\ FieldsKept /\ OthersStay(c)
         /\ calls[c].stage = "answered" /\ calls'[c] = IdleRequest
BY DEF Receive, Fields, RequestFields, FieldsKept, OthersStay, IdleRequest

(* The live server writes a node; the reads under way may see it.          *)
LEMMA SyncStep ==
  ASSUME Fields, SyncNode
  PROVE  /\ FieldsKept
         /\ \A c \in Clients :
              /\ Changes(c, {"held"})
              /\ calls'[c].held =
                    IF Busy(c) /\ calls[c].call.tool = "opcua_read"
                       /\ calls[c].call.arg = Head(todo)
                    THEN calls[c].held \cup {sample} ELSE calls[c].held
BY DEF SyncNode, Fields, RequestFields, FieldsKept, Changes


(* The run takes note of the answer, or ends.                              *)
RunsKept == DOMAIN runs' = Clients /\ \A c \in Clients : DOMAIN runs'[c] = RunFields

OtherRunsStay(c) == \A d \in Clients \ {c} : runs'[d] = runs[d]

(* An agent takes the answer: an event of its trace, or a failure.         *)
LEMMA ReceiveRun ==
  ASSUME Fields, NEW c \in Clients, Receive(c)
  PROVE  /\ RunsKept /\ OtherRunsStay(c)
         /\ runs[c].phase = "running" /\ runs'[c].kind = runs[c].kind
         /\ runs'[c].asked = runs[c].asked + 1
         /\ IF calls[c].error
            THEN runs'[c].failed = runs[c].failed + 1 /\ runs'[c].trace = runs[c].trace
            ELSE /\ runs'[c].failed = runs[c].failed
                 /\ \E e : runs'[c].trace = Append(runs[c].trace, e)
         /\ runs'[c].phase = IF calls[c].error /\ runs[c].kind # "llm"
                             THEN "FAILED" ELSE "running"
<1> DEFINE e == [tool |-> calls[c].call.tool, arg |-> calls[c].call.arg,
                 response |-> calls[c].response,
                 acquired |-> Acquired(runs[c].kind, calls[c].call),
                 consumed |-> Consumed(runs[c].kind, calls[c].call)]
           error == calls[c].error
           cited == EvidenceFor(calls[c].call)
<1>1. /\ runs[c].phase = "running"
      /\ runs' = [runs EXCEPT ![c] =
             [runs[c] EXCEPT !.asked = @ + 1,
                             !.failed = IF error THEN @ + 1 ELSE @,
                             !.trace = IF error THEN @ ELSE Append(@, e),
                             !.evidence = IF runs[c].kind = "llm"
                                          THEN Append(@, cited) ELSE @,
                             !.phase = IF error /\ runs[c].kind # "llm"
                                       THEN "FAILED" ELSE @]]
  BY DEF Receive
<1> HIDE DEF e, error, cited
<1>2. /\ RunsKept /\ OtherRunsStay(c)
      /\ runs'[c].kind = runs[c].kind /\ runs'[c].asked = runs[c].asked + 1
      /\ runs'[c].failed = IF error THEN runs[c].failed + 1 ELSE runs[c].failed
      /\ runs'[c].trace = IF error THEN runs[c].trace ELSE Append(runs[c].trace, e)
      /\ runs'[c].phase = IF error /\ runs[c].kind # "llm" THEN "FAILED" ELSE "running"
  BY <1>1 DEF Fields, RunFields, RunsKept, OtherRunsStay
<1> QED  BY <1>1, <1>2 DEF error

(* An agent that concludes or raises keeps what it has done.               *)
LEMMA ConcludeRun ==
  ASSUME Fields, NEW c \in Clients, Conclude(c)
  PROVE  /\ RunsKept /\ OtherRunsStay(c)
         /\ runs[c].phase = "running" /\ calls[c].stage = "idle" /\ UNCHANGED gatewayVars
         /\ runs'[c].phase \in {"COMPLETED", "FAILED"}
         /\ \A f \in {"kind", "asked", "failed", "trace"} : runs'[c][f] = runs[c][f]
<1>1. CASE runs' = [runs EXCEPT ![c].phase = "FAILED"]
  BY <1>1 DEF Conclude, Fields, RunFields, RunsKept, OtherRunsStay
<1>2. ASSUME NEW result, runs' = [runs EXCEPT ![c].phase = "COMPLETED", ![c].result = result]
      PROVE  /\ RunsKept /\ OtherRunsStay(c)
             /\ runs'[c].phase \in {"COMPLETED", "FAILED"}
             /\ \A f \in {"kind", "asked", "failed", "trace"} : runs'[c][f] = runs[c][f]
  BY <1>2 DEF Fields, RunFields, RunsKept, OtherRunsStay
<1> QED  BY <1>1, <1>2 DEF Conclude
-----------------------------------------------------------------------------
(***************************************************************************)
(* The values the state takes.                                             *)
(***************************************************************************)
Nodes == ToSet(VariableNodes)
Stores == {"graph", "historian", "mqtt"}

StoreInv ==
    /\ DOMAIN stores = Stores
    /\ \A s \in Stores : stores[s] \in 1..MaxGenerations[s]

LiveInv ==
    /\ sample \in 0..MaxSamples
    /\ values \in [Nodes -> 0..sample]
    /\ todo \in Seq(Nodes)

ConnectionInv ==
    /\ opened \in Nat
    /\ session \in 0..opened /\ open \subseteq 1..opened

(* An LLM that waits for an answer has a step left, and only OPC UA        *)
(* requests are handled in stages.                                         *)
ClientInv(c) ==
    /\ calls[c].stage \in {"idle", "requested", "connected", "operated", "answered"}
    /\ runs[c].phase \in {"running", "COMPLETED", "FAILED"}
    /\ calls[c].stage # "idle" => runs[c].phase = "running"
    /\ calls[c].stage \in {"connected", "operated"} => IsOpcua(calls[c].call)
    /\ runs[c].kind \in AgentKinds
    /\ IsSequence(runs[c].trace)
    /\ runs[c].failed \in Nat
    /\ runs[c].asked = Len(runs[c].trace) + runs[c].failed
    /\ runs[c].kind = "llm" =>
          /\ runs[c].asked <= MaxCalls[c]
          /\ calls[c].stage # "idle" => runs[c].asked < MaxCalls[c]
    /\ runs[c].kind # "llm" /\ runs[c].failed > 0 => runs[c].phase = "FAILED"

TypeInv ==
    /\ Fields
    /\ StoreInv /\ LiveInv /\ ConnectionInv
    /\ \A c \in Clients : ClientInv(c)

(* The address space.                                                      *)
LEMMA NodesAre == Nodes = {"node_pressure", "node_level"} /\ VariableNodes \in Seq(Nodes)
<1>1. Nodes = {"node_pressure", "node_level"}
  BY DEF Nodes, VariableNodes, ToSet
<1>2. VariableNodes \in Seq({"node_pressure", "node_level"})
  BY DEF VariableNodes
<1> QED  BY <1>1, <1>2

(* The stores a preparation reaches.                                       *)
LEMMA StoresAre == ToSet(StoreOrder) = Stores /\ DOMAIN StoreOrder = 1..3
                   /\ \A i \in 1..3 : StoreOrder[i] \in Stores
BY DEF StoreOrder, Stores, ToSet

(* Runs and requests keep their fields.                                    *)
LEMMA FieldsInductive == /\ Init => Fields
                         /\ Fields /\ [Next]_vars => Fields'
<1>1. ASSUME Init PROVE Fields
  <2>1. DOMAIN runs = Clients /\ \A c \in Clients : DOMAIN runs[c] = RunFields
    BY <1>1 DEF Init, RunFields
  <2>2. DOMAIN calls = Clients /\ \A c \in Clients : DOMAIN calls[c] = RequestFields
    BY <1>1 DEF Init, GatewayInit, IdleRequest, RequestFields
  <2> QED  BY <2>1, <2>2 DEF Fields
<1>2. ASSUME Fields, [Next]_vars PROVE Fields'
  <2>1. FieldsKept
    <3>1. CASE UNCHANGED calls
      BY <1>2, <3>1 DEF Fields, FieldsKept
    <3>2. ASSUME NEW c \in Clients, AgentStep(c) PROVE FieldsKept
      <4>1. CASE Ask(c)
        BY <1>2, <4>1, SendStep DEF Ask
      <4>2. CASE Receive(c)
        BY <1>2, <4>2, ReceiveStep
      <4>3. CASE Conclude(c)
        BY <3>1, <4>3 DEF Conclude, gatewayVars
      <4> QED  BY <3>2, <4>1, <4>2, <4>3 DEF AgentStep
    <3>3. ASSUME NEW c \in Clients, GatewayStep(c) PROVE FieldsKept
      BY <1>2, <3>3, ServeStep, ConnectStep, OperateStep, DisconnectStep DEF GatewayStep
    <3>4. ASSUME WorldStep PROVE FieldsKept
      BY <1>2, <3>1, <3>4, SyncStep DEF WorldStep, StepSimulator, OtherPreparation
    <3> QED  BY <1>2, <3>1, <3>2, <3>3, <3>4 DEF Next, vars, gatewayVars
  <2>2. RunsKept
    <3>1. CASE UNCHANGED runs
      BY <1>2, <3>1 DEF Fields, RunsKept
    <3>2. ASSUME NEW c \in Clients, AgentStep(c) PROVE RunsKept
      BY <1>2, <3>1, <3>2, ReceiveRun, ConcludeRun DEF AgentStep, Ask
    <3> QED  BY <1>2, <3>1, <3>2 DEF Next, vars
  <2> QED  BY <2>1, <2>2 DEF Fields, FieldsKept, RunsKept
<1> QED  BY <1>1, <1>2

(* The stores only move forward, and stop at their bounds.                 *)
LEMMA NextStoreInv == StoreInv /\ [Next]_vars =>
                         StoreInv' /\ \A s \in Stores : stores[s] <= stores'[s]
<1> SUFFICES ASSUME StoreInv, [Next]_vars
             PROVE  StoreInv' /\ \A s \in Stores : stores[s] <= stores'[s]
  OBVIOUS
<1>0. \A s \in Stores : MaxGenerations[s] \in Nat \ {0}
  BY GatewayAssumption DEF Stores
<1>1. CASE UNCHANGED stores
  BY <1>0, <1>1 DEF StoreInv
<1>2. ASSUME NEW i \in DOMAIN StoreOrder, OtherPreparation(i)
      PROVE  StoreInv' /\ \A s \in Stores : stores[s] <= stores'[s]
  <2>1. PICK store \in Stores : /\ stores[store] < MaxGenerations[store]
                                /\ stores' = [stores EXCEPT ![store] = @ + 1]
    BY <1>2, StoresAre DEF OtherPreparation
  <2> QED  BY <1>0, <2>1 DEF StoreInv
<1>3. ASSUME NEW c \in Clients, AgentStep(c) \/ GatewayStep(c) PROVE UNCHANGED stores
  BY <1>3 DEF AgentStep, GatewayStep, Ask, Send, Receive, Conclude, gatewayVars, Serve, Connect,
     Operate, Disconnect
<1>4. StepSimulator \/ SyncNode => UNCHANGED stores
  BY DEF StepSimulator, SyncNode
<1> QED  BY <1>1, <1>2, <1>3, <1>4 DEF Next, WorldStep, vars, gatewayVars

(* A node holds a sample the simulator has reached.                        *)
LEMMA NextLiveInv == LiveInv /\ [Next]_vars => LiveInv'
<1> SUFFICES ASSUME LiveInv, [Next]_vars PROVE LiveInv'
  OBVIOUS
<1>1. CASE UNCHANGED liveVars
  BY <1>1 DEF LiveInv, liveVars
<1>2. CASE StepSimulator
  BY <1>2, NodesAre, GatewayAssumption DEF StepSimulator, LiveInv
<1>3. CASE SyncNode
  <2>1. /\ todo # <<>> /\ todo' = Tail(todo) /\ UNCHANGED sample
        /\ values' = [values EXCEPT ![Head(todo)] = sample]
    BY <1>3 DEF SyncNode
  <2>2. Tail(todo) \in Seq(Nodes) /\ Head(todo) \in Nodes
    BY <2>1 DEF LiveInv
  <2>3. sample \in 0..sample
    BY GatewayAssumption DEF LiveInv
  <2> QED  BY <2>1, <2>2, <2>3 DEF LiveInv
<1>4. ASSUME NEW c \in Clients, AgentStep(c) \/ GatewayStep(c) PROVE UNCHANGED liveVars
  BY <1>4 DEF AgentStep, GatewayStep, Ask, Send, Receive, Conclude, gatewayVars, liveVars, Serve,
     Connect, Operate, Disconnect
<1>5. ASSUME NEW i, OtherPreparation(i) PROVE UNCHANGED liveVars
  BY <1>5 DEF OtherPreparation
<1> QED
  BY <1>1, <1>2, <1>3, <1>4, <1>5 DEF Next, WorldStep, vars, gatewayVars, liveVars

(* The shared client knows a connection that was made.                     *)
LEMMA NextConnectionInv == ConnectionInv /\ [Next]_vars => ConnectionInv'
<1> SUFFICES ASSUME ConnectionInv, [Next]_vars PROVE ConnectionInv'
  OBVIOUS
<1>1. CASE UNCHANGED <<session, open, opened>>
  BY <1>1 DEF ConnectionInv
<1>2. ASSUME NEW c, Connect(c) PROVE ConnectionInv'
  BY <1>2 DEF Connect, ConnectionInv
<1>3. ASSUME NEW c, Disconnect(c) PROVE ConnectionInv'
  BY <1>3 DEF Disconnect, ConnectionInv
<1>4. ASSUME NEW c \in Clients, AgentStep(c) \/ Serve(c) \/ Operate(c)
      PROVE  UNCHANGED <<session, open, opened>>
  BY <1>4 DEF AgentStep, Ask, Send, Receive, Conclude, gatewayVars, Serve, Operate
<1>5. WorldStep => UNCHANGED <<session, open, opened>>
  BY DEF WorldStep, StepSimulator, SyncNode, OtherPreparation
<1> QED
  BY <1>1, <1>2, <1>3, <1>4, <1>5 DEF Next, GatewayStep, vars, gatewayVars


(* A client whose request and run are as before, or whose request only     *)
(* moved on, keeps ClientInv.                                              *)
LEMMA ClientKept ==
  ASSUME NEW c \in Clients, ClientInv(c),
         calls'[c].stage \in {"requested", "connected", "operated", "answered"}
            \/ calls'[c].stage = calls[c].stage,
         calls'[c].stage = "idle" <=> calls[c].stage = "idle",
         calls'[c].call = calls[c].call,
         calls'[c].stage \in {"connected", "operated"} => IsOpcua(calls[c].call),
         runs'[c] = runs[c]
  PROVE  ClientInv(c)'
BY DEF ClientInv, IsOpcua

(* ClientInv is inductive: one step per action.                            *)
LEMMA NextClientInv ==
  ASSUME Fields, \A d \in Clients : ClientInv(d), [Next]_vars, NEW c \in Clients
  PROVE  ClientInv(c)'
<1>0. ClientInv(c)
  OBVIOUS
<1>1. ASSUME calls'[c] = calls[c], runs'[c] = runs[c] PROVE ClientInv(c)'
  BY <1>0, <1>1 DEF ClientInv, IsOpcua
<1>2. ASSUME NEW d \in Clients, Ask(d) PROVE ClientInv(c)'
  <2>1. PICK call \in NextCalls(d, runs[d]) : Send(d, call)
    BY <1>2 DEF Ask
  <2>2. UNCHANGED runs /\ runs[d].phase = "running"
    BY <1>2 DEF Ask
  <2>3. CASE d = c
    <3>1. calls'[c].stage = "requested"
      BY <2>1, <2>3, SendStep
    <3>2. runs[c].kind = "llm" => runs[c].asked < MaxCalls[c]
      BY <2>1, <2>3 DEF NextCalls
    <3> QED  BY <1>0, <2>2, <2>3, <3>1, <3>2 DEF ClientInv
  <2>4. CASE d # c
    <3>1. Changes(c, {"alone"})
      BY <2>1, <2>4, SendStep
    <3>2. calls'[c].stage = calls[c].stage /\ calls'[c].call = calls[c].call
      BY <3>1 DEF Changes, RequestFields
    <3> QED  BY <1>0, <2>2, <3>2 DEF ClientInv, IsOpcua
  <2> QED  BY <2>3, <2>4
<1>3. ASSUME NEW d \in Clients, Receive(d) PROVE ClientInv(c)'
  <2>1. CASE d = c
    <3>1. calls[c].stage = "answered" /\ calls'[c].stage = "idle"
      BY <1>3, <2>1, ReceiveStep DEF IdleRequest
    <3>2. /\ runs[c].phase = "running" /\ runs'[c].kind = runs[c].kind
          /\ runs'[c].asked = runs[c].asked + 1
          /\ IF calls[c].error
             THEN runs'[c].failed = runs[c].failed + 1 /\ runs'[c].trace = runs[c].trace
             ELSE /\ runs'[c].failed = runs[c].failed
                  /\ \E e : runs'[c].trace = Append(runs[c].trace, e)
          /\ runs'[c].phase = IF calls[c].error /\ runs[c].kind # "llm"
                              THEN "FAILED" ELSE "running"
      BY <1>3, <2>1, ReceiveRun
    <3>3. /\ IsSequence(runs[c].trace) /\ Len(runs[c].trace) \in Nat
          /\ \A e : /\ IsSequence(Append(runs[c].trace, e))
                    /\ Len(Append(runs[c].trace, e)) = Len(runs[c].trace) + 1
      <4>1. IsSequence(runs[c].trace)
        BY <1>0 DEF ClientInv
      <4>2. PICK S : runs[c].trace \in Seq(S)
        BY <4>1 DEF IsSequence
      <4>3. ASSUME NEW e PROVE Len(Append(runs[c].trace, e)) = Len(runs[c].trace) + 1
        BY <4>2
      <4> QED  BY <4>1, <4>3, AppendEvent
    <3>4. /\ IsSequence(runs'[c].trace)
          /\ Len(runs'[c].trace) = Len(runs[c].trace) + (IF calls[c].error THEN 0 ELSE 1)
      <4>1. CASE calls[c].error
        BY <3>2, <3>3, <4>1
      <4>2. CASE ~calls[c].error
        <5>1. PICK e : runs'[c].trace = Append(runs[c].trace, e)
          BY <3>2, <4>2
        <5> QED  BY <3>3, <4>2, <5>1
      <4> QED  BY <4>1, <4>2
    <3>5. runs[c].kind = "llm" => runs[c].asked < MaxCalls[c] /\ MaxCalls[c] \in Nat
      BY <1>0, <3>1, EvidenceAssumption DEF ClientInv
    <3>6. runs[c].failed \in Nat /\ runs[c].asked = Len(runs[c].trace) + runs[c].failed
          /\ (runs[c].kind # "llm" => runs[c].failed = 0)
      BY <1>0, <3>2 DEF ClientInv
    <3>7. /\ runs'[c].failed \in Nat
          /\ runs'[c].asked = Len(runs'[c].trace) + runs'[c].failed
          /\ runs[c].kind = "llm" => runs'[c].asked <= MaxCalls[c]
          /\ runs[c].kind # "llm" /\ runs'[c].failed > 0 => runs'[c].phase = "FAILED"
      <4>1. CASE calls[c].error
        BY <3>2, <3>3, <3>4, <3>5, <3>6, <4>1
      <4>2. CASE ~calls[c].error
        <5>1. /\ runs'[c].asked = runs[c].asked + 1 /\ runs'[c].failed = runs[c].failed
              /\ Len(runs'[c].trace) = Len(runs[c].trace) + 1
              /\ Len(runs[c].trace) \in Nat
          BY <3>2, <3>3, <3>4, <4>2
        <5>2. runs'[c].failed \in Nat /\ runs'[c].asked = Len(runs'[c].trace) + runs'[c].failed
          BY <3>6, <5>1
        <5>3. runs[c].kind = "llm" => runs'[c].asked <= MaxCalls[c]
          BY <3>5, <3>6, <5>1
        <5>4. runs[c].kind # "llm" => ~(runs'[c].failed > 0)
          BY <3>6, <5>1
        <5> QED  BY <5>2, <5>3, <5>4
      <4> QED  BY <4>1, <4>2
    <3> QED  BY <3>1, <3>2, <3>4, <3>7 DEF ClientInv
  <2>2. CASE d # c
    <3>1. calls'[c] = calls[c] /\ runs'[c] = runs[c]
      BY <1>3, <2>2, ReceiveStep, ReceiveRun DEF OthersStay, OtherRunsStay
    <3> QED  BY <1>1, <3>1
  <2> QED  BY <2>1, <2>2
<1>4. ASSUME NEW d \in Clients, Conclude(d) PROVE ClientInv(c)'
  <2>1. CASE d = c
    <3>1. /\ runs[c].phase = "running" /\ calls[c].stage = "idle" /\ calls'[c] = calls[c]
          /\ runs'[c].phase \in {"COMPLETED", "FAILED"}
          /\ \A f \in {"kind", "asked", "failed", "trace"} : runs'[c][f] = runs[c][f]
      BY <1>4, <2>1, ConcludeRun DEF gatewayVars
    <3>2. /\ runs'[c].kind = runs[c].kind /\ runs'[c].asked = runs[c].asked
          /\ runs'[c].failed = runs[c].failed /\ runs'[c].trace = runs[c].trace
      BY <3>1
    <3>3. ~(runs[c].kind # "llm" /\ runs[c].failed > 0)
      BY <1>0, <3>1 DEF ClientInv
    <3> QED  BY <1>0, <3>1, <3>2, <3>3 DEF ClientInv
  <2>2. CASE d # c
    <3>1. calls'[c] = calls[c] /\ runs'[c] = runs[c]
      BY <1>4, <2>2, ConcludeRun DEF OtherRunsStay, gatewayVars
    <3> QED  BY <1>1, <3>1
  <2> QED  BY <2>1, <2>2
<1>5. ASSUME NEW d \in Clients, GatewayStep(d), UNCHANGED runs PROVE ClientInv(c)'
  <2>1. CASE d = c
    <3>1. /\ calls[c].stage \in {"requested", "connected", "operated"}
          /\ calls'[c].stage \in {"connected", "operated", "answered"}
          /\ calls'[c].call = calls[c].call
          /\ calls'[c].stage = "connected" => IsOpcua(calls[c].call)
          /\ calls'[c].stage = "operated" => calls[c].stage = "connected"
      BY <1>5, <2>1, ServeStep, ConnectStep, OperateStep, DisconnectStep
         DEF GatewayStep, Changes, RequestFields
    <3> QED  BY <1>0, <1>5, <3>1, ClientKept DEF ClientInv
  <2>2. CASE d # c
    <3>1. calls'[c] = calls[c]
      BY <1>5, <2>2, ServeStep, ConnectStep, OperateStep, DisconnectStep
         DEF GatewayStep, OthersStay
    <3> QED  BY <1>1, <1>5, <3>1
  <2> QED  BY <2>1, <2>2
<1>6. ASSUME WorldStep, UNCHANGED runs PROVE ClientInv(c)'
  <2>1. CASE SyncNode
    <3>1. calls'[c].stage = calls[c].stage /\ calls'[c].call = calls[c].call
      BY <2>1, SyncStep DEF Changes, RequestFields
    <3> QED  BY <1>0, <1>6, <3>1 DEF ClientInv, IsOpcua
  <2>2. CASE UNCHANGED calls
    BY <1>1, <1>6, <2>2
  <2> QED  BY <1>6, <2>1, <2>2 DEF WorldStep, StepSimulator, OtherPreparation
<1>7. CASE UNCHANGED vars
  BY <1>1, <1>7 DEF vars, gatewayVars
<1> QED
  BY <1>2, <1>3, <1>4, <1>5, <1>6, <1>7 DEF Next, AgentStep

(* TypeInv is inductive: each part is kept by every step.                  *)
LEMMA TypeInductive == /\ Init => TypeInv
                       /\ TypeInv /\ [Next]_vars => TypeInv'
<1>1. ASSUME Init PROVE TypeInv
  <2>1. StoreInv /\ LiveInv /\ ConnectionInv
    BY <1>1, GatewayAssumption, NodesAre
       DEF Init, GatewayInit, StoreInv, Stores, LiveInv, ConnectionInv, Nodes
  <2>2. ASSUME NEW c \in Clients PROVE ClientInv(c)
    <3>1. calls[c].stage = "idle"
      BY <1>1 DEF Init, GatewayInit, IdleRequest
    <3>2. /\ runs[c].phase = "running" /\ runs[c].asked = 0 /\ runs[c].failed = 0
          /\ runs[c].trace = <<>> /\ runs[c].kind \in AgentKinds
      BY <1>1, EvidenceAssumption DEF Init
    <3>3. IsSequence(<<>>) /\ Len(<<>>) = 0
      <4>1. <<>> \in Seq({})
        OBVIOUS
      <4> QED  BY <4>1 DEF IsSequence
    <3> QED  BY <3>1, <3>2, <3>3, EvidenceAssumption DEF ClientInv
  <2> QED  BY <1>1, <2>1, <2>2, FieldsInductive DEF TypeInv
<1>2. ASSUME TypeInv, [Next]_vars PROVE TypeInv'
  BY <1>2, FieldsInductive, NextStoreInv, NextLiveInv, NextConnectionInv, NextClientInv
     DEF TypeInv
<1> QED  BY <1>1, <1>2

(* The state keeps its types, no agent calls more often than its budget    *)
(* says, only runs under way have requests, and the trace of a run is the  *)
(* record of its calls but those that failed.                              *)
THEOREM EvidenceTypeCorrect == Spec => []EvidenceTypeOK
<1>1. TypeInv => EvidenceTypeOK
  <2> SUFFICES ASSUME TypeInv PROVE EvidenceTypeOK
    OBVIOUS
  <2>1. /\ DOMAIN stores = ToSet(StoreOrder)
        /\ \A s \in DOMAIN stores : stores[s] \in 1..MaxGenerations[s]
    BY StoresAre DEF TypeInv, StoreInv
  <2>2. values \in [ToSet(VariableNodes) -> 0..sample] /\ sample \in 0..MaxSamples
    BY DEF TypeInv, LiveInv, Nodes
  <2>3. ASSUME NEW c \in Clients
        PROVE  runs[c].kind = "llm" => runs[c].asked \in 0..MaxCalls[c]
    <3>1. /\ ClientInv(c) /\ Len(runs[c].trace) \in Nat /\ MaxCalls[c] \in Nat
      BY AppendEvent, EvidenceAssumption DEF TypeInv, ClientInv
    <3> QED  BY <3>1 DEF ClientInv
  <2> QED
    BY <2>1, <2>2, <2>3 DEF TypeInv, ConnectionInv, ClientInv, EvidenceTypeOK, Ended
<1> QED  BY <1>1, TypeInductive, PTL DEF Spec
-----------------------------------------------------------------------------
(***************************************************************************)
(* The shared OPC UA client.  A request is alone while no other OPC UA     *)
(* request is under way: then nobody else moves its connection.            *)
(***************************************************************************)
OpcuaBusy(c) == Busy(c) /\ IsOpcua(calls[c].call)
Lone(c) == OpcuaBusy(c) /\ calls[c].alone

ReadInv(c) ==
    LET call == calls[c].call IN
    /\ call.arg \in Nodes
    /\ values[call.arg] \in calls[c].held
    /\ calls[c].stage = "operated" =>
          calls[c].response.numbers
             \subseteq {LiveReading(Named[call.arg], s) : s \in calls[c].held}

LoneInv(c) ==
    Lone(c) =>
       /\ \A d \in Clients \ {c} : ~OpcuaBusy(d)
       /\ calls[c].stage = "requested" => open = calls[c].before
       /\ calls[c].stage \in {"connected", "operated"} =>
             session \notin calls[c].before /\ open = calls[c].before \cup {session}
       /\ calls[c].stage = "operated" => ~calls[c].error
       /\ calls[c].call.tool = "opcua_read" => ReadInv(c)

(* The nodes that are read exist: an LLM names one, and the OPC UA agent   *)
(* reads those its browse has found.                                       *)
LEMMA ReadsNodes ==
  ASSUME NEW c \in Clients, ClientInv(c),
         NEW call \in NextCalls(c, runs[c]), call.tool = "opcua_read"
  PROVE  call.arg \in Nodes
<1> DEFINE run == runs[c]
<1>1. CASE run.kind = "llm"
  BY <1>1, EvidenceAssumption DEF NextCalls, Nodes
<1>2. CASE run.kind # "llm"
  <2>1. call \in PlannedCalls(run) /\ run.kind \in AgentKinds \ {"llm"}
    BY <1>2 DEF NextCalls, ClientInv
  <2>2. run.asked \in Nat
    <3>1. Len(run.trace) \in Nat
      BY AppendEvent DEF ClientInv
    <3> QED  BY <3>1 DEF ClientInv
  <2>3. CASE run.asked < Len(Opening(run.kind))
    <3>1. call = Opening(run.kind)[run.asked + 1]
      BY <2>1, <2>3 DEF PlannedCalls
    <3>2. run.asked + 1 \in 1..Len(Opening(run.kind))
      BY <2>2, <2>3, <2>1 DEF Opening, AgentKinds
    <3>3. \A i \in 1..Len(Opening(run.kind)) : Opening(run.kind)[i].tool # "opcua_read"
      <4>1. CASE run.kind \in {"structured_retrieval", "context_aware", "uns", "scenario_aware"}
        BY <4>1 DEF Opening, Call
      <4>2. CASE run.kind \in {"opcua", "kg"}
        BY <4>2 DEF Opening, Call
      <4>3. CASE run.kind = "i3x"
        BY <4>3 DEF Opening, Call
      <4> QED  BY <2>1, <4>1, <4>2, <4>3 DEF AgentKinds
    <3> QED  BY <3>1, <3>2, <3>3
  <2>4. CASE ~(run.asked < Len(Opening(run.kind)))
    <3> DEFINE named == run.trace[1].response.named \ {run.trace[i].arg : i \in DOMAIN run.trace}
    <3>1. \/ \E m : call = Call("get_current_value", m)
          \/ \E e : call = Call("get_entity_relationships", e)
          \/ \E n \in FirstOf(VariableNodes, named) : call = Call("opcua_read", n)
      BY <2>1, <2>4 DEF PlannedCalls, AgentKinds
    <3>2. PICK n \in FirstOf(VariableNodes, named) : call = Call("opcua_read", n)
      BY <3>1 DEF Call
    <3>3. n \in Nodes
      BY DEF FirstOf, Nodes, ToSet
    <3> QED  BY <3>2, <3>3 DEF Call
  <2> QED  BY <2>3, <2>4
<1> QED  BY <1>1, <1>2

(* What leaves the request, the connection and the nodes alone, and starts *)
(* no OPC UA request, keeps LoneInv.                                       *)
LEMMA LoneKept ==
  ASSUME NEW c \in Clients, LoneInv(c), UNCHANGED <<session, open, values>>,
         \A f \in {"stage", "call", "alone", "before", "held", "response", "error"} :
            calls'[c][f] = calls[c][f],
         \A d \in Clients \ {c} : OpcuaBusy(d)' => OpcuaBusy(d)
  PROVE  LoneInv(c)'
<1>1. /\ calls'[c].stage = calls[c].stage /\ calls'[c].call = calls[c].call
      /\ calls'[c].alone = calls[c].alone /\ calls'[c].before = calls[c].before
      /\ calls'[c].held = calls[c].held /\ calls'[c].response = calls[c].response
      /\ calls'[c].error = calls[c].error
  OBVIOUS
<1>2. Lone(c)' => Lone(c)
  BY <1>1 DEF Lone, OpcuaBusy, Busy, IsOpcua
<1>3. ReadInv(c) => ReadInv(c)'
  BY <1>1 DEF ReadInv, LiveReading
<1> QED  BY <1>1, <1>2, <1>3 DEF LoneInv

(* LoneInv is inductive.                                                   *)
LEMMA NextLoneInv ==
  ASSUME TypeInv, \A d \in Clients : LoneInv(d), [Next]_vars, NEW c \in Clients
  PROVE  LoneInv(c)'
<1>0. Fields /\ ConnectionInv /\ LoneInv(c) /\ \A d \in Clients : ClientInv(d)
  BY DEF TypeInv
<1>1. ASSUME NEW d \in Clients, Ask(d) PROVE LoneInv(c)'
  <2>1. PICK call \in NextCalls(d, runs[d]) : Send(d, call)
    BY <1>1 DEF Ask
  <2>2. UNCHANGED <<session, open, values>>
    BY <2>1 DEF Send, liveVars
  <2>3. CASE d = c
    <3>1. SUFFICES ASSUME Lone(c)' PROVE LoneInv(c)'
      BY DEF LoneInv
    <3>a. Send(c, call)
      BY <2>1, <2>3
    <3>2. /\ calls'[c].stage = "requested" /\ calls'[c].call = call
          /\ calls'[c].alone <=> ~Overlaps(c, call)
          /\ IsOpcua(call) => calls'[c].before = open
          /\ call.tool = "opcua_read" => calls'[c].held = {values[call.arg]}
          /\ \A e \in Clients \ {c} : Changes(e, {"alone"})
      BY <1>0, <3>a, SendStep
    <3>3. IsOpcua(call) /\ ~Overlaps(c, call)
      BY <3>1, <3>2 DEF Lone, OpcuaBusy, IsOpcua
    <3>4. \A e \in Clients \ {c} : ~OpcuaBusy(e)'
      <4> TAKE e \in Clients \ {c}
      <4>1. calls'[e].stage = calls[e].stage /\ calls'[e].call = calls[e].call
        BY <3>2 DEF Changes, RequestFields
      <4> QED  BY <3>3, <4>1 DEF Overlaps, OpcuaBusy, Busy, IsOpcua
    <3>5. call.tool = "opcua_read" => call.arg \in Nodes
      BY <1>0, <2>1, <2>3, ReadsNodes
    <3>6. calls'[c].call.tool = "opcua_read" => ReadInv(c)'
      BY <2>2, <3>2, <3>5 DEF ReadInv
    <3> QED  BY <2>2, <3>2, <3>3, <3>4, <3>6 DEF LoneInv
  <2>4. CASE d # c
    <3>1. SUFFICES ASSUME Lone(c)' PROVE LoneInv(c)'
      BY DEF LoneInv
    <3>a. calls'[d].call = call
      BY <1>0, <2>1, SendStep
    <3>b. \A e \in Clients \ {d} : Changes(e, {"alone"})
      BY <1>0, <2>1, SendStep
    <3>c. IsOpcua(call) /\ Busy(c) /\ IsOpcua(calls[c].call) => ~calls'[c].alone
      BY <1>0, <2>1, <2>4, SendStep
    <3>d. ~IsOpcua(call) => calls'[c] = calls[c]
      <4>1. ASSUME ~IsOpcua(call) PROVE OthersStay(d)
        BY <1>0, <2>1, <4>1, SendStep
      <4> QED  BY <2>4, <4>1 DEF OthersStay
    <3>2. /\ Changes(c, {"alone"})
          /\ IsOpcua(call) /\ Busy(c) /\ IsOpcua(calls[c].call) => ~calls'[c].alone
          /\ ~IsOpcua(call) => calls'[c].alone = calls[c].alone
          /\ \A e \in Clients \ {d} : Changes(e, {"alone"})
          /\ calls'[d].call = call
      BY <2>4, <3>a, <3>b, <3>c, <3>d
    <3>3. \A f \in {"stage", "call", "before", "held", "response", "error"} :
             calls'[c][f] = calls[c][f]
      BY <3>2 DEF Changes, RequestFields
    <3>4. OpcuaBusy(c)
      BY <3>1, <3>3 DEF Lone, OpcuaBusy, Busy, IsOpcua
    <3>5. ~IsOpcua(call) /\ calls'[c].alone = calls[c].alone
      BY <3>1, <3>2, <3>4 DEF Lone, OpcuaBusy
    <3>6. \A e \in Clients \ {c} : OpcuaBusy(e)' => OpcuaBusy(e)
      <4> TAKE e \in Clients \ {c}
      <4>1. CASE e = d
        BY <3>2, <3>5, <4>1 DEF OpcuaBusy, IsOpcua
      <4>2. CASE e # d
        <5>1. calls'[e].stage = calls[e].stage /\ calls'[e].call = calls[e].call
          BY <3>2, <4>2 DEF Changes, RequestFields
        <5> QED  BY <5>1 DEF OpcuaBusy, Busy, IsOpcua
      <4> QED  BY <4>1, <4>2
    <3>7. \A f \in {"stage", "call", "alone", "before", "held", "response", "error"} :
             calls'[c][f] = calls[c][f]
      BY <3>3, <3>5
    <3> QED  BY <1>0, <2>2, <3>6, <3>7, LoneKept
  <2> QED  BY <2>3, <2>4
<1>2. ASSUME UNCHANGED <<calls, session, open, values>> PROVE LoneInv(c)'
  <2>1. \A d \in Clients \ {c} : OpcuaBusy(d)' => OpcuaBusy(d)
    BY <1>2 DEF OpcuaBusy, Busy, IsOpcua
  <2> QED  BY <1>0, <1>2, <2>1, LoneKept
<1>3. ASSUME NEW d \in Clients \ {c}, OthersStay(d), UNCHANGED <<session, open, values>>,
             OpcuaBusy(d)' => OpcuaBusy(d)
      PROVE  LoneInv(c)'
  <2>1. \A e \in Clients \ {d} : calls'[e] = calls[e]
    BY <1>3 DEF OthersStay
  <2>2. \A e \in Clients \ {c} : OpcuaBusy(e)' => OpcuaBusy(e)
    BY <1>3, <2>1 DEF OpcuaBusy, Busy, IsOpcua
  <2> QED  BY <1>0, <1>3, <2>1, <2>2, LoneKept
<1>4. ASSUME NEW d \in Clients, Receive(d) \/ Serve(d) PROVE LoneInv(c)'
  <2>a. UNCHANGED <<session, open, values>>
    BY <1>4 DEF Receive, Serve, liveVars
  <2>b. ASSUME Receive(d) PROVE OthersStay(d) /\ calls'[d].stage = "idle"
    <3>1. OthersStay(d) /\ calls'[d] = IdleRequest
      BY <1>0, <2>b, ReceiveStep
    <3> QED  BY <3>1 DEF IdleRequest
  <2>c. ASSUME Serve(d) PROVE OthersStay(d) /\ calls'[d].stage = "answered"
    BY <1>0, <2>c, ServeStep
  <2>1. /\ OthersStay(d) /\ calls'[d].stage \in {"idle", "answered"}
        /\ UNCHANGED <<session, open, values>>
    BY <1>4, <2>a, <2>b, <2>c
  <2>2. ~OpcuaBusy(d)'
    BY <2>1 DEF OpcuaBusy, Busy
  <2>3. CASE d = c
    BY <2>2, <2>3 DEF LoneInv, Lone
  <2>4. CASE d # c
    BY <1>3, <2>1, <2>2, <2>4
  <2> QED  BY <2>3, <2>4
<1>5. ASSUME NEW d \in Clients \ {c}, Connect(d) \/ Operate(d) \/ Disconnect(d)
      PROVE  LoneInv(c)'
  <2>1. OpcuaBusy(d) /\ OthersStay(d)
    BY <1>0, <1>5, ConnectStep, OperateStep, DisconnectStep
       DEF OpcuaBusy, Busy, ClientInv
  <2>2. ~Lone(c)
    BY <1>0, <2>1 DEF LoneInv
  <2>3. calls'[c] = calls[c]
    BY <2>1 DEF OthersStay
  <2> QED  BY <2>2, <2>3 DEF LoneInv, Lone, OpcuaBusy, Busy, IsOpcua
<1>6. ASSUME Connect(c) \/ Operate(c) PROVE LoneInv(c)'
  <2>1. SUFFICES ASSUME Lone(c)' PROVE LoneInv(c)'
    BY DEF LoneInv
  <2>2. /\ OthersStay(c) /\ Changes(c, {"stage", "response", "error"})
        /\ calls[c].stage \in {"requested", "connected"}
    BY <1>0, <1>6, ConnectStep, OperateStep DEF Changes
  <2>3. \A f \in {"call", "alone", "before", "held"} : calls'[c][f] = calls[c][f]
    BY <2>2 DEF Changes, RequestFields
  <2>4. Lone(c)
    BY <2>1, <2>2, <2>3 DEF Lone, OpcuaBusy, Busy, IsOpcua
  <2>5. \A d \in Clients \ {c} : ~OpcuaBusy(d)'
    <3>1. \A d \in Clients \ {c} : ~OpcuaBusy(d) /\ calls'[d] = calls[d]
      BY <1>0, <2>2, <2>4 DEF LoneInv, OthersStay
    <3> QED  BY <3>1 DEF OpcuaBusy, Busy, IsOpcua
  <2>6. UNCHANGED values
    BY <1>6 DEF Connect, Operate, liveVars
  <2>7. calls[c].call.tool = "opcua_read" => ReadInv(c)
    BY <1>0, <2>4 DEF LoneInv
  <2>8. CASE Connect(c)
    <3>1. calls[c].stage = "requested" /\ calls'[c].stage = "connected" /\ open = calls[c].before
      BY <1>0, <2>4, <2>8, ConnectStep DEF LoneInv
    <3>2. session' = opened + 1 /\ open' = open \cup {opened + 1} /\ opened + 1 \notin open
      BY <1>0, <2>8 DEF Connect, ConnectionInv
    <3>3. calls'[c].call.tool = "opcua_read" => ReadInv(c)'
      BY <2>3, <2>6, <2>7, <3>1 DEF ReadInv
    <3> QED  BY <2>3, <2>5, <3>1, <3>2, <3>3 DEF LoneInv
  <2>9. CASE Operate(c)
    <3>1. calls[c].stage = "connected" /\ calls'[c].stage = "operated"
      BY <1>0, <2>9, OperateStep
    <3>2. session \notin calls[c].before /\ open = calls[c].before \cup {session}
      BY <1>0, <2>4, <3>1 DEF LoneInv
    <3>3. /\ calls'[c].response = OpcuaAnswer(calls[c].call) /\ ~calls'[c].error
          /\ UNCHANGED <<session, open>>
      BY <1>0, <2>9, <3>2, OperateStep DEF Operate
    <3>4. ASSUME calls'[c].call.tool = "opcua_read" PROVE ReadInv(c)'
      <4>1. ReadInv(c) /\ calls[c].call.tool = "opcua_read"
        BY <2>3, <2>7, <3>4
      <4>2. calls'[c].response.numbers
              = {LiveReading(Named[calls[c].call.arg], values[calls[c].call.arg])}
        BY <3>3, <4>1 DEF OpcuaAnswer, OpcuaRead, Nothing
      <4> QED  BY <2>3, <2>6, <4>1, <4>2 DEF ReadInv, LiveReading
    <3> QED  BY <2>3, <2>5, <3>1, <3>2, <3>3, <3>4 DEF LoneInv
  <2> QED  BY <1>6, <2>8, <2>9
<1>7. ASSUME Disconnect(c) PROVE LoneInv(c)'
  BY <1>0, <1>7, DisconnectStep DEF LoneInv, Lone, OpcuaBusy, Busy
<1>8. ASSUME SyncNode PROVE LoneInv(c)'
  <2>1. \A d \in Clients : /\ Changes(d, {"held"})
                           /\ calls'[d].held =
                                IF Busy(d) /\ calls[d].call.tool = "opcua_read"
                                   /\ calls[d].call.arg = Head(todo)
                                THEN calls[d].held \cup {sample} ELSE calls[d].held
    BY <1>0, <1>8, SyncStep
  <2>2. \A d \in Clients : \A f \in RequestFields \ {"held"} : calls'[d][f] = calls[d][f]
    BY <2>1 DEF Changes
  <2>3. \A d \in Clients : OpcuaBusy(d)' = OpcuaBusy(d)
    <3>1. \A d \in Clients : calls'[d].stage = calls[d].stage /\ calls'[d].call = calls[d].call
      BY <2>2 DEF RequestFields
    <3> QED  BY <3>1 DEF OpcuaBusy, Busy, IsOpcua
  <2>4. /\ UNCHANGED <<session, open>>
        /\ values' = [values EXCEPT ![Head(todo)] = sample]
        /\ values \in [Nodes -> 0..sample]
    BY <1>8 DEF SyncNode, TypeInv, LiveInv
  <2>5. /\ calls'[c].stage = calls[c].stage /\ calls'[c].call = calls[c].call
        /\ calls'[c].alone = calls[c].alone /\ calls'[c].before = calls[c].before
        /\ calls'[c].response = calls[c].response /\ calls'[c].error = calls[c].error
    BY <2>2 DEF RequestFields
  <2>6. SUFFICES ASSUME Lone(c)' PROVE LoneInv(c)'
    BY DEF LoneInv
  <2>7. Lone(c)
    BY <2>3, <2>5, <2>6 DEF Lone
  <2>8. ASSUME calls'[c].call.tool = "opcua_read" PROVE ReadInv(c)'
    <3>1. ReadInv(c) /\ calls[c].call.arg \in Nodes
      BY <1>0, <2>5, <2>7, <2>8 DEF LoneInv, ReadInv
    <3>2. values'[calls[c].call.arg] \in calls'[c].held
      <4>1. CASE calls[c].call.arg = Head(todo)
        <5>1. Busy(c)
          BY <2>7 DEF Lone, OpcuaBusy
        <5>2. sample \in calls'[c].held
          BY <2>1, <2>5, <2>8, <4>1, <5>1
        <5>3. values'[calls[c].call.arg] = sample
          BY <2>4, <3>1, <4>1
        <5> QED  BY <5>2, <5>3
      <4>2. CASE calls[c].call.arg # Head(todo)
        <5>1. calls'[c].held = calls[c].held
          BY <2>1, <4>2
        <5>2. values'[calls[c].call.arg] = values[calls[c].call.arg]
          BY <2>4, <3>1, <4>2
        <5> QED  BY <3>1, <5>1, <5>2 DEF ReadInv
      <4> QED  BY <4>1, <4>2
    <3>3. calls[c].held \subseteq calls'[c].held
      BY <2>1
    <3> QED  BY <2>5, <3>1, <3>2, <3>3 DEF ReadInv, LiveReading
  <2> QED  BY <1>0, <2>3, <2>4, <2>5, <2>7, <2>8 DEF LoneInv
<1>9. ASSUME WorldStep \/ UNCHANGED vars \/ \E d \in Clients : Conclude(d) PROVE LoneInv(c)'
  BY <1>2, <1>8, <1>9 DEF WorldStep, StepSimulator, OtherPreparation, vars, gatewayVars,
     liveVars, Conclude
<1>10. ASSUME NEW d \in Clients, GatewayStep(d) PROVE LoneInv(c)'
  BY <1>4, <1>5, <1>6, <1>7, <1>10 DEF GatewayStep
<1> QED
  BY <1>1, <1>4, <1>9, <1>10 DEF Next, AgentStep

(* Whatever the other clients do before and after it, an OPC UA request    *)
(* that no other overlaps is answered, with what its node held meanwhile,  *)
(* and closes the connection it made.                                      *)
THEOREM LoneCallsAnswered == Spec => LoneCallsSucceed
<1> DEFINE Inv == TypeInv /\ \A c \in Clients : LoneInv(c)
           Succeeds(c) ==
             calls[c].stage = "operated" /\ calls'[c].stage = "answered" /\ calls[c].alone =>
               /\ ~calls'[c].error /\ open' = calls[c].before
               /\ calls[c].call.tool = "opcua_read" =>
                    calls'[c].response.numbers \subseteq
                       {LiveReading(Named[calls[c].call.arg], s) : s \in calls[c].held}
<1>1. Init => Inv
  <2> SUFFICES ASSUME Init PROVE Inv
    OBVIOUS
  <2>1. \A c \in Clients : calls[c].stage = "idle"
    BY DEF Init, GatewayInit, IdleRequest
  <2> QED  BY <2>1, TypeInductive DEF LoneInv, Lone, OpcuaBusy, Busy
<1>2. Inv /\ [Next]_vars => Inv'
  BY TypeInductive, NextLoneInv
<1>3. ASSUME Inv, [Next]_vars, NEW c \in Clients PROVE Succeeds(c)
  <2>1. SUFFICES ASSUME calls[c].stage = "operated", calls'[c].stage = "answered",
                        calls[c].alone
                 PROVE  /\ ~calls'[c].error /\ open' = calls[c].before
                        /\ calls[c].call.tool = "opcua_read" =>
                             calls'[c].response.numbers \subseteq
                               {LiveReading(Named[calls[c].call.arg], s) : s \in calls[c].held}
    OBVIOUS
  <2>2. Lone(c) /\ LoneInv(c) /\ Fields
    BY <1>3, <2>1 DEF TypeInv, ClientInv, Lone, OpcuaBusy, Busy
  <2>3. /\ session \notin calls[c].before /\ open = calls[c].before \cup {session}
        /\ ~calls[c].error
        /\ calls[c].call.tool = "opcua_read" => ReadInv(c)
    BY <2>1, <2>2 DEF LoneInv
  <2>4. Disconnect(c)
    <3>1. ASSUME NEW d \in Clients, Ask(d) PROVE calls'[c].stage = calls[c].stage
      <4>1. PICK call : Send(d, call)
        BY <3>1 DEF Ask
      <4>2. d # c /\ Changes(c, {"alone"})
        BY <2>1, <2>2, <4>1, SendStep
      <4> QED  BY <4>2 DEF Changes, RequestFields
    <3>2. ASSUME NEW d \in Clients, Receive(d) \/ (GatewayStep(d) /\ d # c) \/ Serve(c)
                    \/ Connect(c) \/ Operate(c)
          PROVE  calls'[c].stage = calls[c].stage
      BY <2>1, <2>2, <3>2, ReceiveStep, ServeStep, ConnectStep, OperateStep, DisconnectStep
         DEF GatewayStep, OthersStay
    <3>3. SyncNode => calls'[c].stage = calls[c].stage
      BY <2>2, SyncStep DEF Changes, RequestFields
    <3>4. UNCHANGED vars \/ StepSimulator \/ (\E i \in DOMAIN StoreOrder : OtherPreparation(i))
            \/ (\E d \in Clients : Conclude(d))
          => calls'[c].stage = calls[c].stage
      BY DEF vars, gatewayVars, StepSimulator, OtherPreparation, Conclude
    <3> QED
      BY <1>3, <2>1, <3>1, <3>2, <3>3, <3>4 DEF Next, AgentStep, GatewayStep, WorldStep
  <2>5. /\ calls'[c].response = calls[c].response
        /\ ~calls'[c].error
    BY <2>2, <2>3, <2>4, DisconnectStep DEF Changes, RequestFields
  <2>6. open' = calls[c].before
    BY <2>3, <2>4 DEF Disconnect
  <2> QED  BY <2>1, <2>3, <2>5, <2>6 DEF ReadInv
<1>4. Inv /\ [Next]_vars => [\A c \in Clients : Succeeds(c)]_vars
  BY <1>3
<1> QED  BY <1>1, <1>2, <1>4, PTL DEF Spec, LoneCallsSucceed
-----------------------------------------------------------------------------
(***************************************************************************)
(* A relationship that is answered is at least as young as the graph that  *)
(* the request found: the graph is never replaced by an older one.         *)
(***************************************************************************)
GraphInv(c) ==
    /\ calls[c].graph \in Nat /\ 1 <= calls[c].graph /\ calls[c].graph <= stores.graph
    /\ calls[c].stage = "answered" /\ ~calls[c].error
         /\ calls[c].call.tool \in RelationshipTools =>
         calls[c].response.edge = 0 \/ calls[c].graph <= calls[c].response.edge

(* What the Gateway answers to a request for relationships.                *)
LEMMA EdgeOfAnswer ==
  ASSUME NEW call, call.tool \in RelationshipTools, NEW r \in Answers(call)
  PROVE  r.edge = 0 \/ r.edge = stores.graph
<1>1. call.tool = "get_entity_relationships"
  BY DEF RelationshipTools
<1>2. ~(~Accepts(call) \/ (call.tool \in ToolNamesOf.i3x /\ ~I3xUp))
  BY DEF Answers
<1>3. r = EntityRelationships(call.arg)
  <2>1. Answers(call) = {EntityRelationships(call.arg)}
    BY <1>1, <1>2 DEF Answers, ToolNamesOf
  <2> QED  BY <2>1
<1> QED  BY <1>3 DEF EntityRelationships, Nothing

(* GraphInv is inductive.                                                  *)
LEMMA NextGraphInv ==
  ASSUME TypeInv, [Next]_vars, NEW c \in Clients, GraphInv(c)
  PROVE  GraphInv(c)'
<1>1. Fields /\ ClientInv(c) /\ StoreInv
  BY DEF TypeInv
<1>2. stores.graph \in Nat /\ stores'.graph \in Nat /\ stores.graph <= stores'.graph
      /\ 1 <= stores'.graph
  <2>1. StoreInv' /\ stores["graph"] <= stores'["graph"]
    BY <1>1, NextStoreInv DEF Stores
  <2>2. MaxGenerations["graph"] \in Nat
    BY GatewayAssumption
  <2> QED  BY <1>1, <2>1, <2>2 DEF StoreInv, Stores
<1>3. ASSUME \A f \in {"stage", "call", "response", "error", "graph"} :
                calls'[c][f] = calls[c][f]
      PROVE  GraphInv(c)'
  <2>1. /\ calls'[c].stage = calls[c].stage /\ calls'[c].call = calls[c].call
        /\ calls'[c].response = calls[c].response /\ calls'[c].error = calls[c].error
        /\ calls'[c].graph = calls[c].graph
    BY <1>3
  <2> QED  BY <1>2, <2>1 DEF GraphInv
<1>4. ASSUME NEW d \in Clients, Ask(d) PROVE GraphInv(c)'
  <2>1. PICK call : Send(d, call)
    BY <1>4 DEF Ask
  <2>2. CASE d = c
    <3>1. Send(c, call)
      BY <2>1, <2>2
    <3>2. calls'[c].stage = "requested"
      BY <1>1, <3>1, SendStep
    <3>3. calls'[c].graph = stores.graph \/ calls'[c].graph = 1
      BY <1>1, <3>1, SendStep
    <3>4. 1 <= stores.graph
      BY <1>2 DEF GraphInv
    <3> QED  BY <1>2, <3>2, <3>3, <3>4 DEF GraphInv
  <2>3. CASE d # c
    <3>1. Changes(c, {"alone"})
      BY <1>1, <2>1, <2>3, SendStep
    <3> QED  BY <1>3, <3>1 DEF Changes, RequestFields
  <2> QED  BY <2>2, <2>3
<1>5. ASSUME NEW d \in Clients \ {c}, OthersStay(d) PROVE GraphInv(c)'
  BY <1>3, <1>5 DEF OthersStay
<1>6. ASSUME NEW d \in Clients, Receive(d) PROVE GraphInv(c)'
  <2>1. OthersStay(d) /\ calls'[d] = IdleRequest
    BY <1>1, <1>6, ReceiveStep
  <2>2. CASE d = c
    <3>1. calls'[c].stage = "idle" /\ calls'[c].graph = 1
      BY <2>1, <2>2 DEF IdleRequest
    <3> QED  BY <1>2, <3>1 DEF GraphInv
  <2> QED  BY <1>5, <2>1, <2>2
<1>7. ASSUME Serve(c) PROVE GraphInv(c)'
  <2>1. /\ Changes(c, {"stage", "response", "error"})
        /\ calls'[c].error \/ calls'[c].response \in Answers(calls[c].call)
    BY <1>1, <1>7, ServeStep
  <2>2. calls'[c].call = calls[c].call /\ calls'[c].graph = calls[c].graph
    BY <2>1 DEF Changes, RequestFields
  <2>3. ~calls'[c].error /\ calls[c].call.tool \in RelationshipTools =>
           calls'[c].response.edge = 0 \/ calls'[c].response.edge = stores.graph
    BY <2>1, EdgeOfAnswer
  <2> QED  BY <1>2, <2>2, <2>3 DEF GraphInv
<1>8. ASSUME Connect(c) \/ Operate(c) \/ Disconnect(c) PROVE GraphInv(c)'
  <2>1. Changes(c, {"stage", "response", "error"}) /\ IsOpcua(calls[c].call)
    BY <1>1, <1>8, ConnectStep, OperateStep, DisconnectStep DEF Changes, ClientInv
  <2>2. calls'[c].call = calls[c].call /\ calls'[c].graph = calls[c].graph
    BY <2>1 DEF Changes, RequestFields
  <2>3. calls[c].call.tool \notin RelationshipTools
    BY <2>1 DEF IsOpcua, ToolNamesOf, RelationshipTools
  <2> QED  BY <1>2, <2>2, <2>3 DEF GraphInv
<1>9. ASSUME NEW d \in Clients, GatewayStep(d) PROVE GraphInv(c)'
  <2>1. OthersStay(d)
    BY <1>1, <1>9, ServeStep, ConnectStep, OperateStep, DisconnectStep DEF GatewayStep
  <2> QED  BY <1>5, <1>7, <1>8, <1>9, <2>1 DEF GatewayStep
<1>10. ASSUME SyncNode PROVE GraphInv(c)'
  <2>1. Changes(c, {"held"})
    BY <1>1, <1>10, SyncStep
  <2> QED  BY <1>3, <2>1 DEF Changes, RequestFields
<1>11. ASSUME UNCHANGED calls PROVE GraphInv(c)'
  BY <1>3, <1>11
<1>12. ASSUME NEW d \in Clients, Conclude(d) PROVE UNCHANGED calls
  BY <1>12 DEF Conclude, gatewayVars
<1> QED
  BY <1>4, <1>6, <1>9, <1>10, <1>11, <1>12
     DEF Next, AgentStep, WorldStep, StepSimulator, OtherPreparation, vars, gatewayVars

(* An event that confirms nothing leaves a trace unconfirmed.              *)
LEMMA UnconfirmedAppend ==
  ASSUME NEW t, IsSequence(t), NEW e, ~RelationshipConfirmed(t, Own),
         e.tool \in RelationshipTools => e.response.edge # Own
  PROVE  ~RelationshipConfirmed(Append(t, e), Own)
<1> DEFINE u == Append(t, e)
<1>1. /\ Len(t) \in Nat /\ DOMAIN t = 1..Len(t) /\ DOMAIN u = 1..(Len(t) + 1)
      /\ \A i \in 1..Len(t) : u[i] = t[i]
      /\ u[Len(t) + 1] = e
  BY AppendEvent
<1> HIDE DEF u
<1>2. \A i \in DOMAIN t : t[i].tool \in RelationshipTools => t[i].response.edge # Own
  BY DEF RelationshipConfirmed, Events
<1>3. \A i \in DOMAIN u : u[i].tool \in RelationshipTools => u[i].response.edge # Own
  BY <1>1, <1>2
<1>4. ~RelationshipConfirmed(u, Own)
  BY <1>3 DEF RelationshipConfirmed, Events
<1> QED  BY <1>4 DEF u

(* However many preparations follow one another, and whenever each of them *)
(* reaches the graph: a request that came once the graph was another's     *)
(* confirms no relationship of the run's own preparation.                  *)
THEOREM LateAnswersConfirmNothing == Spec => NoLateConfirmation
<1> DEFINE Inv == Shape /\ TypeInv /\ \A c \in Clients : GraphInv(c)
           NoneConfirmed(c) == calls[c].graph # Own /\ ~Confirmed(c) => ~Confirmed(c)'
<1>1. Init => Inv
  <2> SUFFICES ASSUME Init PROVE Inv
    OBVIOUS
  <2>1. ASSUME NEW c \in Clients PROVE GraphInv(c)
    <3>1. calls[c].stage = "idle" /\ calls[c].graph = 1 /\ stores.graph = 1
      BY DEF Init, GatewayInit, IdleRequest
    <3> QED  BY <3>1 DEF GraphInv
  <2> QED  BY <2>1, TypeInductive, ShapeInductive
<1>2. Inv /\ [Next]_vars => Inv'
  BY TypeInductive, ShapeInductive, NextGraphInv
<1>3. ASSUME Inv, [Next]_vars, NEW c \in Clients, calls[c].graph # Own, ~Confirmed(c)
      PROVE  ~Confirmed(c)'
  <2>1. IsSequence(runs[c].trace) /\ GraphInv(c)
    BY <1>3 DEF Shape
  <2>2. CASE runs'[c].trace = runs[c].trace
    BY <1>3, <2>2 DEF Confirmed
  <2>3. ASSUME NEW e, e.tool = calls[c].call.tool, e.response = calls[c].response,
               calls[c].stage = "answered", ~calls[c].error,
               runs'[c].trace = Append(runs[c].trace, e)
        PROVE  ~Confirmed(c)'
    <3>1. e.tool \in RelationshipTools => e.response.edge # Own
      BY <1>3, <2>1, <2>3 DEF GraphInv, Own
    <3>2. ~RelationshipConfirmed(Append(runs[c].trace, e), Own)
      BY <1>3, <2>1, <3>1, UnconfirmedAppend DEF Confirmed
    <3> QED  BY <2>3, <3>2 DEF Confirmed
  <2> QED  BY <1>3, <2>2, <2>3, TraceStep
<1>4. Inv /\ [Next]_vars => [\A c \in Clients : NoneConfirmed(c)]_vars
  BY <1>3
<1> QED  BY <1>1, <1>2, <1>4, PTL DEF Spec, NoLateConfirmation
=============================================================================
