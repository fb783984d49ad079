---------------------------- MODULE AgentGateway ----------------------------
(***************************************************************************)
(* The Agent Gateway (src/icab/gateway): what each tool answers from which *)
(* backend, over a cut of the plant with one equipment and two             *)
(* measurements, and the OPC UA client that all requests share             *)
(* (context/opcua/client.py).  Around it the backends move: the OPC UA     *)
(* server is rewritten node by node from a live simulator                  *)
(* (context/opcua/tep_server.py) and another preparation replaces what the *)
(* graph, the historian and the broker hold, one after the other.          *)
(*                                                                         *)
(* The i3X wrapper, the asyncua sessions and the broker are external.      *)
(***************************************************************************)
EXTENDS Naturals, FiniteSets, Sequences, SequencesExt

CONSTANTS
    Clients,           \* agents that call the Gateway
    I3xUp,             \* the i3X server answered when the Gateway started
    MaxSamples,        \* bound: steps of the live simulator
    MaxGenerations     \* bound: store -> the preparations that reach it

ASSUME GatewayAssumption ==
    /\ MaxSamples \in Nat
    /\ \A store \in {"graph", "historian", "mqtt"} : MaxGenerations[store] \in Nat \ {0}

VARIABLES
    stores,            \* store -> the generation that wrote it last
    values,            \* OPC UA variable -> the sample it holds
    sample, todo,      \* the live simulator, and what its sync has to write
    session, open,     \* the shared client's connection; those open at the server
    opened,            \* connections made so far
    calls              \* client -> its request in progress

gatewayVars == <<stores, values, sample, todo, session, open, opened, calls>>
liveVars == <<values, sample, todo>>

Reals == {"pressure", "level"}           \* of the simulator
Measurements == Reals \cup {"legacy"}    \* and of the static prototype
CanonicalIds == Measurements \cup {"reactor", "valve"}

(* Numbers, far enough apart to be told from each other at 2%.             *)
Reading(m, generation) == (IF m = "pressure" THEN 2700 ELSE 70) + 100 * generation
LiveReading(m, s) == (IF m = "pressure" THEN 5000 ELSE 500) + 200 * s

(* The UNS tree: the prototype's path and the simulator's.                 *)
UNSChildren == [path_reactor |-> {"pressure", "level", "valve"},
                path_legacy  |-> {"legacy"}]

(* The address space of TEPOPCUAServer, the display name being the         *)
(* measurement's, and the same names behind the i3X elements and topics.   *)
NodeChildren == [node_root    |-> {"node_reactor"},
                 node_reactor |-> {"node_pressure", "node_level"}]
VariableNodes == <<"node_pressure", "node_level">>
Named == [node_pressure |-> "pressure", node_level |-> "level",
          element_pressure |-> "pressure", topic_pressure |-> "pressure"]
-----------------------------------------------------------------------------
(* agent/llm/tools.py: the tools of an architecture, the parameter the     *)
(* Gateway's request models know and the method of its route; anything     *)
(* else is rejected.                                                       *)
ToolNamesOf ==
    [historian       |-> {"get_current_value", "get_historical_values"},
     knowledge_graph |-> {"get_entity_relationships"},
     uns             |-> {"browse_uns"},
     opcua           |-> {"opcua_browse", "opcua_read"},
     mqtt            |-> {"browse_mqtt", "read_mqtt"},
     i3x             |-> {"i3x_get_objects", "i3x_get_object", "i3x_get_related_objects",
                          "i3x_get_value", "i3x_get_history"}]

ToolsForArchitectures(architectures) == UNION {ToolNamesOf[a] : a \in architectures}

ArchitectureOf(tool) == CHOOSE a \in DOMAIN ToolNamesOf : tool \in ToolNamesOf[a]

ParameterOf ==
    [get_current_value |-> "measurement_id", get_historical_values |-> "measurement_id",
     get_entity_relationships |-> "canonical_id", browse_uns |-> "path",
     opcua_browse |-> "node_id", opcua_read |-> "node_id",
     browse_mqtt |-> "topic_filter", read_mqtt |-> "topic",
     i3x_get_objects |-> "none", i3x_get_object |-> "element_id",
     i3x_get_related_objects |-> "element_ids", i3x_get_value |-> "element_id",
     i3x_get_history |-> "element_id"]

MethodOf(tool) == IF tool \in ToolNamesOf.i3x THEN "GET" ELSE "POST"

(* A call as the route of its tool wants it.                               *)
Call(tool, arg) == [tool |-> tool, method |-> MethodOf(tool),
                    key |-> ParameterOf[tool], arg |-> arg]

Accepts(call) == call.method = MethodOf(call.tool) /\ call.key = ParameterOf[call.tool]

IsOpcua(call) == call.tool \in ToolNamesOf.opcua

(* A response, by what an evaluation can find in it: measurement ids that  *)
(* carry an observation, things that are named, numbers, and the           *)
(* generation of the MONITORS relationship of the reactor, 0 if not there. *)
Nothing == [ids |-> {}, named |-> {}, numbers |-> {}, edge |-> 0]

CurrentValue(m) ==
    IF m \in Reals THEN [Nothing EXCEPT !.ids = {m}, !.numbers = {Reading(m, stores.historian)}]
    ELSE Nothing

HistoricalValues(m) ==
    IF m \in Reals
    THEN [Nothing EXCEPT !.ids = {m}, !.numbers = {Reading(m, g) : g \in 1..stores.historian}]
    ELSE Nothing

EntityRelationships(e) ==
    IF e \in {"reactor", "pressure"}
    THEN [Nothing EXCEPT !.named = {"pressure"}, !.edge = stores.graph]
    ELSE Nothing

BrowseUNS(path) == [Nothing EXCEPT !.named = UNSChildren[path]]

(* A retained message arrives within the timeout or is missed.             *)
Retained(topic) ==
    {Nothing, [Nothing EXCEPT !.ids = {Named[topic]}, !.named = {topic},
                              !.numbers = {Reading(Named[topic], stores.mqtt)}]}

I3xObjects == [Nothing EXCEPT !.named = {"element_reactor"}]
I3xRelated == [Nothing EXCEPT !.named = {"element_pressure"}]
I3xValue(element) ==
    [Nothing EXCEPT !.named = {element},
                    !.numbers = {LiveReading("pressure", values["node_pressure"])}]

OpcuaBrowse(node) == [Nothing EXCEPT !.named = NodeChildren[node]]
OpcuaRead(node) == [Nothing EXCEPT !.named = {node},
                                   !.numbers = {LiveReading(Named[node], values[node])}]

(* What the handler of a tool may answer; no answer at all is an error.    *)
Answers(call) ==
    IF ~Accepts(call) \/ (call.tool \in ToolNamesOf.i3x /\ ~I3xUp) THEN {}
    ELSE CASE call.tool = "get_current_value"        -> {CurrentValue(call.arg)}
           [] call.tool = "get_historical_values"    -> {HistoricalValues(call.arg)}
           [] call.tool = "get_entity_relationships" -> {EntityRelationships(call.arg)}
           [] call.tool = "browse_uns"               -> {BrowseUNS(call.arg)}
           [] call.tool \in ToolNamesOf.mqtt         -> Retained(call.arg)
           [] call.tool = "i3x_get_related_objects"  -> {I3xRelated}
           [] call.tool \in {"i3x_get_objects", "i3x_get_object"} -> {I3xObjects}
           [] call.tool \in {"i3x_get_value", "i3x_get_history"}  -> {I3xValue(call.arg)}
-----------------------------------------------------------------------------
NoCall == Call("i3x_get_objects", "none")

(* A request: `alone` until another OPC UA request overlaps it, `before`   *)
(* the connections that were open when it came, `held` what its node held  *)
(* since, `graph` the generation a graph query could see when it came.     *)
IdleRequest == [stage |-> "idle", call |-> NoCall, response |-> Nothing, error |-> FALSE,
                alone |-> TRUE, before |-> {}, held |-> {}, graph |-> 1]

Busy(c) == calls[c].stage \notin {"idle", "answered"}

GatewayInit ==
    /\ stores = [historian |-> 1, graph |-> 1, mqtt |-> 1]
    /\ values = [n \in ToSet(VariableNodes) |-> 0]
    /\ sample = 0 /\ todo = <<>>
    /\ session = 0 /\ open = {} /\ opened = 0
    /\ calls = [c \in Clients |-> IdleRequest]

(* The client posts a request; the Gateway handles requests concurrently.  *)
Send(c, call) ==
    LET others == {d \in Clients \ {c} : Busy(d) /\ IsOpcua(calls[d].call)}
        shared == IsOpcua(call) /\ others # {}
    IN  /\ calls[c].stage = "idle"
        /\ calls' = [d \in Clients |->
              IF d = c
              THEN [IdleRequest EXCEPT !.stage = "requested", !.call = call,
                       !.alone = ~shared, !.before = IF IsOpcua(call) THEN open ELSE {},
                       !.graph = IF call.tool \in ToolNamesOf.knowledge_graph
                                 THEN stores.graph ELSE @,
                       !.held = IF call.tool = "opcua_read" THEN {values[call.arg]} ELSE {}]
              ELSE IF shared /\ d \in others THEN [calls[d] EXCEPT !.alone = FALSE]
              ELSE calls[d]]
        /\ UNCHANGED <<stores, liveVars, session, open, opened>>

Answered(c, responses) ==
    \/ \E r \in responses :
          calls' = [calls EXCEPT ![c].stage = "answered", ![c].response = r]
    \/ responses = {}
       /\ calls' = [calls EXCEPT ![c].stage = "answered", ![c].error = TRUE]

(* The handlers that make one call to one backend, and may find it broken; *)
(* an OPC UA request whose connect raises ends like that too.              *)
Serve(c) ==
    /\ calls[c].stage = "requested"
    /\ \/ ~IsOpcua(calls[c].call) /\ Answered(c, Answers(calls[c].call))
       \/ Answered(c, {})
    /\ UNCHANGED <<stores, liveVars, session, open, opened>>

(* OPCUAClient.browse and read: connect, operate, finally disconnect, with *)
(* an await at each.  The one client object knows one connection: a second *)
(* connect replaces the first, which nobody closes any more.               *)
Connect(c) ==
    /\ calls[c].stage = "requested" /\ IsOpcua(calls[c].call)
    /\ opened' = opened + 1
    /\ session' = opened'
    /\ open' = open \cup {opened'}
    /\ calls' = [calls EXCEPT ![c].stage = "connected"]
    /\ UNCHANGED <<stores, liveVars>>

OpcuaAnswer(call) ==
    IF call.tool = "opcua_browse" THEN OpcuaBrowse(call.arg) ELSE OpcuaRead(call.arg)

(* Variant with a plausible bug: an operation whose connection is closed   *)
(* waits for it.                                                           *)
OperateWaits(c) ==
    /\ calls[c].stage = "connected" /\ session \in open
    /\ calls' = [calls EXCEPT ![c].stage = "operated",
                    ![c].response = OpcuaAnswer(calls[c].call)]
    /\ UNCHANGED <<stores, liveVars, session, open, opened>>

Operate(c) ==
    /\ calls[c].stage = "connected"
    /\ calls' = [calls EXCEPT ![c].stage = "operated",
                    ![c].response = IF session \in open THEN OpcuaAnswer(calls[c].call) ELSE @,
                    ![c].error = session \notin open]
    /\ UNCHANGED <<stores, liveVars, session, open, opened>>

(* Variant with a plausible bug: the connection is kept.                   *)
KeepConnection(c) ==
    /\ calls[c].stage = "operated"
    /\ calls' = [calls EXCEPT ![c].stage = "answered"]
    /\ UNCHANGED <<stores, liveVars, session, open, opened>>

(* Disconnecting what is already closed raises or not; if it raises, the   *)
(* answer is lost.                                                         *)
Disconnect(c) ==
    /\ calls[c].stage = "operated"
    /\ open' = open \ {session}
    /\ \E raises \in BOOLEAN :
          /\ raises => session \notin open
          /\ calls' = [calls EXCEPT ![c].stage = "answered", ![c].error = @ \/ raises]
    /\ UNCHANGED <<stores, liveVars, session, opened>>
-----------------------------------------------------------------------------
(* The live simulator behind the OPC UA server.                            *)
StepSimulator ==
    /\ todo = <<>> /\ sample < MaxSamples
    /\ sample' = sample + 1
    /\ todo' = VariableNodes
    /\ UNCHANGED <<stores, values, session, open, opened, calls>>

SyncNode ==
    /\ todo # <<>>
    /\ values' = [values EXCEPT ![Head(todo)] = sample]
    /\ todo' = Tail(todo)
    /\ calls' = [c \in Clients |->
                   IF Busy(c) /\ calls[c].call.tool = "opcua_read"
                      /\ calls[c].call.arg = Head(todo)
                   THEN [calls[c] EXCEPT !.held = @ \cup {sample}] ELSE calls[c]]
    /\ UNCHANGED <<stores, sample, session, open, opened>>

(* Another run prepares its scenario: graph, historian, broker.            *)
StoreOrder == <<"graph", "historian", "mqtt">>

OtherPreparation(i) ==
    LET store == StoreOrder[i] IN
    /\ stores[store] < MaxGenerations[store]
    /\ i > 1 => stores[StoreOrder[i - 1]] > stores[store]
    /\ i = 1 => \A s \in DOMAIN stores : stores[s] = stores[store]
    /\ stores' = [stores EXCEPT ![store] = @ + 1]
    /\ UNCHANGED <<liveVars, session, open, opened, calls>>

GatewayStep(c) == Serve(c) \/ Connect(c) \/ Operate(c) \/ Disconnect(c)
WorldStep == StepSimulator \/ SyncNode \/ \E i \in DOMAIN StoreOrder : OtherPreparation(i)
=============================================================================
