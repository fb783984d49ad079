---------------------------- MODULE MCEvidenceRuns ----------------------------
(* One diagnosis task about the reactor pressure, an agent of any kind, and *)
(* beside it a second client that reads OPC UA, as another campaign would.  *)
EXTENDS EvidenceRuns

MCKinds == [one |-> {"llm", "structured_retrieval", "context_aware", "scenario_aware",
                     "uns", "opcua", "i3x", "kg"},
            two |-> {"llm"}]

MCTask == [evidence |-> {"pressure"}, relationship |-> TRUE,
           affected |-> {"reactor"}, rootCause |-> {"idv"},
           objective |-> Text({}, {"reactor"}, {3000})]

MCMenu ==
    [one |-> {Call("get_current_value", "pressure"), Call("opcua_browse", "node_reactor"),
              Call("get_entity_relationships", "reactor"), Call("opcua_read", "node_pressure")},
     two |-> {Call("opcua_read", "node_pressure")}]

(* The other preparation ends before it publishes.                          *)
MCMaxGenerations == [graph |-> 2, historian |-> 2, mqtt |-> 1]

MCMaxCalls == [one |-> 2, two |-> 1]

MCConclusions ==
    [one |-> {Text({"pressure"}, {"idv"}, {2810}), NoText},
     two |-> {NoText}]
=============================================================================
