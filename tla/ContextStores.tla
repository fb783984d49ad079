---------------------------- MODULE ContextStores ----------------------------
(***************************************************************************)
(* The shared, persistent context backends a snapshot of the plant is      *)
(* pushed into: the knowledge graph, the historian and the MQTT broker     *)
(* (src/icab/context).  They outlive preparations and processes.           *)
(*                                                                         *)
(* Entities are the same set in every snapshot and each batch is written   *)
(* in one transaction, so the graph is a flag for the entities and the     *)
(* generation id all edges carry.  The measurements of one snapshot share  *)
(* a timestamp and one historian transaction; MQTT is one publish a topic. *)
(***************************************************************************)
EXTENDS Naturals, FiniteSets

CONSTANT Topics        \* MQTT topics, numbered in publishing order

ASSUME TopicsAssumption == Topics \subseteq Nat

VARIABLES
    entities,          \* the entity nodes exist
    edges,             \* generation id on the relationships, 0: none
    observations,      \* historian rows by timestamp
    retained           \* retained[topic]: what the broker hands out

storeVars == <<entities, edges, observations, retained>>

StoresInit ==
    /\ entities = FALSE
    /\ edges = 0
    /\ observations = [t \in {} |-> 0]
    /\ retained = [t \in {} |-> 0]

(* MERGE (e:Entity) SET ...                                                *)
WriteEntities ==
    /\ entities' = TRUE
    /\ UNCHANGED <<edges, observations, retained>>

(* Variant with a plausible bug: ON CREATE SET instead of SET.             *)
WriteNewRelationships(generation) ==
    /\ edges' = IF entities /\ edges = 0 THEN generation ELSE edges
    /\ UNCHANGED <<entities, observations, retained>>

(* MATCH both ends, MERGE the edge, SET its generation_id: nothing happens *)
(* without the entities, and the last writer wins.                         *)
WriteRelationships(generation) ==
    /\ edges' = IF entities THEN generation ELSE edges
    /\ UNCHANGED <<entities, observations, retained>>

(* Variant with a plausible bug: the rows carry no generation id.          *)
WriteUntaggedObservations(timestamp, value, generation) ==
    /\ observations' =
         [t \in DOMAIN observations \cup {timestamp} |->
             IF t \in DOMAIN observations
             THEN observations[t]
             ELSE [value |-> value, generation |-> 0]]
    /\ UNCHANGED <<entities, edges, retained>>

(* INSERT ... ON CONFLICT (observation_id, timestamp) DO NOTHING: the      *)
(* first writer wins.                                                      *)
WriteObservations(timestamp, value, generation) ==
    /\ observations' =
         [t \in DOMAIN observations \cup {timestamp} |->
             IF t \in DOMAIN observations
             THEN observations[t]
             ELSE [value |-> value, generation |-> generation]]
    /\ UNCHANGED <<entities, edges, retained>>

(* A retained message replaces the topic's earlier one.                    *)
Publish(topic, timestamp, value) ==
    /\ retained' = [t \in DOMAIN retained \cup {topic} |->
                      IF t = topic THEN [timestamp |-> timestamp, value |-> value]
                      ELSE retained[t]]
    /\ UNCHANGED <<entities, edges, observations>>
=============================================================================
