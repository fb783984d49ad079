------------------------- MODULE ScenarioRunner_proofs -------------------------
(***************************************************************************)
(* Theorems about ScenarioRunner, for every set of scenarios, topics and   *)
(* seeds, every deterministic kernel and any number of preparations,       *)
(* abandoned at any step.                                                  *)
(***************************************************************************)
EXTENDS ScenarioRunner, TLAPS

(* The runner's clock is short of the end wherever another step is due.    *)
Running == phase = "running" => elapsed < Total

TypeInv == TypeOK /\ Running

(* The scenario in hand is one of the registered ones.                     *)
LEMMA ScenarioTypes ==
  ASSUME prepared \in Seq(Scenarios), prepared # <<>>
  PROVE  /\ scenario \in Scenarios
         /\ scenario.seed \in Seeds
         /\ scenario.warmup \in Nat
         /\ scenario.duration \in Nat
         /\ scenario.sync \in Nat \ {0}
         /\ scenario.faults \in Seq(Fault)
         /\ Total \in Nat
<1>1. scenario \in Scenarios
  BY DEF scenario, generation
<1>2. /\ scenario.seed \in Seeds
      /\ scenario.warmup \in Nat
      /\ scenario.duration \in Nat
      /\ scenario.sync \in Nat \ {0}
      /\ scenario.faults \in Seq(Fault)
  BY <1>1, ScenarioAssumption
<1>3. Total \in Nat
  BY <1>2 DEF Total
<1> QED  BY <1>1, <1>2, <1>3

(* So are its faults well formed.                                          *)
LEMMA FaultTypes ==
  ASSUME prepared \in Seq(Scenarios), prepared # <<>>,
         NEW i \in DOMAIN scenario.faults
  PROVE  /\ scenario.faults[i].disturbance \in Disturbances
         /\ scenario.faults[i].magnitude \in Nat
<1>1. scenario.faults \in Seq(Fault)
  BY ScenarioTypes
<1>2. scenario.faults[i] \in Fault
  <2>1. \A S, x : x \in Seq(S) => \A k \in DOMAIN x : x[k] \in S
    OBVIOUS
  <2> QED  BY <1>1, <2>1
<1> QED  BY <1>2 DEF Fault

(* A step of a loop stays within the loop.                                 *)
LEMMA StepToTypes ==
  ASSUME NEW end \in Nat, elapsed \in Nat, elapsed < end,
         scenario.sync \in Nat \ {0}
  PROVE  StepTo(end) \in Nat
BY DEF StepTo

(* The plant keeps its types whenever it moves.                            *)
LEMMA StepPlantTypes ==
  ASSUME SimulatorTypeOK, NEW duration \in Nat, StepPlant(duration)
  PROVE  SimulatorTypeOK'
<1>1. PICK n \in 0..duration : history' = After(n)
  BY DEF StepPlant
<1>2. [i \in 1..n |-> disturbances] \in Seq(Vector)
  BY DEF SimulatorTypeOK
<1>3. history' \in Seq(Vector)
  BY <1>1, <1>2 DEF After, SimulatorTypeOK
<1> QED  BY <1>3 DEF StepPlant, SimulatorTypeOK

(* A disturbance is set to a natural number.                               *)
LEMMA InjectTypes ==
  ASSUME SimulatorTypeOK, NEW d \in Disturbances, NEW m \in Nat, InjectFault(d, m)
  PROVE  SimulatorTypeOK'
BY DEF InjectFault, SimulatorTypeOK, Vector

(* A step of a sync touches only the backends and its own progress.        *)
LEMMA SyncTypes ==
  ASSUME TypeInv, phase # "idle",
         UNCHANGED <<simulatorVars, prepared, elapsed, toActivate, toClear>>,
         phase' \in Phases, phase' = "running" => elapsed < Total,
         entities' \in BOOLEAN,
         edges' \in 0..generation,
         DOMAIN observations' \subseteq Nat,
         \A t \in DOMAIN observations' : observations'[t].generation \in 1..generation,
         DOMAIN retained' \subseteq Topics,
         unpublished' \subseteq Topics
  PROVE  TypeInv'
<1>1. SimulatorTypeOK'
  BY DEF TypeInv, TypeOK, SimulatorTypeOK, simulatorVars, Vector
<1>2. UNCHANGED <<generation, scenario, Total>>
  BY DEF generation, scenario, Total
<1> QED  BY <1>1, <1>2 DEF TypeInv, TypeOK, Running

(* Nothing prepared and nothing stored.                                    *)
LEMMA InitTypeInv == Init => TypeInv
<1> SUFFICES ASSUME Init PROVE TypeInv
  OBVIOUS
<1>1. SimulatorTypeOK
  BY DEF Init, SimulatorInit, SimulatorTypeOK, AllOff, Vector
<1>2. DOMAIN observations = {} /\ DOMAIN retained = {} /\ entities \in BOOLEAN
  BY DEF Init, StoresInit
<1>3. generation = 0 /\ edges = 0 /\ prepared \in Seq(Scenarios)
  BY DEF Init, StoresInit, generation
<1>4. phase = "idle" /\ elapsed \in Nat /\ unpublished = {}
  BY DEF Init
<1> QED  BY <1>1, <1>2, <1>3, <1>4 DEF TypeInv, TypeOK, Running, Phases

(* Type correctness of a step: one step per action.                        *)
LEMMA NextTypeInv == TypeInv /\ [Next]_vars => TypeInv'
<1> SUFFICES ASSUME TypeInv, [Next]_vars PROVE TypeInv'
  OBVIOUS
<1> USE DEF TypeInv
<1>1. ASSUME NEW s \in Scenarios, Prepare(s) PROVE TypeInv'
  <2>1. SimulatorTypeOK'
    BY <1>1, ScenarioAssumption DEF Prepare, Reset, SimulatorTypeOK, AllOff, Vector
  <2>2. /\ prepared' \in Seq(Scenarios) /\ prepared' # <<>>
        /\ generation' = generation + 1 /\ scenario' = s /\ generation \in Nat
    BY <1>1 DEF Prepare, TypeOK, generation, scenario
  <2>3. edges' \in 0..generation'
    BY <1>1, <2>2 DEF Prepare, TypeOK, storeVars
  <2>4. \A t \in DOMAIN observations' : observations'[t].generation \in 1..generation'
    BY <1>1, <2>2 DEF Prepare, TypeOK, storeVars
  <2> QED
    BY <1>1, <2>1, <2>2, <2>3, <2>4 DEF Prepare, TypeOK, storeVars, Phases, Running
<1>2. ASSUME WarmupStep PROVE TypeInv'
  <2>1. StepTo(scenario.warmup) \in Nat
    BY <1>2, ScenarioTypes, StepToTypes DEF WarmupStep, TypeOK
  <2>2. SimulatorTypeOK'
    BY <1>2, <2>1, StepPlantTypes DEF WarmupStep, TypeOK
  <2> QED
    BY <1>2, <2>1, <2>2 DEF WarmupStep, Elapse, TypeOK, Running, storeVars,
       generation, scenario
<1>3. ASSUME FinishWarmup \/ Leave PROVE TypeInv'
  BY <1>3 DEF FinishWarmup, Leave, TypeOK, Running, storeVars, simulatorVars,
     generation, scenario, SimulatorTypeOK, Phases, Vector
<1>4. ASSUME SyncEntities \/ SyncRelationships PROVE TypeInv'
  <2>1. /\ UNCHANGED <<simulatorVars, prepared, elapsed, toActivate, toClear,
                       unpublished, observations, retained>>
        /\ phase # "idle" /\ phase' \in {"relationships", "observations"}
    BY <1>4 DEF SyncEntities, SyncRelationships, SyncStep, WriteEntities,
       WriteRelationships
  <2>2. entities' \in BOOLEAN
    BY <1>4 DEF SyncEntities, SyncRelationships, WriteEntities, WriteRelationships,
       TypeOK
  <2>3. edges' \in 0..generation
    <3>1. generation \in 0..generation /\ edges \in 0..generation
      BY DEF TypeOK, generation
    <3> QED  BY <1>4, <3>1 DEF SyncEntities, SyncRelationships, WriteEntities,
                WriteRelationships
  <2> QED
    BY <2>1, <2>2, <2>3, SyncTypes DEF TypeOK, Phases
<1>5. ASSUME SyncObservations PROVE TypeInv'
  <2>1. /\ UNCHANGED <<simulatorVars, prepared, elapsed, toActivate, toClear,
                       entities, edges, retained>>
        /\ phase # "idle" /\ phase' = "publishing" /\ unpublished' = Topics
    BY <1>5 DEF SyncObservations, SyncStep, WriteObservations
  <2>2. generation \in 1..generation
    BY <2>1 DEF TypeOK, generation
  <2>3. Timestamp(seed, Time) \in Nat
    BY SimulatorAssumption DEF TypeOK, SimulatorTypeOK, Timestamp, Time
  <2>4. /\ DOMAIN observations' \subseteq Nat
        /\ \A t \in DOMAIN observations' : observations'[t].generation \in 1..generation
    BY <1>5, <2>2, <2>3 DEF SyncObservations, WriteObservations, TypeOK
  <2> QED
    BY <2>1, <2>4, SyncTypes DEF TypeOK, Phases
<1>6. ASSUME NEW topic \in Topics, SyncTopic(topic) PROVE TypeInv'
  <2>1. /\ UNCHANGED <<simulatorVars, prepared, elapsed, toActivate, toClear,
                       entities, edges, observations>>
        /\ phase # "idle" /\ phase' = "publishing"
        /\ unpublished' \subseteq unpublished
        /\ DOMAIN retained' = DOMAIN retained \cup {topic}
    BY <1>6 DEF SyncTopic, SyncStep, Publish
  <2> QED
    BY <2>1, SyncTypes DEF TypeOK, Phases
<1>7. ASSUME FinishSync PROVE TypeInv'
  <2>1. /\ UNCHANGED <<simulatorVars, prepared, elapsed, toActivate, toClear,
                       storeVars, unpublished>>
        /\ phase # "idle"
        /\ phase' = IF elapsed < Total THEN "running" ELSE "ready"
    BY <1>7 DEF FinishSync, SyncStep
  <2> QED
    BY <2>1, SyncTypes DEF TypeOK, Phases, storeVars
<1>8. ASSUME NEW i \in toActivate, Activate(i) PROVE TypeInv'
  <2>1. scenario.faults[i].disturbance \in Disturbances /\ scenario.faults[i].magnitude \in Nat
    BY <1>8, FaultTypes DEF Activate, TypeOK
  <2>2. SimulatorTypeOK'
    BY <1>8, <2>1, InjectTypes DEF Activate, TypeOK
  <2>3. /\ UNCHANGED <<storeVars, phase, prepared, elapsed, unpublished>>
        /\ toActivate' \subseteq toActivate /\ toClear' \subseteq toClear
    BY <1>8 DEF Activate
  <2>4. UNCHANGED <<generation, scenario, Total>>
    BY <2>3 DEF generation, scenario, Total
  <2> QED
    BY <2>2, <2>3, <2>4 DEF TypeOK, Running, storeVars
<1>9. ASSUME NEW i \in toClear, Clear(i) PROVE TypeInv'
  <2>1. scenario.faults[i].disturbance \in Disturbances
    BY <1>9, FaultTypes DEF Clear, TypeOK
  <2>2. SimulatorTypeOK'
    BY <1>9, <2>1, InjectTypes DEF Clear, TypeOK
  <2>3. /\ UNCHANGED <<storeVars, phase, prepared, elapsed, unpublished>>
        /\ toActivate' \subseteq toActivate /\ toClear' \subseteq toClear
    BY <1>9 DEF Clear
  <2>4. UNCHANGED <<generation, scenario, Total>>
    BY <2>3 DEF generation, scenario, Total
  <2> QED
    BY <2>2, <2>3, <2>4 DEF TypeOK, Running, storeVars
<1>10. ASSUME RunStep PROVE TypeInv'
  <2>1. StepTo(Total) \in Nat
    BY <1>10, ScenarioTypes, StepToTypes DEF RunStep, TypeOK, Running
  <2>2. SimulatorTypeOK'
    BY <1>10, <2>1, StepPlantTypes DEF RunStep, TypeOK
  <2> QED
    BY <1>10, <2>1, <2>2 DEF RunStep, Elapse, TypeOK, Running, storeVars, generation,
       scenario, Phases
<1>11. ASSUME UNCHANGED vars PROVE TypeInv'
  BY <1>11 DEF vars, TypeOK, Running, storeVars, simulatorVars, runnerVars,
     generation, scenario, Total, SimulatorTypeOK, Phases, Vector
<1> QED
  BY <1>1, <1>2, <1>3, <1>4, <1>5, <1>6, <1>7, <1>8, <1>9, <1>10, <1>11
     DEF Next, Step

(* Every variable keeps its type whatever is prepared or abandoned.        *)
THEOREM TypeCorrect == Spec => []TypeOK
<1>1. TypeInv => TypeOK
  BY DEF TypeInv
<1> QED  BY <1>1, InitTypeInv, NextTypeInv, PTL DEF Spec
-----------------------------------------------------------------------------
(* The graph's edges carry the running preparation's id from its first     *)
(* relationship write on; that write finds the entities because they are   *)
(* written just before it.                                                 *)
OwnedInv ==
    /\ phase = "relationships" => entities
    /\ phase \in {"observations", "publishing", "running", "ready"}
          => edges = generation

(* OwnedInv is inductive: one step per group of actions.                   *)
LEMMA NextOwnedInv == OwnedInv /\ [Next]_vars => OwnedInv'
<1> SUFFICES ASSUME OwnedInv, [Next]_vars PROVE OwnedInv'
  OBVIOUS
<1> USE DEF OwnedInv, generation
<1>1. ASSUME NEW s \in Scenarios, Prepare(s) PROVE OwnedInv'
  BY <1>1 DEF Prepare
<1>2. ASSUME WarmupStep \/ FinishWarmup \/ Leave \/ RunStep PROVE OwnedInv'
  BY <1>2 DEF WarmupStep, FinishWarmup, Leave, RunStep, storeVars
<1>3. ASSUME SyncEntities PROVE OwnedInv'
  BY <1>3 DEF SyncEntities, SyncStep, WriteEntities
<1>4. ASSUME SyncRelationships PROVE OwnedInv'
  BY <1>4 DEF SyncRelationships, SyncStep, WriteRelationships
<1>5. ASSUME SyncObservations PROVE OwnedInv'
  BY <1>5 DEF SyncObservations, SyncStep, WriteObservations
<1>6. ASSUME NEW topic \in Topics, SyncTopic(topic) PROVE OwnedInv'
  BY <1>6 DEF SyncTopic, SyncStep, Publish
<1>7. ASSUME FinishSync PROVE OwnedInv'
  BY <1>7 DEF FinishSync, SyncStep, storeVars
<1>8. ASSUME NEW i, Activate(i) \/ Clear(i) PROVE OwnedInv'
  BY <1>8 DEF Activate, Clear, storeVars
<1>9. ASSUME UNCHANGED vars PROVE OwnedInv'
  BY <1>9 DEF vars, storeVars, runnerVars
<1> QED
  BY <1>1, <1>2, <1>3, <1>4, <1>5, <1>6, <1>7, <1>8, <1>9 DEF Next, Step

(* A prepared plant is handed over with every relationship of the graph    *)
(* tagged by its own preparation, whatever earlier or abandoned            *)
(* preparations left there.                                                *)
THEOREM GraphOwned == Spec => []RelationshipsOwned
<1>1. Init => OwnedInv
  BY DEF Init, OwnedInv
<1>2. OwnedInv => RelationshipsOwned
  BY DEF OwnedInv, RelationshipsOwned
<1> QED  BY <1>1, <1>2, NextOwnedInv, PTL DEF Spec
-----------------------------------------------------------------------------
(* While a snapshot is published, the topics already done retain it; a     *)
(* plant is handed over only when all of them do.                          *)
Retains(topic) ==
    /\ topic \in DOMAIN retained
    /\ retained[topic] = [timestamp |-> Timestamp(seed, Time), value |-> Measured]

PublishInv ==
    /\ phase = "publishing" => \A topic \in Topics \ unpublished : Retains(topic)
    /\ phase = "ready" => \A topic \in Topics : Retains(topic)

(* PublishInv is inductive: only the steps of a sync can reach its phases. *)
LEMMA NextPublishInv == PublishInv /\ [Next]_vars => PublishInv'
<1> SUFFICES ASSUME PublishInv, [Next]_vars PROVE PublishInv'
  OBVIOUS
<1> USE DEF PublishInv
<1>0. ASSUME UNCHANGED <<retained, simulatorVars>>
      PROVE  \A topic : Retains(topic)' = Retains(topic)
  BY <1>0 DEF Retains, Timestamp, Time, Measured, simulatorVars
<1>1. CASE (\E s \in Scenarios : Prepare(s)) \/ WarmupStep \/ FinishWarmup
           \/ SyncEntities \/ SyncRelationships \/ RunStep \/ Leave
  BY <1>1 DEF Prepare, WarmupStep, FinishWarmup, SyncEntities, SyncRelationships,
     SyncStep, RunStep, Leave
<1>2. CASE SyncObservations
  BY <1>2 DEF SyncObservations, SyncStep
<1>3. ASSUME NEW topic \in Topics, SyncTopic(topic) PROVE PublishInv'
  <2>1. /\ phase = "publishing" /\ phase' = "publishing"
        /\ UNCHANGED simulatorVars /\ unpublished' = unpublished \ {topic}
        /\ Publish(topic, Timestamp(seed, Time), Measured)
    BY <1>3 DEF SyncTopic, SyncStep
  <2>2. UNCHANGED <<seed, Timestamp(seed, Time), Time, Measured>>
    BY <2>1 DEF simulatorVars, Timestamp, Time, Measured
  <2>3. ASSUME NEW other \in Topics \ unpublished' PROVE Retains(other)'
    <3>1. CASE other = topic
      BY <2>1, <2>2, <3>1 DEF Publish, Retains
    <3>2. CASE other # topic
      <4>1. Retains(other)
        BY <2>1, <2>3, <3>2
      <4> QED  BY <2>1, <2>2, <3>2, <4>1 DEF Publish, Retains
    <3> QED  BY <3>1, <3>2
  <2> QED  BY <2>1, <2>3
<1>4. CASE FinishSync
  <2>1. /\ phase = "publishing" /\ unpublished = {}
        /\ UNCHANGED <<retained, simulatorVars>>
        /\ phase' = IF elapsed < Total THEN "running" ELSE "ready"
    BY <1>4 DEF FinishSync, SyncStep, storeVars
  <2>2. \A topic \in Topics : Retains(topic)'
    BY <1>0, <2>1
  <2> QED  BY <2>1, <2>2
<1>5. CASE UNCHANGED vars \/ \E i : Activate(i) \/ Clear(i)
  <2>1. CASE UNCHANGED vars
    BY <1>0, <2>1 DEF vars, storeVars, runnerVars
  <2>2. ASSUME NEW i, Activate(i) \/ Clear(i) PROVE PublishInv'
    BY <2>2 DEF Activate, Clear
  <2> QED  BY <1>5, <2>1, <2>2
<1> QED  BY <1>1, <1>2, <1>3, <1>4, <1>5 DEF Next, Step

(* A prepared plant is handed over with its last snapshot retained by      *)
(* every topic, whatever an abandoned preparation had published of its.    *)
THEOREM TopicsFinal == Spec => []RetainedIsFinal
<1>1. Init => PublishInv
  BY DEF Init, PublishInv
<1>2. PublishInv => RetainedIsFinal
  BY DEF PublishInv, RetainedIsFinal, Retains
<1> QED  BY <1>1, <1>2, NextPublishInv, PTL DEF Spec
-----------------------------------------------------------------------------
(***************************************************************************)
(* The plant and the schedule.  First the times of the snapshots.          *)
(***************************************************************************)
(* Between two multiples of m that are m apart there is none.              *)
LEMMA Multiples ==
  ASSUME NEW m \in Nat \ {0}, NEW a \in Nat, a % m = 0
  PROVE  (a + m) % m = 0 /\ \A c \in Nat : a < c /\ c < a + m => c % m # 0
<1>1. (a + m) % m = 0
  <2> DEFINE x == a \div m
             y == (a + m) \div m
             r == (a + m) % m
  <2>1. x \in Nat /\ y \in Nat /\ r \in Nat /\ r < m
    OBVIOUS
  <2>2. a = m * x /\ a + m = m * y + r
    OBVIOUS
  <2> HIDE DEF x, y, r
  <2>3. m * (x + 1) = m * x + m /\ m * (y + 1) = m * y + m
    BY <2>1
  <2>4. ~(y <= x)
    <3>1. y <= x => m * y <= m * x
      BY <2>1
    <3> QED  BY <2>1, <2>2, <3>1
  <2>5. ~(x + 1 < y)
    <3>1. x + 1 < y => m * (x + 2) <= m * y
      BY <2>1
    <3>2. m * (x + 2) = m * x + 2 * m
      BY <2>1
    <3> QED  BY <2>1, <2>2, <3>1, <3>2
  <2>6. y = x + 1
    BY <2>1, <2>4, <2>5
  <2>7. r = 0
    BY <2>1, <2>2, <2>3, <2>6
  <2> QED  BY <2>7 DEF r
<1>2. ASSUME NEW c \in Nat, a < c, c < a + m, c % m = 0 PROVE FALSE
  <2>1. a = m * (a \div m) /\ c = m * (c \div m)
    BY <1>2
  <2> DEFINE x == a \div m
             y == c \div m
  <2>2. x \in Nat /\ y \in Nat
    BY <1>2
  <2> HIDE DEF x, y
  <2>3. CASE y <= x
    <3>1. m * y <= m * x
      BY <2>2, <2>3
    <3> QED BY <2>1, <3>1, <1>2 DEF x, y
  <2>4. CASE y >= x + 1
    <3>1. m * y >= m * (x + 1)
      BY <2>2, <2>4
    <3>2. m * (x+1) = m * x + m
      BY <2>2
    <3> QED BY <2>1, <3>1, <3>2, <1>2 DEF x, y
  <2> QED BY <2>2, <2>3, <2>4
<1> QED BY <1>1, <1>2

(* From one snapshot the loop goes to the next, and skips none.            *)
LEMMA NextBoundary ==
  ASSUME NEW s \in Scenarios, NEW b \in Boundaries(s), b < s.warmup + s.duration,
         NEW step, step = IF s.sync <= (s.warmup + s.duration) - b
                          THEN s.sync ELSE (s.warmup + s.duration) - b
  PROVE  /\ step \in Nat \ {0} /\ b \in Nat
         /\ b + step \in Boundaries(s)
         /\ \A c \in Boundaries(s) : b < c => b + step <= c
         /\ \A t \in b..(b + step - 1) : LastBoundary(s, t) = b
<1> DEFINE w == s.warmup
           m == s.sync
           end == s.warmup + s.duration
<1>1. w \in Nat /\ m \in Nat \ {0} /\ end \in Nat /\ s.duration \in Nat \ {0}
  BY ScenarioAssumption
<1>2. b \in w..end /\ (b - w) % m = 0 /\ b - w \in Nat
  BY <1>1 DEF Boundaries
<1>3. step \in Nat \ {0} /\ b + step <= end /\ step <= m
  BY <1>1, <1>2
<1>4. /\ ((b - w) + m) % m = 0
      /\ \A c \in Nat : b - w < c /\ c < (b - w) + m => c % m # 0
  BY <1>1, <1>2, Multiples
<1>5. b + step \in Boundaries(s)
  <2>1. CASE step = m
    <3>1. (b + m) - w = (b - w) + m
      BY <1>1, <1>2
    <3> QED  BY <1>1, <1>2, <1>3, <1>4, <2>1, <3>1 DEF Boundaries
  <2>2. CASE step # m
    <3>1. b + step = end
      BY <1>1, <1>2, <2>2
    <3> QED  BY <1>1, <3>1 DEF Boundaries
  <2> QED  BY <2>1, <2>2
<1>6. ASSUME NEW c \in Boundaries(s), b < c PROVE b + step <= c
  <2>1. c \in w..end /\ (c = end \/ (c - w) % m = 0)
    BY <1>1 DEF Boundaries
  <2>2. CASE c = end
    BY <1>3, <2>2
  <2>3. CASE (c - w) % m = 0
    <3>1. c - w \in Nat /\ b - w < c - w
      BY <1>1, <1>2, <1>6, <2>1
    <3>2. ~(c - w < (b - w) + m)
      BY <1>4, <2>3, <3>1
    <3> QED  BY <1>1, <1>2, <1>3, <2>1, <3>2
  <2> QED  BY <2>1, <2>2, <2>3
<1>7. ASSUME NEW t \in b..(b + step - 1) PROVE LastBoundary(s, t) = b
  <2>1. t \in Nat /\ b <= t /\ t < b + step
    BY <1>1, <1>2, <1>3
  <2>2. Boundaries(s) \subseteq Nat
    BY <1>1 DEF Boundaries
  <2>3. \A c \in Boundaries(s) : c <= t => c <= b
    BY <1>2, <1>3, <1>6, <2>1, <2>2
  <2>4. ASSUME NEW c \in Boundaries(s), c <= t, \A e \in Boundaries(s) : e <= t => e <= c
        PROVE  c = b
    BY <2>1, <2>2, <2>3, <2>4
  <2> QED  BY <2>1, <2>3, <2>4 DEF LastBoundary
<1> QED  BY <1>1, <1>2, <1>3, <1>5, <1>6, <1>7

(* What the schedule puts into interval t, and into the first n; whether   *)
(* the plant is on that course when the runner's clock stands at t.        *)
Interval(s, t) == IF t <= s.warmup THEN AllOff ELSE Scheduled(s, LastBoundary(s, t - 1))

Course(s, n) == [t \in 1..n |-> Interval(s, t)]

OnCourse(s, t) ==
    /\ seed = s.seed
    /\ Len(history) <= t
    /\ Len(history) = t \/ Trips(s.seed, history)
    /\ history = Course(s, Len(history))
    /\ \A k \in 0..(Len(history) - 1) : ~Trips(s.seed, Course(s, k))

(* A plant on its course that moves under the scheduled vector stays so;   *)
(* one that has tripped stays where it is.                                 *)
LEMMA PlantStep ==
  ASSUME SimulatorTypeOK, NEW s \in Scenarios, NEW t \in Nat, OnCourse(s, t),
         NEW d \in Nat, StepPlant(d),
         \A i \in (t + 1)..(t + d) : Interval(s, i) = disturbances
  PROVE  OnCourse(s, t + d)'
<1> DEFINE l == Len(history)
<1>1. l \in Nat /\ l <= t /\ history \in Seq(Vector) /\ DOMAIN history = 1..l
  BY DEF OnCourse, SimulatorTypeOK
<1>2. PICK n \in 0..d : /\ history' = After(n)
                        /\ \A k \in 0..(n - 1) : ~Trips(seed, After(k))
                        /\ n = d \/ Trips(seed, After(n))
  BY DEF StepPlant
<1>3. n \in Nat /\ n <= d
  BY <1>2
<1>4. \A k \in Nat : /\ Len(After(k)) = l + k /\ DOMAIN After(k) = 1..(l + k)
                     /\ \A i \in 1..l : After(k)[i] = history[i]
                     /\ \A i \in (l + 1)..(l + k) : After(k)[i] = disturbances
                     /\ After(k) = [i \in 1..(l + k) |-> After(k)[i]]
  <2> TAKE k \in Nat
  <2> DEFINE more == [i \in 1..k |-> disturbances]
  <2>1. more \in Seq(Vector) /\ Len(more) = k /\ \A i \in 1..k : more[i] = disturbances
    BY DEF SimulatorTypeOK
  <2> HIDE DEF more
  <2>2. /\ history \o more \in Seq(Vector) /\ Len(history \o more) = l + k
        /\ \A i \in 1..l : (history \o more)[i] = history[i]
        /\ \A i \in (l + 1)..(l + k) : (history \o more)[i] = more[i - l]
    BY <1>1, <2>1
  <2>3. After(k) = history \o more
    BY DEF After, more
  <2>4. \A i \in (l + 1)..(l + k) : i - l \in 1..k
    BY <1>1
  <2>5. /\ After(k) \in Seq(Vector) /\ Len(After(k)) = l + k
        /\ \A i \in 1..l : After(k)[i] = history[i]
        /\ \A i \in (l + 1)..(l + k) : After(k)[i] = disturbances
    BY <2>1, <2>2, <2>3, <2>4
  <2>6. DOMAIN After(k) = 1..(l + k) /\ After(k) = [i \in 1..(l + k) |-> After(k)[i]]
    <3> HIDE DEF l
    <3> QED  BY <1>1, <2>5
  <2> QED  BY <2>5, <2>6
<1>5. After(0) = history
  <2>1. l + 0 = l /\ \A i \in 1..l : After(0)[i] = history[i]
    BY <1>1, <1>4
  <2>2. DOMAIN After(0) = 1..l /\ After(0) = [i \in 1..l |-> After(0)[i]]
    BY <1>4, <2>1
  <2>3. history = [i \in 1..l |-> history[i]]
    BY <1>1
  <2> QED  BY <2>1, <2>2, <2>3
<1>6. CASE n = 0
  <2>1. history' = history /\ seed' = seed
    BY <1>2, <1>5, <1>6 DEF StepPlant
  <2>2. l <= t + d
    BY <1>1
  <2>3. l = t + d \/ Trips(s.seed, history)
    <3>1. d = 0 \/ Trips(s.seed, history)
      BY <1>2, <1>5, <1>6 DEF OnCourse
    <3>2. l = t \/ Trips(s.seed, history)
      BY DEF OnCourse
    <3>3. d = 0 /\ l = t => l = t + d
      BY <1>1
    <3> HIDE DEF l
    <3> QED  BY <3>1, <3>2, <3>3, Zenon
  <2> QED  BY <2>1, <2>2, <2>3 DEF OnCourse
<1>7. CASE n > 0
  <2>1. ~Trips(s.seed, history)
    BY <1>2, <1>3, <1>5, <1>7 DEF OnCourse
  <2>2. l = t
    BY <2>1 DEF OnCourse
  <2>3. \A i \in 1..l : history[i] = Interval(s, i)
    BY DEF OnCourse, Course
  <2>4. \A k \in 0..n : After(k) = Course(s, l + k)
    <3> TAKE k \in 0..n
    <3>1. k \in Nat /\ k <= d
      BY <1>3
    <3>2. \A i \in 1..(l + k) : After(k)[i] = Interval(s, i)
      <4> TAKE i \in 1..(l + k)
      <4>1. CASE i \in 1..l
        BY <1>4, <2>3, <3>1, <4>1
      <4>2. CASE i \notin 1..l
        <5>1. i \in (l + 1)..(l + k) /\ i \in (t + 1)..(t + d)
          BY <1>1, <2>2, <3>1, <4>2
        <5> QED  BY <1>4, <3>1, <5>1
      <4> QED  BY <4>1, <4>2
    <3>3. After(k) = [i \in 1..(l + k) |-> After(k)[i]]
      BY <1>4, <3>1
    <3> QED  BY <3>2, <3>3 DEF Course
  <2>5. ASSUME NEW k \in 0..(l + n - 1) PROVE ~Trips(s.seed, Course(s, k))
    <3>1. CASE k \in 0..(l - 1)
      BY <3>1 DEF OnCourse
    <3>2. CASE k \notin 0..(l - 1)
      <4> DEFINE j == k - l
      <4>1. j \in 0..(n - 1) /\ j \in 0..n /\ l + j = k
        BY <1>1, <1>3, <2>5, <3>2
      <4>2. After(j) = Course(s, k)
        <5> HIDE DEF j
        <5> QED  BY <2>4, <4>1
      <4>3. ~Trips(seed, After(j))
        <5> HIDE DEF j
        <5> QED  BY <1>2, <4>1
      <4> QED  BY <4>2, <4>3 DEF OnCourse
    <3> QED  BY <3>1, <3>2
  <2>6. Len(history') = l + n
    BY <1>2, <1>3, <1>4
  <2>7. history' = Course(s, l + n)
    <3>1. n \in 0..n
      BY <1>3
    <3> QED  BY <1>2, <2>4, <3>1
  <2>8. l + n <= t + d /\ (l + n = t + d \/ Trips(s.seed, history'))
    BY <1>1, <1>2, <1>3, <2>2 DEF OnCourse
  <2>9. seed' = s.seed
    BY DEF OnCourse, StepPlant
  <2>10. \A k \in 0..(Len(history') - 1) : ~Trips(s.seed, Course(s, k))
    <3>1. 0..(Len(history') - 1) = 0..(l + n - 1)
      BY <2>6
    <3> QED  BY <2>5, <3>1, Zenon
  <2>11. Len(history') <= t + d /\ (Len(history') = t + d \/ Trips(s.seed, history'))
    BY <2>6, <2>8
  <2>12. history' = Course(s, Len(history'))
    BY <2>6, <2>7
  <2> QED  BY <2>9, <2>10, <2>11, <2>12 DEF OnCourse
<1> QED  BY <1>3, <1>6, <1>7

(* Each fault of a scenario has a disturbance of its own.  Without that a  *)
(* clear, which names only the disturbance, ends another fault as well.    *)
SingleFaults == \A s \in Scenarios : \A i, j \in DOMAIN s.faults :
    s.faults[i].disturbance = s.faults[j].disturbance => i = j

(* The vector in force says of every fault whether it has been activated   *)
(* and not yet cleared, and neither happened before its time.              *)
Cleared(s, i) == s.faults[i].duration # 0 /\ i \notin toClear

FaultState(s, i) ==
    /\ disturbances[s.faults[i].disturbance] =
          IF i \in toActivate \/ Cleared(s, i) THEN 0 ELSE s.faults[i].magnitude
    /\ i \in toActivate => ~Cleared(s, i)
    /\ i \notin toActivate => s.faults[i].activateAt <= elapsed
    /\ Cleared(s, i) => s.faults[i].activateAt + s.faults[i].duration <= elapsed
    /\ i \in toClear => s.faults[i].duration # 0

FaultsInv(s) ==
    /\ \A d \in Disturbances :
          (\A i \in DOMAIN s.faults : s.faults[i].disturbance # d) => disturbances[d] = 0
    /\ \A i \in DOMAIN s.faults : FaultState(s, i)
    /\ phase = "warmup" => toActivate = DOMAIN s.faults

LoopInv(s) ==
    /\ phase = "warmup" => elapsed <= s.warmup
    /\ phase # "warmup" => elapsed \in Boundaries(s)

ScheduleInv == phase # "idle" => \A s \in Scenarios : s = scenario =>
    FaultsInv(s) /\ LoopInv(s) /\ OnCourse(s, elapsed)

(* The types of a registered scenario's faults.                            *)
LEMMA FaultOf ==
  ASSUME NEW s \in Scenarios, NEW i \in DOMAIN s.faults
  PROVE  /\ s.faults[i].disturbance \in Disturbances
         /\ s.faults[i].magnitude \in Nat
         /\ s.faults[i].activateAt \in Nat
         /\ s.faults[i].duration \in Nat
<1>1. s.faults \in Seq(Fault)
  BY ScenarioAssumption
<1>2. s.faults[i] \in Fault
  <2>1. \A S, x : x \in Seq(S) => \A k \in DOMAIN x : x[k] \in S
    OBVIOUS
  <2> QED  BY <1>1, <2>1
<1> QED  BY <1>2 DEF Fault

(* During the warmup the plant is undisturbed.                             *)
LEMMA WarmupOff ==
  ASSUME SimulatorTypeOK, NEW s \in Scenarios, FaultsInv(s), phase = "warmup"
  PROVE  disturbances = AllOff
<1>1. \A d \in Disturbances : disturbances[d] = 0
  BY DEF FaultsInv, FaultState
<1>2. disturbances = [d \in Disturbances |-> disturbances[d]]
  BY DEF SimulatorTypeOK, Vector
<1> QED  BY <1>1, <1>2 DEF AllOff

(* Once nothing is due any more, the vector is the scheduled one.          *)
LEMMA VectorScheduled ==
  ASSUME SingleFaults, SimulatorTypeOK, elapsed \in Nat,
         NEW s \in Scenarios, s = scenario, FaultsInv(s),
         DueActivations = {}, DueClears = {}
  PROVE  disturbances = Scheduled(s, elapsed)
<1> DEFINE On(d) == {i \in DOMAIN s.faults :
                       /\ s.faults[i].disturbance = d
                       /\ s.faults[i].activateAt <= elapsed
                       /\ \/ s.faults[i].duration = 0
                          \/ elapsed < s.faults[i].activateAt + s.faults[i].duration}
<1>1. \A i \in DOMAIN s.faults :
         /\ i \in toActivate <=> ~(s.faults[i].activateAt <= elapsed)
         /\ Cleared(s, i) <=> /\ s.faults[i].duration # 0
                              /\ s.faults[i].activateAt + s.faults[i].duration <= elapsed
  <2> TAKE i \in DOMAIN s.faults
  <2>1. i \in toActivate => ~(s.faults[i].activateAt <= elapsed)
    BY DEF DueActivations, Due, ActivateAt
  <2>2. i \in toClear => ~(s.faults[i].activateAt + s.faults[i].duration <= elapsed)
    BY DEF DueClears, Due, ClearAt
  <2>3. FaultState(s, i)
    BY DEF FaultsInv
  <2> QED  BY <2>1, <2>2, <2>3 DEF FaultState, Cleared
<1>2. ASSUME NEW d \in Disturbances
      PROVE  disturbances[d] = IF On(d) = {} THEN 0
                               ELSE s.faults[CHOOSE i \in On(d) : TRUE].magnitude
  <2>1. CASE \A i \in DOMAIN s.faults : s.faults[i].disturbance # d
    <3>1. On(d) = {}
      BY <2>1
    <3> QED  BY <1>2, <2>1, <3>1 DEF FaultsInv
  <2>2. ASSUME NEW i \in DOMAIN s.faults, s.faults[i].disturbance = d
        PROVE  disturbances[d] = IF On(d) = {} THEN 0
                                 ELSE s.faults[CHOOSE j \in On(d) : TRUE].magnitude
    <3>1. On(d) = IF i \in On(d) THEN {i} ELSE {}
      BY <2>2 DEF SingleFaults
    <3>2. i \in On(d) <=> ~(i \in toActivate \/ Cleared(s, i))
      <4>1. /\ s.faults[i].activateAt \in Nat /\ s.faults[i].duration \in Nat
        BY FaultOf
      <4> QED  BY <1>1, <2>2, <4>1
    <3>3. disturbances[d] = IF i \in On(d) THEN s.faults[i].magnitude ELSE 0
      BY <2>2, <3>2 DEF FaultsInv, FaultState
    <3> HIDE DEF On
    <3> QED  BY <3>1, <3>3
  <2> QED  BY <2>1, <2>2
<1>3. Scheduled(s, elapsed) =
        [d \in Disturbances |-> IF On(d) = {} THEN 0
                                ELSE s.faults[CHOOSE i \in On(d) : TRUE].magnitude]
  BY DEF Scheduled
<1>4. disturbances = [d \in Disturbances |-> disturbances[d]]
  BY DEF SimulatorTypeOK, Vector
<1> HIDE DEF On
<1> QED  BY <1>2, <1>3, <1>4

(* What the runner does to one fault of its scenario.                      *)
LEMMA ActivateFaults ==
  ASSUME SingleFaults, SimulatorTypeOK, NEW s \in Scenarios, s = scenario, FaultsInv(s),
         toActivate \subseteq DOMAIN s.faults, NEW i \in toActivate, Activate(i)
  PROVE  FaultsInv(s)'
<1> DEFINE f == s.faults[i]
<1>1. /\ phase = "running" /\ UNCHANGED <<phase, elapsed, toClear>>
      /\ toActivate' = toActivate \ {i} /\ f.activateAt <= elapsed
      /\ disturbances' = [disturbances EXCEPT ![f.disturbance] = f.magnitude]
  BY DEF Activate, InjectFault, DueActivations, Due, ActivateAt
<1>2. f.disturbance \in Disturbances
  BY FaultOf
<1>3. \A d \in Disturbances :
         disturbances'[d] = IF d = f.disturbance THEN f.magnitude ELSE disturbances[d]
  BY <1>1, <1>2 DEF SimulatorTypeOK, Vector
<1>4. ASSUME NEW j \in DOMAIN s.faults PROVE FaultState(s, j)'
  <2>1. s.faults[j].disturbance \in Disturbances /\ FaultState(s, j) /\ FaultState(s, i)
    BY FaultOf DEF FaultsInv
  <2>2. CASE j = i
    BY <1>1, <1>2, <1>3, <2>1, <2>2 DEF FaultState, Cleared
  <2>3. CASE j # i
    <3>1. s.faults[j].disturbance # f.disturbance
      BY <2>3 DEF SingleFaults
    <3> QED  BY <1>1, <1>3, <2>1, <2>3, <3>1 DEF FaultState, Cleared
  <2> QED  BY <2>2, <2>3
<1>5. ASSUME NEW d \in Disturbances, \A j \in DOMAIN s.faults : s.faults[j].disturbance # d
      PROVE  disturbances'[d] = 0
  BY <1>3, <1>5 DEF FaultsInv
<1> QED  BY <1>1, <1>4, <1>5 DEF FaultsInv

(* Clearing a fault names its disturbance, which no other fault shares.    *)
LEMMA ClearFaults ==
  ASSUME SingleFaults, SimulatorTypeOK, elapsed \in Nat,
         NEW s \in Scenarios, s = scenario, FaultsInv(s),
         toClear \subseteq DOMAIN s.faults, NEW i \in toClear, Clear(i)
  PROVE  FaultsInv(s)'
<1> DEFINE f == s.faults[i]
<1>1. /\ phase = "running" /\ UNCHANGED <<phase, elapsed, toActivate>>
      /\ toClear' = toClear \ {i} /\ f.activateAt + f.duration <= elapsed
      /\ disturbances' = [disturbances EXCEPT ![f.disturbance] = 0]
      /\ DueActivations = {}
  BY DEF Clear, InjectFault, DueClears, Due, ClearAt
<1>2. f.disturbance \in Disturbances /\ f.activateAt \in Nat /\ f.duration \in Nat
  BY FaultOf
<1>3. \A d \in Disturbances :
         disturbances'[d] = IF d = f.disturbance THEN 0 ELSE disturbances[d]
  BY <1>1, <1>2 DEF SimulatorTypeOK, Vector
<1>4. i \notin toActivate
  <2>1. f.activateAt <= elapsed
    <3> HIDE DEF f
    <3> QED  BY <1>1, <1>2
  <2> QED  BY <1>1, <2>1 DEF DueActivations, Due, ActivateAt
<1>5. ASSUME NEW j \in DOMAIN s.faults PROVE FaultState(s, j)'
  <2>1. s.faults[j].disturbance \in Disturbances /\ FaultState(s, j) /\ FaultState(s, i)
    BY FaultOf DEF FaultsInv
  <2>2. CASE j = i
    BY <1>1, <1>2, <1>3, <1>4, <2>1, <2>2 DEF FaultState, Cleared
  <2>3. CASE j # i
    <3>1. s.faults[j].disturbance # f.disturbance
      BY <2>3 DEF SingleFaults
    <3> QED  BY <1>1, <1>3, <2>1, <2>3, <3>1 DEF FaultState, Cleared
  <2> QED  BY <2>2, <2>3
<1>6. ASSUME NEW d \in Disturbances, \A j \in DOMAIN s.faults : s.faults[j].disturbance # d
      PROVE  disturbances'[d] = 0
  BY <1>3, <1>6 DEF FaultsInv
<1> QED  BY <1>1, <1>5, <1>6 DEF FaultsInv

(* Time goes on under a vector that stays.                                 *)
LEMMA FaultsKept ==
  ASSUME NEW s \in Scenarios, FaultsInv(s), elapsed \in Nat, elapsed' \in Nat,
         UNCHANGED <<disturbances, toActivate, toClear>>, elapsed <= elapsed',
         phase' = "warmup" => phase = "warmup"
  PROVE  FaultsInv(s)'
<1>1. ASSUME NEW i \in DOMAIN s.faults PROVE FaultState(s, i)'
  <2>1. s.faults[i].activateAt \in Nat /\ s.faults[i].duration \in Nat
    BY FaultOf
  <2>2. FaultState(s, i)
    BY DEF FaultsInv
  <2> QED  BY <2>1, <2>2 DEF FaultState, Cleared
<1> QED  BY <1>1 DEF FaultsInv

(* ScheduleInv is inductive: one step per action.                          *)
LEMMA NextScheduleInv ==
  ASSUME SingleFaults, TypeInv, ScheduleInv, [Next]_vars
  PROVE  ScheduleInv'
<1> SUFFICES ASSUME phase' # "idle", NEW s \in Scenarios, s = scenario'
             PROVE  FaultsInv(s)' /\ LoopInv(s)' /\ OnCourse(s, elapsed)'
  BY DEF ScheduleInv
<1>s. s.warmup \in Nat /\ s.duration \in Nat \ {0} /\ s.sync \in Nat \ {0} /\ s.seed \in Seeds
  BY ScenarioAssumption
<1>t. SimulatorTypeOK /\ elapsed \in Nat /\ elapsed' \in Nat /\ SimulatorTypeOK'
  BY NextTypeInv DEF TypeInv, TypeOK
<1>h. ASSUME phase # "idle", UNCHANGED prepared
      PROVE  /\ s = scenario /\ Total = s.warmup + s.duration
             /\ FaultsInv(s) /\ LoopInv(s) /\ OnCourse(s, elapsed)
             /\ toActivate \subseteq DOMAIN s.faults /\ toClear \subseteq DOMAIN s.faults
  <2>1. s = scenario
    BY <1>h DEF scenario, generation
  <2> QED  BY <1>h, <2>1 DEF ScheduleInv, Total, TypeInv, TypeOK
<1>1. CASE Prepare(s)
  <2>1. /\ seed' = s.seed /\ disturbances' = AllOff /\ history' = <<>> /\ elapsed' = 0
        /\ toActivate' = DOMAIN s.faults /\ phase' = "warmup"
        /\ toClear' = {i \in DOMAIN s.faults : s.faults[i].duration # 0}
    BY <1>1 DEF Prepare, Reset
  <2>2. ASSUME NEW i \in DOMAIN s.faults PROVE FaultState(s, i)'
    BY <2>1, FaultOf DEF FaultState, Cleared, AllOff
  <2>3. FaultsInv(s)'
    BY <2>1, <2>2 DEF FaultsInv, AllOff
  <2>4. LoopInv(s)'
    BY <1>s, <2>1 DEF LoopInv
  <2>5. Course(s, 0) = <<>>
    BY DEF Course
  <2>6. OnCourse(s, elapsed)'
    <3>1. Len(history') = 0 /\ 0..(0 - 1) = {}
      BY <2>1
    <3> QED  BY <2>1, <2>5, <3>1 DEF OnCourse
  <2> QED  BY <2>3, <2>4, <2>6
<1>2. CASE WarmupStep
  <2> DEFINE d == StepTo(s.warmup)
  <2>1. /\ phase = "warmup" /\ phase' = "warmup" /\ UNCHANGED <<prepared, toActivate, toClear>>
        /\ UNCHANGED disturbances
    BY <1>2 DEF WarmupStep, StepPlant
  <2>2. /\ s = scenario /\ FaultsInv(s) /\ LoopInv(s) /\ OnCourse(s, elapsed)
    BY <1>h, <2>1
  <2>3. elapsed < s.warmup /\ StepPlant(d) /\ elapsed' = elapsed + d
    BY <1>2, <2>2 DEF WarmupStep, Elapse
  <2>4. d \in Nat /\ elapsed + d <= s.warmup
    BY <1>s, <1>t, <2>2, <2>3 DEF StepTo
  <2>5. disturbances = AllOff
    BY <1>t, <2>1, <2>2, WarmupOff
  <2> HIDE DEF d
  <2>6. PICK t \in Nat, e \in Nat : t = elapsed /\ e = d
    BY <1>t, <2>4
  <2>7. \A i \in (t + 1)..(t + e) : Interval(s, i) = disturbances
    BY <1>s, <2>4, <2>5, <2>6 DEF Interval
  <2>8. OnCourse(s, t + e)'
    BY <1>t, <2>2, <2>3, <2>6, <2>7, PlantStep
  <2>9. OnCourse(s, elapsed)'
    BY <2>3, <2>6, <2>8 DEF OnCourse
  <2>10. FaultsInv(s)'
    BY <1>t, <2>1, <2>2, <2>3, <2>4, FaultsKept
  <2>11. LoopInv(s)'
    BY <2>1, <2>3, <2>4 DEF LoopInv
  <2> QED  BY <2>9, <2>10, <2>11
<1>3. CASE FinishWarmup
  <2>1. /\ phase = "warmup" /\ phase' = "entities" /\ elapsed >= scenario.warmup
        /\ UNCHANGED <<prepared, toActivate, toClear, elapsed, disturbances, history, seed>>
    BY <1>3 DEF FinishWarmup, simulatorVars
  <2>2. s = scenario /\ FaultsInv(s) /\ LoopInv(s) /\ OnCourse(s, elapsed)
    BY <1>h, <2>1
  <2>3. elapsed = s.warmup
    BY <1>s, <1>t, <2>1, <2>2 DEF LoopInv
  <2>4. elapsed \in Boundaries(s)
    <3>1. (s.warmup - s.warmup) % s.sync = 0
      BY <1>s
    <3> QED  BY <1>s, <2>3, <3>1 DEF Boundaries
  <2>5. FaultsInv(s)'
    BY <1>t, <2>1, <2>2, FaultsKept
  <2>6. LoopInv(s)'
    BY <2>1, <2>4 DEF LoopInv
  <2> QED  BY <2>1, <2>2, <2>5, <2>6 DEF OnCourse
<1>4. ASSUME phase \notin {"idle", "warmup"}, phase' # "warmup",
             UNCHANGED <<prepared, elapsed, toActivate, toClear, disturbances, history, seed>>
      PROVE  FaultsInv(s)' /\ LoopInv(s)' /\ OnCourse(s, elapsed)'
  <2>1. s = scenario /\ FaultsInv(s) /\ LoopInv(s) /\ OnCourse(s, elapsed)
    BY <1>4, <1>h
  <2>2. FaultsInv(s)'
    BY <1>4, <1>t, <2>1, FaultsKept
  <2> QED  BY <1>4, <2>1, <2>2 DEF LoopInv, OnCourse
<1>5. CASE SyncEntities \/ SyncRelationships \/ SyncObservations \/ FinishSync
           \/ \E topic \in Topics : SyncTopic(topic)
  <2>1. /\ phase \notin {"idle", "warmup"} /\ phase' # "warmup"
        /\ UNCHANGED <<prepared, elapsed, toActivate, toClear, disturbances, history, seed>>
    BY <1>5 DEF SyncEntities, SyncRelationships, SyncObservations, FinishSync, SyncTopic,
       SyncStep, simulatorVars
  <2> QED  BY <1>4, <2>1
<1>6. ASSUME NEW i \in toActivate, Activate(i)
      PROVE  FaultsInv(s)' /\ LoopInv(s)' /\ OnCourse(s, elapsed)'
  <2>1. phase = "running" /\ UNCHANGED <<prepared, elapsed, phase, history, seed>>
    BY <1>6 DEF Activate, InjectFault
  <2>2. /\ s = scenario /\ FaultsInv(s) /\ LoopInv(s) /\ OnCourse(s, elapsed)
        /\ toActivate \subseteq DOMAIN s.faults
    BY <1>h, <2>1
  <2>3. FaultsInv(s)'
    BY <1>6, <1>t, <2>2, ActivateFaults
  <2> QED  BY <2>1, <2>2, <2>3 DEF LoopInv, OnCourse
<1>7. ASSUME NEW i \in toClear, Clear(i)
      PROVE  FaultsInv(s)' /\ LoopInv(s)' /\ OnCourse(s, elapsed)'
  <2>1. phase = "running" /\ UNCHANGED <<prepared, elapsed, phase, history, seed>>
    BY <1>7 DEF Clear, InjectFault
  <2>2. /\ s = scenario /\ FaultsInv(s) /\ LoopInv(s) /\ OnCourse(s, elapsed)
        /\ toClear \subseteq DOMAIN s.faults
    BY <1>h, <2>1
  <2>3. FaultsInv(s)'
    BY <1>7, <1>t, <2>2, ClearFaults
  <2> QED  BY <2>1, <2>2, <2>3 DEF LoopInv, OnCourse
<1>8. CASE RunStep
  <2> DEFINE d == StepTo(Total)
  <2>1. /\ phase = "running" /\ phase' = "entities"
        /\ UNCHANGED <<prepared, toActivate, toClear, disturbances>>
        /\ DueActivations = {} /\ DueClears = {}
        /\ StepPlant(d) /\ elapsed' = elapsed + d
    BY <1>8 DEF RunStep, StepPlant, Elapse
  <2>2. /\ s = scenario /\ FaultsInv(s) /\ LoopInv(s) /\ OnCourse(s, elapsed)
        /\ Total = s.warmup + s.duration
    BY <1>h, <2>1
  <2>3. elapsed \in Boundaries(s) /\ elapsed < s.warmup + s.duration
    BY <2>1, <2>2 DEF LoopInv, TypeInv, Running
  <2>4. d = IF s.sync <= (s.warmup + s.duration) - elapsed
            THEN s.sync ELSE (s.warmup + s.duration) - elapsed
    BY <2>2 DEF StepTo
  <2> HIDE DEF d
  <2>5. /\ d \in Nat \ {0} /\ elapsed + d \in Boundaries(s)
        /\ \A t \in elapsed..(elapsed + d - 1) : LastBoundary(s, t) = elapsed
    BY <2>3, <2>4, NextBoundary
  <2>6. disturbances = Scheduled(s, elapsed)
    BY <1>t, <2>1, <2>2, VectorScheduled
  <2>7. s.warmup <= elapsed
    BY <1>s, <2>3 DEF Boundaries
  <2>8. PICK t \in Nat, e \in Nat : t = elapsed /\ e = d
    BY <1>t, <2>5
  <2>9. \A i \in (t + 1)..(t + e) : Interval(s, i) = disturbances
    <3> TAKE i \in (t + 1)..(t + e)
    <3>1. ~(i <= s.warmup) /\ i - 1 \in elapsed..(elapsed + d - 1)
      BY <1>s, <2>7, <2>8
    <3> QED  BY <2>5, <2>6, <3>1 DEF Interval
  <2>10. OnCourse(s, t + e)'
    BY <1>t, <2>1, <2>2, <2>8, <2>9, PlantStep
  <2>11. OnCourse(s, elapsed)'
    BY <2>1, <2>8, <2>10 DEF OnCourse
  <2>12. FaultsInv(s)'
    <3>1. elapsed <= elapsed'
      BY <1>t, <2>1, <2>5
    <3> QED  BY <1>t, <2>1, <2>2, <3>1, FaultsKept
  <2>13. LoopInv(s)'
    BY <2>1, <2>5 DEF LoopInv
  <2> QED  BY <2>11, <2>12, <2>13
<1>9. CASE UNCHANGED vars
  <2>1. UNCHANGED <<prepared, elapsed, phase, toActivate, toClear, disturbances, history, seed>>
    BY <1>9 DEF vars, simulatorVars, runnerVars
  <2>2. s = scenario /\ FaultsInv(s) /\ LoopInv(s) /\ OnCourse(s, elapsed)
    BY <1>h, <2>1
  <2> QED  BY <2>1, <2>2 DEF FaultsInv, FaultState, Cleared, LoopInv, OnCourse
<1>10. ASSUME NEW r \in Scenarios, Prepare(r) PROVE r = s
  BY <1>10 DEF Prepare, scenario, generation, TypeInv, TypeOK
<1>11. ~Leave
  BY DEF Leave
<1> QED
  BY <1>1, <1>2, <1>3, <1>5, <1>6, <1>7, <1>8, <1>9, <1>10, <1>11 DEF Next, Step

(* When every fault has a disturbance of its own, each interval of every   *)
(* preparation, however long, ran under the vector scheduled at the last   *)
(* snapshot before it: no fault early, none lost, each cleared on time,    *)
(* and a plant that trips stays on its course.                             *)
THEOREM ScheduleFollowed == SingleFaults => (Spec => []PlantFollowsSchedule)
<1> SUFFICES ASSUME SingleFaults PROVE Spec => []PlantFollowsSchedule
  OBVIOUS
<1>1. Init => ScheduleInv
  BY DEF Init, ScheduleInv
<1>2. TypeInv /\ ScheduleInv /\ [Next]_vars => ScheduleInv'
  BY NextScheduleInv
<1>3. TypeInv /\ ScheduleInv => PlantFollowsSchedule
  <2> SUFFICES ASSUME TypeInv, ScheduleInv, phase # "idle", NEW t \in DOMAIN history
               PROVE  history[t] = IF t <= scenario.warmup THEN AllOff
                                   ELSE Scheduled(scenario, LastBoundary(scenario, t - 1))
    BY DEF PlantFollowsSchedule
  <2>1. PICK s \in Scenarios : s = scenario
    BY ScenarioTypes DEF TypeInv, TypeOK
  <2>2. history = Course(s, Len(history)) /\ DOMAIN history = 1..Len(history)
    BY <2>1 DEF ScheduleInv, OnCourse, TypeInv, TypeOK, SimulatorTypeOK
  <2>3. history[t] = Interval(s, t)
    BY <2>2 DEF Course
  <2> QED  BY <2>1, <2>3 DEF Interval
<1> QED  BY <1>1, <1>2, <1>3, InitTypeInv, NextTypeInv, PTL DEF Spec
-----------------------------------------------------------------------------
(***************************************************************************)
(* The historian's rows.  Scenarios that share a seed share a day of rows, *)
(* and the first writer wins: each needs a seed of its own.                *)
(***************************************************************************)
SeparateDays ==
    /\ \A r, s \in Scenarios : r.seed = s.seed => r = s
    /\ \A s \in Scenarios : s.warmup + s.duration < DayLength

(* The rows a scenario can leave: one for each snapshot its plant reaches, *)
(* and one for the moment the plant trips.                                 *)
RowOf(s, t) ==
    /\ t \in 0..(s.warmup + s.duration)
    /\ t \in Boundaries(s) \/ Trips(s.seed, Course(s, t))
    /\ \A k \in 0..(t - 1) : ~Trips(s.seed, Course(s, k))

RowTrue(row) == \E s \in Scenarios, t \in Nat :
    /\ row = Timestamp(s.seed, t)
    /\ RowOf(s, t)
    /\ observations[row].value = [seed |-> s.seed, history |-> Course(s, t)]

(* The snapshots behind the running preparation are in the historian.      *)
SnapshotTime(b) == IF b <= Time THEN b ELSE Time

RowThere(s, b) == Timestamp(s.seed, SnapshotTime(b)) \in DOMAIN observations

Recorded == phase \in {"publishing", "running", "ready"}

RowInv ==
    /\ \A row \in DOMAIN observations : RowTrue(row)
    /\ phase # "idle" => \A s \in Scenarios : s = scenario =>
          \A b \in Boundaries(s) :
              b < elapsed \/ (b = elapsed /\ Recorded) => RowThere(s, b)
    /\ phase = "ready" => elapsed >= Total

(* A timestamp tells the day.                                              *)
LEMMA DayOf ==
  ASSUME NEW D \in Nat \ {0}, NEW a \in Nat, NEW b \in Nat, NEW t \in Nat, t < D,
         b * D <= a * D + t, a * D + t < b * D + D
  PROVE  a = b
<1>1. CASE a < b
  <2>1. (a + 1) * D <= b * D
    BY <1>1
  <2>2. (a + 1) * D = a * D + D
    OBVIOUS
  <2> QED  BY <2>1, <2>2
<1>2. CASE b < a
  <2>1. (b + 1) * D <= a * D
    BY <1>2
  <2>2. (b + 1) * D = b * D + D
    OBVIOUS
  <2> QED  BY <2>1, <2>2
<1> QED  BY <1>1, <1>2

(* The beginning of a plant's history is the history it had then.          *)
LEMMA Beginning ==
  ASSUME NEW s \in Scenarios, NEW n \in Nat, NEW t \in 0..n,
         Course(s, n) \in Seq(Vector)
  PROVE  SubSeq(Course(s, n), 1, t) = Course(s, t)
<1>1. Len(Course(s, n)) = n
  BY DEF Course
<1>2. \A i \in 1..t : Course(s, n)[i] = Interval(s, i)
  BY DEF Course
<1> DEFINE h == Course(s, n)
<1> HIDE DEF h
<1>3. t \in Nat /\ t <= Len(h) /\ h \in Seq(Vector)
  BY <1>1 DEF h
<1>4. /\ DOMAIN SubSeq(h, 1, t) = 1..t
      /\ \A i \in 1..t : SubSeq(h, 1, t)[i] = h[i]
  BY <1>3
<1>5. SubSeq(h, 1, t) = [i \in 1..t |-> SubSeq(h, 1, t)[i]]
  BY <1>3, <1>4
<1>6. SubSeq(h, 1, t) = [i \in 1..t |-> Interval(s, i)]
  BY <1>2, <1>4, <1>5 DEF h
<1> QED  BY <1>6 DEF h, Course

(* The snapshot being taken is a row of the plant's own course.            *)
LEMMA SnapshotRow ==
  ASSUME SimulatorTypeOK, NEW s \in Scenarios, elapsed \in Nat, OnCourse(s, elapsed),
         elapsed \in Boundaries(s)
  PROVE  /\ Time \in Nat /\ Time <= elapsed
         /\ RowOf(s, Time)
         /\ Measured = [seed |-> s.seed, history |-> Course(s, Time)]
<1>1. Time \in Nat /\ Time <= elapsed
  BY DEF OnCourse, SimulatorTypeOK, Time
<1>2. s.warmup \in Nat /\ s.duration \in Nat
  BY ScenarioAssumption
<1>3. elapsed <= s.warmup + s.duration
  BY <1>2 DEF Boundaries
<1>4. Time \in 0..(s.warmup + s.duration)
  BY <1>1, <1>2, <1>3
<1>5. Time \in Boundaries(s) \/ Trips(s.seed, Course(s, Time))
  BY DEF OnCourse, Time
<1>6. \A k \in 0..(Time - 1) : ~Trips(s.seed, Course(s, k))
  BY DEF OnCourse, Time
<1>7. RowOf(s, Time)
  BY <1>4, <1>5, <1>6 DEF RowOf
<1>8. Measured = [seed |-> s.seed, history |-> Course(s, Time)]
  BY DEF Measured, OnCourse, Time
<1> QED  BY <1>1, <1>7, <1>8

(* A plant's history only grows.                                           *)
LEMMA PlantLater ==
  ASSUME SimulatorTypeOK, NEW d \in Nat, StepPlant(d)
  PROVE  Len(history) <= Len(history')
<1>1. PICK n \in 0..d : history' = history \o [i \in 1..n |-> disturbances]
  BY DEF StepPlant, After
<1>2. [i \in 1..n |-> disturbances] \in Seq(Vector) /\ Len([i \in 1..n |-> disturbances]) = n
  BY DEF SimulatorTypeOK
<1> DEFINE more == [i \in 1..n |-> disturbances]
<1> HIDE DEF more
<1>3. history \in Seq(Vector) /\ more \in Seq(Vector) /\ Len(more) = n
  BY <1>2 DEF SimulatorTypeOK, more
<1>4. Len(history \o more) = Len(history) + n
  BY <1>3
<1> QED  BY <1>1, <1>3, <1>4 DEF more

(* RowInv is inductive: a row is written once, by a snapshot, and a step   *)
(* of the run leaves no snapshot out.                                      *)
LEMMA NextRowInv ==
  ASSUME SingleFaults, TypeInv, ScheduleInv, RowInv, [Next]_vars
  PROVE  RowInv'
<1>t. SimulatorTypeOK /\ elapsed \in Nat /\ SimulatorTypeOK' /\ elapsed' \in Nat
  BY NextTypeInv DEF TypeInv, TypeOK
<1>c. ScheduleInv'
  BY NextScheduleInv
<1>1. ASSUME UNCHANGED observations
      PROVE  \A row \in DOMAIN observations' : RowTrue(row)'
  <2> TAKE row \in DOMAIN observations'
  <2>1. RowTrue(row)
    BY <1>1 DEF RowInv
  <2> QED  BY <1>1, <2>1 DEF RowTrue, Timestamp, RowOf, Course, Interval
<1>2. ASSUME UNCHANGED <<observations, prepared, elapsed, history>>, phase # "idle",
             phase' # "idle", Recorded' => Recorded,
             phase' = "ready" => phase = "ready" \/ elapsed >= Total
      PROVE  RowInv'
  <2>1. UNCHANGED <<scenario, Total, Time>>
    BY <1>2 DEF scenario, generation, Total, Time
  <2>2. ASSUME NEW s \in Scenarios, s = scenario', NEW b \in Boundaries(s),
               b < elapsed' \/ (b = elapsed' /\ Recorded')
        PROVE  RowThere(s, b)'
    <3>1. RowThere(s, b)
      BY <1>2, <1>t, <2>1, <2>2 DEF RowInv
    <3> QED  BY <1>2, <2>1, <3>1 DEF RowThere, SnapshotTime, Timestamp
  <2>3. phase' = "ready" => elapsed' >= Total'
    BY <1>2, <2>1 DEF RowInv
  <2> QED  BY <1>1, <1>2, <2>2, <2>3 DEF RowInv
<1>3. ASSUME NEW r \in Scenarios, Prepare(r) PROVE RowInv'
  <2>1. UNCHANGED observations /\ elapsed' = 0 /\ phase' = "warmup"
    BY <1>3 DEF Prepare, storeVars
  <2>2. ASSUME NEW s \in Scenarios, NEW b \in Boundaries(s) PROVE b \in Nat
    BY ScenarioAssumption DEF Boundaries
  <2> QED  BY <1>1, <2>1, <2>2 DEF RowInv, Recorded
<1>4. CASE WarmupStep
  <2>1. UNCHANGED <<observations, prepared>> /\ phase' = "warmup"
    BY <1>4 DEF WarmupStep, storeVars
  <2>2. ASSUME NEW s \in Scenarios, s = scenario', NEW b \in Boundaries(s)
        PROVE  ~(b < elapsed')
    <3>1. s.warmup \in Nat /\ s.duration \in Nat /\ elapsed' <= s.warmup
      BY <1>c, <2>1, <2>2, ScenarioAssumption DEF ScheduleInv, LoopInv
    <3> QED  BY <1>t, <3>1 DEF Boundaries
  <2> QED  BY <1>1, <2>1, <2>2 DEF RowInv, Recorded
<1>5. CASE FinishWarmup \/ SyncEntities \/ SyncRelationships
  BY <1>2, <1>5 DEF FinishWarmup, SyncEntities, SyncRelationships, SyncStep,
     WriteEntities, WriteRelationships, storeVars, simulatorVars, Recorded
<1>6. CASE (\E topic \in Topics : SyncTopic(topic)) \/ FinishSync
  <2>1. /\ phase = "publishing"
        /\ UNCHANGED <<observations, prepared, elapsed, history>>
        /\ \/ phase' = "publishing"
           \/ phase' = IF elapsed < Total THEN "running" ELSE "ready"
    BY <1>6 DEF SyncTopic, FinishSync, SyncStep, Publish, storeVars, simulatorVars
  <2>2. Total \in Nat
    BY <2>1, ScenarioTypes DEF TypeInv, TypeOK
  <2>3. phase' = "ready" => elapsed >= Total
    BY <1>t, <2>1, <2>2
  <2> QED  BY <1>2, <2>1, <2>3 DEF Recorded
<1>7. ASSUME NEW i, Activate(i) \/ Clear(i) PROVE RowInv'
  BY <1>2, <1>7 DEF Activate, Clear, InjectFault, storeVars, Recorded
<1>8. CASE Leave
  BY <1>1, <1>8 DEF Leave, storeVars, RowInv
<1>9. CASE UNCHANGED vars
  <2>1. UNCHANGED <<observations, prepared, elapsed, history, phase>>
    BY <1>9 DEF vars, storeVars, simulatorVars, runnerVars
  <2>2. CASE phase = "idle"
    BY <1>1, <2>1, <2>2 DEF RowInv
  <2>3. CASE phase # "idle"
    BY <1>2, <2>1, <2>3 DEF Recorded
  <2> QED  BY <2>2, <2>3
<1>10. CASE SyncObservations
  <2> DEFINE now == Timestamp(seed, Time)
  <2>1. /\ phase = "observations" /\ phase' = "publishing"
        /\ UNCHANGED <<seed, history, prepared, elapsed>>
        /\ WriteObservations(now, Measured, generation)
    BY <1>10 DEF SyncObservations, SyncStep, simulatorVars
  <2>2. DOMAIN observations' = DOMAIN observations \cup {now}
    BY <2>1 DEF WriteObservations
  <2>3. PICK s \in Scenarios : s = scenario
    BY <2>1, ScenarioTypes DEF TypeInv, TypeOK
  <2>4. OnCourse(s, elapsed) /\ elapsed \in Boundaries(s) /\ seed = s.seed
    BY <2>1, <2>3 DEF ScheduleInv, LoopInv, OnCourse
  <2>5. PICK t \in Nat : /\ t = Time /\ t <= elapsed /\ RowOf(s, t)
                         /\ Measured = [seed |-> s.seed, history |-> Course(s, t)]
    BY <1>t, <2>4, SnapshotRow
  <2>6. now = Timestamp(s.seed, t)
    BY <2>4, <2>5
  <2>7. ASSUME NEW row \in DOMAIN observations' PROVE RowTrue(row)'
    <3>1. CASE row \in DOMAIN observations
      <4>1. RowTrue(row) /\ observations'[row] = observations[row]
        BY <2>1, <2>2, <3>1 DEF RowInv, WriteObservations
      <4> QED  BY <4>1 DEF RowTrue, Timestamp, RowOf, Course, Interval
    <3>2. CASE row \notin DOMAIN observations
      <4>1. row = Timestamp(s.seed, t) /\ observations'[row].value = Measured
        BY <2>1, <2>2, <2>6, <3>2 DEF WriteObservations
      <4> QED  BY <2>5, <4>1 DEF RowTrue, Timestamp, RowOf, Course, Interval
    <3> QED  BY <3>1, <3>2
  <2>8. UNCHANGED <<scenario, Time>>
    BY <2>1 DEF scenario, generation, Time
  <2>9. ASSUME NEW b \in Boundaries(s), b < elapsed \/ b = elapsed PROVE RowThere(s, b)'
    <3>1. CASE b < elapsed
      <4>1. RowThere(s, b)
        BY <2>1, <2>3, <3>1 DEF RowInv
      <4> QED  BY <2>2, <2>8, <4>1 DEF RowThere, SnapshotTime, Timestamp
    <3>2. CASE b = elapsed
      <4>1. SnapshotTime(b) = t
        BY <1>t, <2>5, <3>2 DEF SnapshotTime
      <4>2. SnapshotTime(b)' = t
        BY <2>8, <4>1 DEF SnapshotTime
      <4> QED  BY <2>2, <2>6, <4>2 DEF RowThere, Timestamp
    <3> QED  BY <2>9, <3>1, <3>2
  <2> QED  BY <2>1, <2>3, <2>7, <2>8, <2>9 DEF RowInv
<1>11. CASE RunStep
  <2> DEFINE d == StepTo(Total)
  <2>1. /\ phase = "running" /\ phase' = "entities"
        /\ UNCHANGED <<prepared, observations, seed, disturbances>>
        /\ DueActivations = {} /\ DueClears = {}
        /\ StepPlant(d) /\ elapsed' = elapsed + d
    BY <1>11 DEF RunStep, StepPlant, Elapse, storeVars
  <2>2. PICK s \in Scenarios : s = scenario
    BY <2>1, ScenarioTypes DEF TypeInv, TypeOK
  <2>3. /\ OnCourse(s, elapsed) /\ elapsed \in Boundaries(s)
        /\ Total = s.warmup + s.duration
    BY <2>1, <2>2 DEF ScheduleInv, LoopInv, Total
  <2>4. s = scenario'
    BY <2>1, <2>2 DEF scenario, generation
  <2>5. /\ d \in Nat \ {0}
        /\ \A b \in Boundaries(s) : elapsed < b => elapsed + d <= b
    <3>1. elapsed < s.warmup + s.duration
      BY <2>1, <2>3 DEF TypeInv, Running
    <3>2. d = IF s.sync <= (s.warmup + s.duration) - elapsed
              THEN s.sync ELSE (s.warmup + s.duration) - elapsed
      BY <2>2, <2>3 DEF StepTo
    <3> HIDE DEF d
    <3> QED  BY <2>3, <3>1, <3>2, NextBoundary
  <2> HIDE DEF d
  <2>6. OnCourse(s, elapsed)'
    BY <1>c, <2>1, <2>4 DEF ScheduleInv
  <2>7. /\ Time \in Nat /\ Time' \in Nat /\ Time <= elapsed /\ Time <= Time'
        /\ Time < elapsed => Time' = Time
    <3>1. /\ Time \in Nat /\ Time' \in Nat /\ Time <= elapsed
      BY <1>t, <2>3 DEF Time, OnCourse, SimulatorTypeOK
    <3>2. Time <= Time'
      BY <1>t, <2>1, <2>5, PlantLater DEF Time
    <3>3. ASSUME Time < elapsed PROVE ~(Time < Time')
      <4>1. Trips(s.seed, Course(s, Time))
        BY <1>t, <2>3, <3>1, <3>3 DEF OnCourse, Time
      <4>2. \A k \in 0..(Time' - 1) : ~Trips(s.seed, Course(s, k))
        BY <2>6 DEF OnCourse, Time
      <4>3. Time \notin 0..(Time' - 1)
        BY <4>1, <4>2, Zenon
      <4>4. \A a, b \in Nat : a < b => a \in 0..(b - 1)
        OBVIOUS
      <4> QED  BY <3>1, <4>3, <4>4
    <3> QED  BY <3>1, <3>2, <3>3
  <2>8. ASSUME NEW b \in Boundaries(s), b < elapsed' PROVE RowThere(s, b)'
    <3>1. b \in Nat
      BY ScenarioAssumption DEF Boundaries
    <3>2. b <= elapsed
      BY <1>t, <2>1, <2>5, <2>8, <3>1
    <3>3. RowThere(s, b)
      BY <1>t, <2>1, <2>2, <3>1, <3>2 DEF RowInv, Recorded
    <3>4. SnapshotTime(b)' = SnapshotTime(b)
      BY <1>t, <2>7, <3>1, <3>2 DEF SnapshotTime
    <3> QED  BY <2>1, <3>3, <3>4 DEF RowThere, Timestamp
  <2> QED  BY <1>1, <2>1, <2>4, <2>8 DEF RowInv, Recorded
<1> QED
  BY <1>3, <1>4, <1>5, <1>6, <1>7, <1>8, <1>9, <1>10, <1>11 DEF Next, Step

(* The rows of a scenario's day are that scenario's.                       *)
LEMMA RowsOfDay ==
  ASSUME SeparateDays, RowInv, NEW s \in Scenarios, NEW row \in DOMAIN observations,
         Timestamp(s.seed, 0) <= row, row < Timestamp(s.seed, DayLength)
  PROVE  \E t \in Nat :
            /\ row = Timestamp(s.seed, t)
            /\ RowOf(s, t)
            /\ observations[row].value = [seed |-> s.seed, history |-> Course(s, t)]
<1>1. PICK r \in Scenarios, t \in Nat :
         /\ row = Timestamp(r.seed, t)
         /\ RowOf(r, t)
         /\ observations[row].value = [seed |-> r.seed, history |-> Course(r, t)]
  BY DEF RowInv, RowTrue
<1>2. /\ r.seed \in Nat /\ s.seed \in Nat /\ DayLength \in Nat \ {0}
      /\ r.warmup \in Nat /\ r.duration \in Nat
  BY ScenarioAssumption, SimulatorAssumption
<1>3. t < DayLength
  <2>1. t \in 0..(r.warmup + r.duration) /\ r.warmup + r.duration < DayLength
    BY <1>1 DEF RowOf, SeparateDays
  <2> QED  BY <1>2, <2>1
<1>4. /\ s.seed * DayLength <= r.seed * DayLength + t
      /\ r.seed * DayLength + t < s.seed * DayLength + DayLength
  BY <1>1, <1>2 DEF Timestamp
<1>5. r.seed = s.seed
  BY <1>2, <1>3, <1>4, DayOf
<1>6. r = s
  BY <1>5 DEF SeparateDays
<1> QED  BY <1>1, <1>6

(* A plant that has been handed over is on its course, at the end of it    *)
(* or where it tripped, and has every snapshot in the historian.           *)
LEMMA HandedOver ==
  ASSUME TypeInv, ScheduleInv, RowInv, phase = "ready", NEW s \in Scenarios, s = scenario
  PROVE  /\ seed = s.seed /\ elapsed = s.warmup + s.duration
         /\ Time \in 0..elapsed /\ elapsed \in Boundaries(s)
         /\ history = Course(s, Time)
         /\ Time = elapsed \/ Trips(s.seed, Course(s, Time))
         /\ \A k \in 0..(Time - 1) : ~Trips(s.seed, Course(s, k))
         /\ \A b \in Boundaries(s) : b \in 0..elapsed /\ RowThere(s, b)
<1>1. s.warmup \in Nat /\ s.duration \in Nat
  BY ScenarioAssumption
<1>2. OnCourse(s, elapsed) /\ elapsed \in Boundaries(s)
  BY DEF ScheduleInv, LoopInv
<1>3. elapsed = s.warmup + s.duration
  BY <1>1, <1>2 DEF RowInv, Total, Boundaries
<1>4. Time \in 0..elapsed
  BY <1>1, <1>2, <1>3 DEF OnCourse, Time, TypeInv, TypeOK, SimulatorTypeOK
<1>5. \A b \in Boundaries(s) : b \in 0..elapsed
  BY <1>1, <1>3 DEF Boundaries
<1>6. \A b \in Boundaries(s) : RowThere(s, b)
  <2> TAKE b \in Boundaries(s)
  <2>1. b < elapsed \/ b = elapsed
    BY <1>1, <1>3, <1>5
  <2> QED  BY <2>1 DEF RowInv, Recorded
<1>7. /\ seed = s.seed /\ history = Course(s, Time)
      /\ Time = elapsed \/ Trips(s.seed, Course(s, Time))
      /\ \A k \in 0..(Time - 1) : ~Trips(s.seed, Course(s, k))
  BY <1>2 DEF OnCourse, Time
<1> QED  BY <1>2, <1>3, <1>4, <1>5, <1>6, <1>7

(* A row of the plant's own scenario, whoever wrote it, is one of the      *)
(* snapshots this plant took: the kernel trips at the same moment again.   *)
LEMMA OwnSnapshots ==
  ASSUME NEW s \in Scenarios, NEW n \in Nat, NEW t \in Nat, RowOf(s, t),
         n <= s.warmup + s.duration,
         n = s.warmup + s.duration \/ Trips(s.seed, Course(s, n)),
         \A k \in 0..(n - 1) : ~Trips(s.seed, Course(s, k))
  PROVE  t <= n /\ (t \in Boundaries(s) \/ t = n)
<1>1. s.warmup \in Nat /\ s.duration \in Nat
  BY ScenarioAssumption
<1>2. \A a, b \in Nat : a < b => a \in 0..(b - 1)
  OBVIOUS
<1>3. ~(n < t)
  <2> SUFFICES ASSUME n < t PROVE FALSE
    OBVIOUS
  <2>1. t <= s.warmup + s.duration
    BY <1>1 DEF RowOf
  <2>2. Trips(s.seed, Course(s, n))
    <3>1. n # s.warmup + s.duration
      BY <1>1, <2>1
    <3> QED  BY <3>1
  <2>3. n \in 0..(t - 1)
    BY <1>2
  <2> QED  BY <2>2, <2>3 DEF RowOf
<1>4. CASE Trips(s.seed, Course(s, t))
  <2>1. t \notin 0..(n - 1)
    BY <1>4
  <2> QED  BY <1>2, <1>3, <2>1
<1>5. CASE t \in Boundaries(s)
  BY <1>3, <1>5
<1> QED  BY <1>4, <1>5 DEF RowOf

(* When a plant is handed over, the historian's rows of its day are        *)
(* exactly its snapshots, each with the value this plant had, although     *)
(* any number of earlier or abandoned preparations may have written them.  *)
THEOREM OwnTimelineKept == SingleFaults /\ SeparateDays => (Spec => []OwnTimeline)
<1> SUFFICES ASSUME SingleFaults, SeparateDays PROVE Spec => []OwnTimeline
  OBVIOUS
<1>1. Init => ScheduleInv /\ RowInv
  BY DEF Init, StoresInit, ScheduleInv, RowInv
<1>2. TypeInv /\ ScheduleInv /\ RowInv /\ [Next]_vars => ScheduleInv' /\ RowInv'
  BY NextScheduleInv, NextRowInv
<1>3. TypeInv /\ ScheduleInv /\ RowInv => OwnTimeline
  <2> SUFFICES ASSUME TypeInv, ScheduleInv, RowInv, phase = "ready" PROVE OwnTimeline
    BY DEF OwnTimeline
  <2>1. PICK s \in Scenarios : s = scenario
    BY ScenarioTypes DEF TypeInv, TypeOK
  <2>2. /\ s.warmup \in Nat /\ s.duration \in Nat /\ s.seed \in Nat
        /\ DayLength \in Nat \ {0} /\ s.warmup + s.duration < DayLength
    BY ScenarioAssumption, SimulatorAssumption DEF SeparateDays
  <2> DEFINE end == s.warmup + s.duration
  <2>3. /\ seed = s.seed /\ elapsed = end
        /\ Time \in 0..end /\ end \in Boundaries(s)
        /\ history = Course(s, Time)
        /\ Time = end \/ Trips(s.seed, Course(s, Time))
        /\ \A k \in 0..(Time - 1) : ~Trips(s.seed, Course(s, k))
        /\ \A b \in Boundaries(s) : b \in 0..end /\ RowThere(s, b)
    BY <2>1, HandedOver
  <2>4. PICK n \in Nat : n = Time /\ n <= end
    BY <2>2, <2>3
  <2>5. /\ SnapshotTimes = {SnapshotTime(b) : b \in Boundaries(s)}
        /\ \A b \in Boundaries(s) : SnapshotTime(b) = IF b <= n THEN b ELSE n
    BY <2>1, <2>4 DEF SnapshotTimes, SnapshotTime
  <2>6. \A t \in SnapshotTimes :
           t \in 0..n /\ Timestamp(s.seed, t) \in DOMAIN observations
    <3> TAKE t \in SnapshotTimes
    <3>1. PICK b \in Boundaries(s) : t = SnapshotTime(b)
      BY <2>5
    <3>2. b \in Nat /\ RowThere(s, b)
      BY <2>2, <2>3
    <3> QED  BY <2>4, <2>5, <3>1, <3>2 DEF RowThere
  <2>7. \A t \in 0..n : /\ Timestamp(s.seed, 0) <= Timestamp(s.seed, t)
                        /\ Timestamp(s.seed, t) < Timestamp(s.seed, DayLength)
    BY <2>2, <2>4 DEF Timestamp
  <2>8. ASSUME NEW row \in DOMAIN observations,
               Timestamp(s.seed, 0) <= row, row < Timestamp(s.seed, DayLength)
        PROVE  \E t \in SnapshotTimes :
                  /\ row = Timestamp(s.seed, t)
                  /\ observations[row].value = [seed |-> s.seed, history |-> Course(s, t)]
    <3>1. PICK t \in Nat :
             /\ row = Timestamp(s.seed, t)
             /\ RowOf(s, t)
             /\ observations[row].value = [seed |-> s.seed, history |-> Course(s, t)]
      BY <2>8, RowsOfDay
    <3>2. t <= n /\ (t \in Boundaries(s) \/ t = n)
      BY <2>3, <2>4, <3>1, OwnSnapshots
    <3>3. t \in SnapshotTimes
      <4>1. CASE t \in Boundaries(s)
        BY <2>5, <3>2, <4>1
      <4>2. CASE t = n
        <5>1. SnapshotTime(end) = n
          BY <2>2, <2>3, <2>4, <2>5
        <5> QED  BY <2>3, <2>5, <4>2, <5>1
      <4> QED  BY <3>2, <4>1, <4>2
    <3> QED  BY <3>1, <3>3
  <2>9. {t \in DOMAIN observations :
            Timestamp(seed, 0) <= t /\ t < Timestamp(seed, DayLength)}
          = {Timestamp(seed, t) : t \in SnapshotTimes}
    BY <2>3, <2>6, <2>7, <2>8
  <2>10. ASSUME NEW t \in SnapshotTimes
         PROVE  observations[Timestamp(seed, t)].value =
                   [seed |-> seed, history |-> SubSeq(history, 1, t)]
    <3>1. PICK u \in SnapshotTimes :
             /\ Timestamp(s.seed, t) = Timestamp(s.seed, u)
             /\ observations[Timestamp(s.seed, t)].value
                  = [seed |-> s.seed, history |-> Course(s, u)]
      BY <2>6, <2>7, <2>8
    <3>2. u = t
      BY <2>2, <2>6, <3>1 DEF Timestamp
    <3>3. SubSeq(history, 1, t) = Course(s, t)
      <4>1. Course(s, n) \in Seq(Vector)
        BY <2>3, <2>4 DEF TypeInv, TypeOK, SimulatorTypeOK
      <4>2. SubSeq(Course(s, n), 1, t) = Course(s, t)
        BY <2>4, <2>6, <4>1, Beginning
      <4> QED  BY <2>3, <2>4, <4>2
    <3> QED  BY <2>3, <3>1, <3>2, <3>3
  <2> QED  BY <2>9, <2>10 DEF OwnTimeline
<1> QED  BY <1>1, <1>2, <1>3, InitTypeInv, NextTypeInv, PTL DEF Spec
=============================================================================
