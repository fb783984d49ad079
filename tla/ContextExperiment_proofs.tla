----------------------- MODULE ContextExperiment_proofs -----------------------
(***************************************************************************)
(* Theorems about ContextExperiment, for any suite of valid tasks, any     *)
(* configurations the models accept and any number of invocations, killed  *)
(* anywhere: conditions are answered by the best arm there is, replays     *)
(* run, aggregates are what the archive has, and failures decide nothing.  *)
(***************************************************************************)
EXTENDS ContextExperiment, ContextDesign_proofs

(* The parts an invocation is divided into: the conditions of the task, or *)
(* the tasks of the suite.                                                 *)
Parts(cfg) ==
    IF cfg.kind = "context"
    THEN {c \in AllCombinations : cfg.design = "replay" =>
             c \in RealizableCombinations(Tasks[cfg.task].available)}
    ELSE {{t} : t \in DOMAIN Tasks}

TaskOfPart(cfg, part) ==
    IF cfg.kind = "context" THEN cfg.task ELSE CHOOSE t \in DOMAIN Tasks : part = {t}

Keys == {"none"} \cup DOMAIN ArchitectureCombinations

RunIds(cfg) ==
    [name : {cfg.name}, part : Parts(cfg), arm : SUBSET Architectures, rep : Nat \ {0}]

(* The runs an invocation may ask for: only with an arm the task has.      *)
Runs(cfg) ==
    {r \in [id : RunIds(cfg), arm : SUBSET Architectures, key : Keys] :
        r.arm \in Arms(Tasks[TaskOfPart(cfg, r.id.part)].available)}

(* What an outcome is: the condition does not apply, or its resolution.    *)
OutcomeHolds(cfg, o) ==
    /\ cfg.task \in DOMAIN Tasks /\ o.combo \in Parts(cfg) /\ cfg.kind = "context"
    /\ \/ o.status = "not_applicable" /\ ~o.executed
       \/ LET res == Resolve(o.combo, Tasks[cfg.task].available)
          IN  o.status = res.status /\ o.arm = res.arm /\ o.executed = Executes(cfg, res)

Outcomes(cfg) ==
    {o \in [combo : SUBSET Dimensions, arm : SUBSET Architectures, executed : BOOLEAN,
            status : {"not_applicable", "exact", "overshoot", "unrealizable"}] :
        OutcomeHolds(cfg, o)}

RecordHolds(id, r) ==
    /\ r.id = id /\ id.rep \in Nat \ {0}
    /\ r.task \in DOMAIN Tasks
    /\ r.arm \in Arms(Tasks[r.task].available)
    /\ r.combo = ProvidedDimensions(r.arm)
    /\ r.status \in {"COMPLETED", "FAILED", "torn"}
    /\ r.evaluated => r.status = "COMPLETED"
    /\ r.score \in Scores \cup {0}

JobIsRecord ==
    DOMAIN job = {"pc", "cfg", "todo", "queue", "records", "outcomes",
                  "successful", "failed", "skipped"}

JobHolds ==
    /\ JobIsRecord
    /\ job.pc \in {"idle", "running", "done"} /\ job.cfg \in Configs
    /\ job.pc = "running" =>
          /\ job.cfg.kind = "context" => job.cfg.task \in DOMAIN Tasks
          /\ job.todo \in Seq(Parts(job.cfg))
          /\ job.queue \in Seq(Runs(job.cfg))
    /\ job.outcomes \in Seq(Outcomes(job.cfg))

ExperimentInv ==
    /\ \A id \in DOMAIN archive : RecordHolds(id, archive[id])
    /\ JobHolds
    /\ starts \in 0..MaxStarts

Mine == {id \in DOMAIN archive : id.name = job.cfg.name}

OwnBenchmark ==
    job.pc \in {"running", "done"} /\ job.cfg.kind = "benchmark" /\ ~job.cfg.force

(* What is left to run meets no file of the benchmark, and no other run.   *)
NothingTwice(todo, queue, mine) ==
    /\ \A id \in mine :
          /\ \A j \in DOMAIN todo : todo[j] # id.part
          /\ \A k \in DOMAIN queue : queue[k].id # id
    /\ \A i, j \in DOMAIN todo : i # j => todo[i] # todo[j]
    /\ \A i, j \in DOMAIN queue : i # j => queue[i].id # queue[j].id
    /\ \A i \in DOMAIN queue, j \in DOMAIN todo : queue[i].id.part # todo[j]

OwnFiles ==
    OwnBenchmark =>
        /\ {archive[id] : id \in Mine} = job.records
        /\ job.pc = "running" => NothingTwice(job.todo, job.queue, Mine)
        /\ job.pc = "done" /\ job.records # {} =>
              aggregates[job.cfg.name].runs = {id \in Mine : archive[id].valid}
-----------------------------------------------------------------------------
(* A task of the suite has architectures, and no unknown one.              *)
LEMMA TasksAreSupplied ==
  ASSUME NEW t \in DOMAIN Tasks
  PROVE  Tasks[t].available \subseteq Architectures /\ Tasks[t].available # {}
BY TasksAssumption, ExperimentAssumption DEF ValidTask

(* What is known of a configuration.                                       *)
LEMMA ConfigsAreValid ==
  ASSUME NEW cfg \in Configs
  PROVE  /\ cfg.kind \in {"benchmark", "context"} /\ cfg.reps \in Nat \ {0}
         /\ cfg.spec \in {"all"} \cup DOMAIN ArchitectureCombinations
         /\ cfg.kind = "context" => cfg.task # "" /\ cfg.design \in Strategies
         /\ cfg.targets \in Seq(AllCombinations)
         /\ cfg.name \in NamesUnder[cfg.name]
BY ExperimentAssumption DEF ValidConfig

(* Listing a finite set names every member once.                           *)
LEMMA SetToSeqIs ==
  ASSUME NEW S, IsFiniteSet(S)
  PROVE  /\ Cardinality(S) \in Nat
         /\ SetToSeq(S) \in [1..Cardinality(S) -> S]
         /\ SetToSeq(S) \in Seq(S)
         /\ Len(SetToSeq(S)) = Cardinality(S) /\ DOMAIN SetToSeq(S) = 1..Cardinality(S)
         /\ \A i, j \in 1..Cardinality(S) : SetToSeq(S)[i] = SetToSeq(S)[j] => i = j
<1>1. Cardinality(S) \in Nat /\ ExistsBijection(1..Cardinality(S), S)
  BY FS_CardinalityType
<1>2. \E f \in [1..Cardinality(S) -> S] : IsInjective(f)
  BY <1>1 DEF ExistsBijection, Bijection, Injection, Surjection, IsInjective
<1>3. SetToSeq(S) \in [1..Cardinality(S) -> S] /\ IsInjective(SetToSeq(S))
  BY <1>2 DEF SetToSeq
<1>4. SetToSeq(S) \in Seq(S)
  BY <1>1, <1>3, FunctionIsSequence
<1>5. Len(SetToSeq(S)) = Cardinality(S) /\ DOMAIN SetToSeq(S) = 1..Cardinality(S)
  BY <1>1, <1>3, <1>4
<1> QED  BY <1>1, <1>3, <1>4, <1>5 DEF IsInjective

(* What an architecture specification expands to: arms the task has, no    *)
(* two of them alike (benchmark/config.py 116-196).                        *)
LEMMA ArmsOfSpec ==
  ASSUME NEW spec \in {"all"} \cup DOMAIN ArchitectureCombinations,
         NEW available, available \subseteq Architectures,
         NEW S, S = ResolveArchitectureArms(spec, available)
  PROVE  /\ IsFiniteSet(S)
         /\ \A m \in S : /\ m.arm \in Arms(available) /\ m.arm \subseteq Architectures
                         /\ m.key \in Keys
         /\ \A m, n \in S : m.arm = n.arm => m = n
<1>1. CASE spec = "all"
  <2>1. S = {Arm({a}, "none") : a \in available}
    BY <1>1 DEF ResolveArchitectureArms
  <2> DEFINE f == [a \in available |-> Arm({a}, "none")]
  <2>2. f \in Surjection(available, S)
    BY <2>1 DEF Surjection
  <2>3. IsFiniteSet(available)
    BY ArchitecturesFinite
  <2> HIDE DEF f
  <2>4. IsFiniteSet(S)
    BY <2>2, <2>3, FS_Surjection
  <2>5. \A m \in S : m.arm \in Arms(available) /\ m.arm \subseteq Architectures /\ m.key \in Keys
    BY <2>1 DEF Arm, Arms, Keys
  <2>6. \A m, n \in S : m.arm = n.arm => m = n
    BY <2>1 DEF Arm
  <2> QED  BY <2>4, <2>5, <2>6
<1>2. CASE spec # "all"
  <2> DEFINE preset == ArchitectureCombinations[spec]
  <2>1. S = {Arm(as, spec) : as \in {preset} \cap SUBSET available}
    BY <1>2 DEF ResolveArchitectureArms
  <2>2. spec \in DOMAIN ArchitectureCombinations
    BY <1>2
  <2>3. preset # {}
    BY <2>2, ArchitecturesAre DEF ArchitectureCombinations
  <2> HIDE DEF preset
  <2>4. S \subseteq {Arm(preset, spec)}
    BY <2>1
  <2>5. IsFiniteSet({Arm(preset, spec)})
    BY FS_Singleton
  <2>6. IsFiniteSet(S)
    BY <2>4, <2>5, FS_Subset
  <2>7. \A m \in S : m.arm \in Arms(available) /\ m.arm \subseteq Architectures /\ m.key \in Keys
    BY <2>1, <2>2, <2>3 DEF Arm, Arms, Keys
  <2> QED  BY <2>4, <2>6, <2>7
<1> QED  BY <1>1, <1>2

(* The place of a repetition tells the arm and the repetition.             *)
LEMMA PlaceOfRepetition ==
  ASSUME NEW n \in Nat, NEW reps \in Nat \ {0}, NEW k \in 1..(n * reps)
  PROVE  /\ ((k - 1) \div reps) + 1 \in 1..n
         /\ ((k - 1) % reps) + 1 \in 1..reps
         /\ k - 1 = reps * ((k - 1) \div reps) + ((k - 1) % reps)
<1> DEFINE q == (k - 1) \div reps
           r == (k - 1) % reps
<1>1. q \in Nat /\ r \in 0..(reps - 1) /\ k - 1 = reps * q + r
  OBVIOUS
<1>2. n * reps \in Nat
  OBVIOUS
<1> HIDE DEF q, r
<1>3. reps * q < n * reps
  BY <1>1, <1>2
<1>4. q < n
  BY <1>1, <1>3
<1>5. q + 1 \in 1..n /\ r + 1 \in 1..reps
  BY <1>1, <1>4
<1>6. q + 1 \in 1..n /\ r + 1 \in 1..reps /\ k - 1 = reps * q + r
  BY <1>1, <1>5
<1> USE DEF q, r
<1> QED  BY <1>6

(* The repetitions of one arm are runs, numbered from 1.                   *)
LEMMA RepetitionsAreRuns ==
  ASSUME NEW cfg \in Configs, NEW part \in Parts(cfg), NEW arm, arm \subseteq Architectures,
         arm \in Arms(Tasks[TaskOfPart(cfg, part)].available), NEW key \in Keys
  PROVE  /\ Repetitions(cfg, part, arm, key) \in [1..cfg.reps -> Runs(cfg)]
         /\ \A n \in 1..cfg.reps :
               Repetitions(cfg, part, arm, key)[n].id = RunId(cfg, part, arm, n)
<1>1. cfg.reps \in Nat
  BY ConfigsAreValid
<1>2. ASSUME NEW n \in 1..cfg.reps
      PROVE  [id |-> RunId(cfg, part, arm, n), arm |-> arm, key |-> key] \in Runs(cfg)
  <2>1. RunId(cfg, part, arm, n) \in RunIds(cfg) /\ RunId(cfg, part, arm, n).part = part
    BY <1>1 DEF RunId, RunIds
  <2> QED  BY <2>1 DEF Runs
<1> QED  BY <1>2 DEF Repetitions

(* The runs of a task are of that task, on arms it has, and no two have    *)
(* the same run id.                                                        *)
LEMMA ArmRunsAreRuns ==
  ASSUME NEW cfg \in Configs, cfg.kind = "benchmark", NEW task \in DOMAIN Tasks,
         NEW arms, arms = SetToSeq(ResolveArchitectureArms(cfg.spec, Tasks[task].available))
  PROVE  /\ ArmRuns(cfg, task, arms) \in Seq(Runs(cfg))
         /\ \A k \in DOMAIN ArmRuns(cfg, task, arms) : ArmRuns(cfg, task, arms)[k].id.part = {task}
         /\ \A j, k \in DOMAIN ArmRuns(cfg, task, arms) :
               ArmRuns(cfg, task, arms)[j].id = ArmRuns(cfg, task, arms)[k].id => j = k
<1> DEFINE S == ResolveArchitectureArms(cfg.spec, Tasks[task].available)
           n == Cardinality(S)
           a(k) == arms[((k - 1) \div cfg.reps) + 1]
           r(k) == ((k - 1) % cfg.reps) + 1
           run(k) == Repetitions(cfg, {task}, a(k).arm, a(k).key)[r(k)]
<1>1. cfg.reps \in Nat \ {0} /\ cfg.spec \in {"all"} \cup DOMAIN ArchitectureCombinations
  BY ConfigsAreValid
<1>2. Tasks[task].available \subseteq Architectures
  BY TasksAreSupplied
<1>3. /\ IsFiniteSet(S)
      /\ \A m \in S : /\ m.arm \in Arms(Tasks[task].available) /\ m.arm \subseteq Architectures
                      /\ m.key \in Keys
      /\ \A m, l \in S : m.arm = l.arm => m = l
  <2> DEFINE spec == cfg.spec
             available == Tasks[task].available
  <2>1. /\ S = ResolveArchitectureArms(spec, available) /\ available \subseteq Architectures
        /\ spec \in {"all"} \cup DOMAIN ArchitectureCombinations
    BY <1>1, <1>2
  <2> HIDE DEF S, spec, available
  <2>2. /\ IsFiniteSet(S)
        /\ \A m \in S : /\ m.arm \in Arms(available) /\ m.arm \subseteq Architectures
                        /\ m.key \in Keys
        /\ \A m, l \in S : m.arm = l.arm => m = l
    BY <2>1, ArmsOfSpec
  <2> QED  BY <2>2 DEF available
<1> HIDE DEF S
<1>4. /\ n \in Nat /\ arms \in [1..n -> S] /\ Len(arms) = n
      /\ \A i, j \in 1..n : arms[i] = arms[j] => i = j
  BY <1>3, SetToSeqIs DEF S
<1>5. {task} \in Parts(cfg) /\ TaskOfPart(cfg, {task}) = task
  BY DEF Parts, TaskOfPart
<1>6. ASSUME NEW k \in 1..(n * cfg.reps)
      PROVE  /\ ((k - 1) \div cfg.reps) + 1 \in 1..n /\ r(k) \in 1..cfg.reps
             /\ k - 1 = cfg.reps * ((k - 1) \div cfg.reps) + ((k - 1) % cfg.reps)
             /\ a(k) \in S
  BY <1>1, <1>4, PlaceOfRepetition
<1>7. ASSUME NEW k \in 1..(n * cfg.reps)
      PROVE  run(k) \in Runs(cfg) /\ run(k).id = RunId(cfg, {task}, a(k).arm, r(k))
  <2>1. a(k) \in S /\ r(k) \in 1..cfg.reps
    BY <1>6
  <2> HIDE DEF a, r
  <2>2. /\ Repetitions(cfg, {task}, a(k).arm, a(k).key) \in [1..cfg.reps -> Runs(cfg)]
        /\ \A i \in 1..cfg.reps : Repetitions(cfg, {task}, a(k).arm, a(k).key)[i].id
                                    = RunId(cfg, {task}, a(k).arm, i)
    BY <1>3, <1>5, <2>1, RepetitionsAreRuns
  <2> QED  BY <2>1, <2>2
<1>8. ArmRuns(cfg, task, arms) = [k \in 1..(n * cfg.reps) |-> run(k)]
  BY <1>4 DEF ArmRuns
<1>9. n * cfg.reps \in Nat
  BY <1>1, <1>4
<1>10. ASSUME NEW j \in 1..(n * cfg.reps), NEW k \in 1..(n * cfg.reps), run(j).id = run(k).id
       PROVE  j = k
  <2>1. a(j).arm = a(k).arm /\ r(j) = r(k)
    <3>1. RunId(cfg, {task}, a(j).arm, r(j)) = RunId(cfg, {task}, a(k).arm, r(k))
      BY <1>7, <1>10
    <3> HIDE DEF a, r
    <3> QED  BY <3>1 DEF RunId
  <2>2. a(j) = a(k)
    <3>1. a(j) \in S /\ a(k) \in S
      BY <1>6
    <3> HIDE DEF a
    <3> QED  BY <1>3, <2>1, <3>1
  <2>3. ((j - 1) \div cfg.reps) + 1 = ((k - 1) \div cfg.reps) + 1
    BY <1>4, <1>6, <2>2
  <2> DEFINE p == (j - 1) \div cfg.reps
             q == (k - 1) \div cfg.reps
             u == (j - 1) % cfg.reps
             v == (k - 1) % cfg.reps
  <2>4. p \in Int /\ q \in Int /\ u \in Int /\ v \in Int
    BY <1>1, <1>9
  <2>5. j - 1 = cfg.reps * p + u /\ k - 1 = cfg.reps * q + v
    BY <1>6
  <2>6. p + 1 = q + 1 /\ u + 1 = v + 1
    BY <2>1, <2>3
  <2> HIDE DEF p, q, u, v
  <2>7. p = q /\ u = v
    BY <2>4, <2>6
  <2> QED  BY <1>9, <2>5, <2>7
<1>11. ASSUME NEW k \in 1..(n * cfg.reps)
       PROVE  run(k).id.part = {task}
  <2>1. run(k).id = RunId(cfg, {task}, a(k).arm, r(k))
    BY <1>7
  <2> HIDE DEF a, r, run
  <2> QED  BY <2>1 DEF RunId
<1> HIDE DEF run
<1>12. ArmRuns(cfg, task, arms) \in [1..(n * cfg.reps) -> Runs(cfg)]
  BY <1>7, <1>8
<1> QED  BY <1>8, <1>9, <1>10, <1>11, <1>12, FunctionIsSequence
-----------------------------------------------------------------------------
ArchiveHolds == \A id \in DOMAIN archive : RecordHolds(id, archive[id])

(* What a record says was provided is realizable by its task.              *)
LEMMA RecordedArmsProvide ==
  ASSUME ArchiveHolds, NEW id \in DOMAIN archive
  PROVE  /\ archive[id].combo \in AllCombinations
         /\ archive[id].combo \in RealizableCombinations(Tasks[archive[id].task].available)
<1> DEFINE r == archive[id]
<1>1. /\ r.task \in DOMAIN Tasks /\ r.arm \in Arms(Tasks[r.task].available)
      /\ r.combo = ProvidedDimensions(r.arm)
  BY DEF ArchiveHolds, RecordHolds
<1> HIDE DEF r
<1>2. r.arm \subseteq Architectures /\ r.arm # {}
  BY <1>1, TasksAreSupplied DEF Arms
<1>3. r.combo \in AllCombinations
  BY <1>1, <1>2, EveryArmProvides
<1>4. r.combo \in RealizableCombinations(Tasks[r.task].available)
  BY <1>1, <1>3 DEF RealizableCombinations, AllCombinations
<1> QED  BY <1>3, <1>4 DEF r

(* What an invocation is divided into: conditions, or tasks of the suite,  *)
(* each once. The conditions of a replay are realizable, because every     *)
(* record of the archive is.                                               *)
LEMMA UnitsAreParts ==
  ASSUME ArchiveHolds, NEW cfg \in Configs, SelectTasks(cfg) # {}
  PROVE  /\ Units(cfg) \in Seq(Parts(cfg))
         /\ cfg.kind = "context" => cfg.task \in DOMAIN Tasks
         /\ cfg.kind = "benchmark" =>
               \A i, j \in DOMAIN Units(cfg) : i # j => Units(cfg)[i] # Units(cfg)[j]
<1>1. CASE cfg.kind = "benchmark"
  <2> DEFINE S == SelectTasks(cfg)
             n == Cardinality(S)
  <2>1. S \subseteq DOMAIN Tasks
    BY DEF SelectTasks, TasksInSplit
  <2>2. IsFiniteSet(S)
    BY <2>1, ExperimentAssumption, FS_Subset
  <2> HIDE DEF S
  <2>3. /\ n \in Nat /\ SetToSeq(S) \in [1..n -> S]
        /\ \A i, j \in 1..n : SetToSeq(S)[i] = SetToSeq(S)[j] => i = j
    BY <2>2, SetToSeqIs
  <2>4. Units(cfg) = [i \in 1..n |-> {SetToSeq(S)[i]}]
    BY <1>1 DEF Units, S
  <2>5. Parts(cfg) = {{t} : t \in DOMAIN Tasks}
    BY <1>1 DEF Parts
  <2> DEFINE s == SetToSeq(S)
  <2> HIDE DEF s
  <2>6. /\ Units(cfg) = [i \in 1..n |-> {s[i]}] /\ s \in [1..n -> S]
        /\ \A i, j \in 1..n : s[i] = s[j] => i = j
    BY <2>3, <2>4 DEF s
  <2>7. Units(cfg) \in [1..n -> Parts(cfg)]
    BY <2>1, <2>5, <2>6
  <2>8. Units(cfg) \in Seq(Parts(cfg))
    BY <2>3, <2>7, FunctionIsSequence
  <2> QED  BY <1>1, <2>6, <2>8
<1>2. CASE cfg.kind = "context"
  <2>1. cfg.task \in DOMAIN Tasks
    BY <1>2, ConfigsAreValid DEF SelectTasks
  <2>2. Units(cfg) = SelectConditions(cfg)
    BY <1>2 DEF Units
  <2>3. CASE cfg.design = "replay"
    <3> DEFINE combos == {r.combo : r \in {x \in Loaded : x.task = cfg.task}}
    <3>1. ASSUME NEW c \in combos
          PROVE  c \in Parts(cfg)
      <4>1. PICK id \in DOMAIN archive : archive[id].task = cfg.task /\ c = archive[id].combo
        BY DEF Loaded
      <4> QED  BY <1>2, <4>1, RecordedArmsProvide DEF Parts
    <3>2. combos \subseteq AllCombinations
      BY <1>2, <3>1 DEF Parts
    <3>3. Units(cfg) = InOrder(combos)
      BY <2>2, <2>3 DEF SelectConditions, ReplayConditions
    <3> HIDE DEF combos
    <3>4. Units(cfg) \in Seq(combos) /\ combos \subseteq Parts(cfg)
      BY <3>1, <3>2, <3>3, InOrderIsSequence
    <3> QED  BY <1>2, <2>1, <3>4, SequenceOfSubset
  <2>4. CASE cfg.design # "replay"
    <3>1. /\ cfg.design \in {"single", "pairwise", "progressive", "targeted", "ablation"}
          /\ cfg.targets \in Seq(AllCombinations)
      BY <1>2, <2>4, ConfigsAreValid DEF Strategies
    <3>2. Tasks[cfg.task].available \subseteq Architectures /\ Tasks[cfg.task].available # {}
      BY <2>1, TasksAreSupplied
    <3>3. Units(cfg) = GenerateConditions(cfg.design, cfg.targets, Tasks[cfg.task].available)
      BY <2>2, <2>4 DEF SelectConditions
    <3>4. Units(cfg) \in Seq(AllCombinations)
      BY <3>1, <3>2, <3>3, ConditionsAreCombinations
    <3>5. Parts(cfg) = AllCombinations
      BY <1>2, <2>4 DEF Parts
    <3> QED  BY <1>2, <2>1, <3>4, <3>5
  <2> QED  BY <2>3, <2>4
<1> QED  BY <1>1, <1>2, ConfigsAreValid


(* The outcome of a condition is its resolution, and what is run is run on *)
(* an arm the task has.                                                    *)
LEMMA NextOutcomeHolds ==
  ASSUME NEW cfg \in Configs, cfg.kind = "context", cfg.task \in DOMAIN Tasks,
         NEW combo \in Parts(cfg),
         NEW res, res = Resolve(combo, Tasks[cfg.task].available)
  PROVE  /\ Outcome(combo, "not_applicable", {}, FALSE) \in Outcomes(cfg)
         /\ Outcome(combo, res.status, res.arm, Executes(cfg, res)) \in Outcomes(cfg)
         /\ Executes(cfg, res) => res.arm \in Arms(Tasks[cfg.task].available)
<1> DEFINE available == Tasks[cfg.task].available
<1>1. combo \in AllCombinations /\ combo \subseteq Dimensions
  BY DEF Parts, AllCombinations
<1>2. available \subseteq Architectures /\ available # {}
  BY TasksAreSupplied
<1>3. /\ res.status \in {"exact", "overshoot", "unrealizable"}
      /\ res.status # "unrealizable" => res.arm \in Covering(combo, available)
  BY <1>1, <1>2, ResolveGivesBest
<1>4. res.status # "unrealizable" => res.arm \in Arms(available)
  BY <1>3 DEF Covering
<1>5. res.status = "unrealizable" => res.arm = {}
  BY <1>3, ResolveIs DEF Resolution
<1>6. res.arm \subseteq Architectures
  BY <1>2, <1>3, <1>4, <1>5 DEF Arms
<1>7. Outcome(combo, "not_applicable", {}, FALSE) \in Outcomes(cfg)
  BY <1>1 DEF Outcome, Outcomes, OutcomeHolds
<1>8. Executes(cfg, res) \in BOOLEAN
  BY DEF Executes
<1> DEFINE o == Outcome(combo, res.status, res.arm, Executes(cfg, res))
<1>9. /\ o.combo = combo /\ o.status = res.status /\ o.arm = res.arm
      /\ o.executed = Executes(cfg, res)
      /\ o \in [combo : SUBSET Dimensions, arm : SUBSET Architectures, executed : BOOLEAN,
                status : {"not_applicable", "exact", "overshoot", "unrealizable"}]
  <2> DEFINE e == Executes(cfg, res)
  <2>1. e \in BOOLEAN
    BY <1>8
  <2> HIDE DEF e
  <2>2. /\ Outcome(combo, res.status, res.arm, e).combo = combo
        /\ Outcome(combo, res.status, res.arm, e).status = res.status
        /\ Outcome(combo, res.status, res.arm, e).arm = res.arm
        /\ Outcome(combo, res.status, res.arm, e).executed = e
        /\ Outcome(combo, res.status, res.arm, e) \in
             [combo : SUBSET Dimensions, arm : SUBSET Architectures, executed : BOOLEAN,
              status : {"not_applicable", "exact", "overshoot", "unrealizable"}]
    BY <1>1, <1>3, <1>6, <2>1 DEF Outcome
  <2> QED  BY <2>2 DEF e
<1> HIDE DEF o
<1>10. OutcomeHolds(cfg, o)
  BY <1>9 DEF OutcomeHolds
<1>11. o \in Outcomes(cfg)
  BY <1>9, <1>10 DEF Outcomes
<1>12. Executes(cfg, res) => res.arm \in Arms(available)
  BY <1>4 DEF Executes
<1> QED  BY <1>7, <1>11, <1>12 DEF o

(* The record of a run is one the archive may hold.                        *)
LEMMA RecordOfRun ==
  ASSUME JobHolds, job.pc = "running", NEW run \in Runs(job.cfg),
         NEW status \in {"COMPLETED", "FAILED", "torn"}, NEW score \in Scores \cup {0}
  PROVE  RecordHolds(run.id, RecordOf(run, status, score))
<1> DEFINE cfg == job.cfg
           task == TaskOfPart(cfg, run.id.part)
<1>1. /\ run.id \in RunIds(cfg) /\ run.arm \in Arms(Tasks[task].available)
  BY DEF Runs
<1>2. cfg \in Configs /\ (cfg.kind = "context" => cfg.task \in DOMAIN Tasks)
  BY DEF JobHolds
<1>3. run.id.part \in Parts(cfg) /\ run.id.rep \in Nat \ {0}
  BY <1>1 DEF RunIds
<1>4. task \in DOMAIN Tasks
  <2>1. CASE cfg.kind = "context"
    BY <1>2, <2>1 DEF TaskOfPart
  <2>2. CASE cfg.kind # "context"
    BY <1>3, <2>2 DEF TaskOfPart, Parts
  <2> QED  BY <2>1, <2>2
<1>5. TaskOf(run) = task
  BY DEF TaskOf, TaskOfPart
<1> HIDE DEF task
<1> QED  BY <1>1, <1>3, <1>4, <1>5 DEF RecordHolds, RecordOf, RecordedCombination

(* The invariant holds before the first invocation.                        *)
LEMMA InitInv ==
  ASSUME ExperimentInit
  PROVE  ExperimentInv
<1>1. Idle.cfg \in Configs
  BY ExperimentAssumption DEF Idle
<1>2. DOMAIN archive = {}
  BY DEF ExperimentInit
<1>3. /\ job = Idle /\ starts = 0 /\ MaxStarts \in Nat
  BY ExperimentAssumption DEF ExperimentInit
<1>4. JobHolds
  <2>1. /\ job.pc = "idle" /\ job.outcomes = <<>> /\ JobIsRecord
    BY <1>3 DEF Idle, JobIsRecord
  <2> QED  BY <1>1, <1>3, <2>1 DEF JobHolds
<1> QED  BY <1>2, <1>3, <1>4 DEF ExperimentInv

(* Starting an invocation keeps the invariant, and what it starts with.    *)
LEMMA StartKeepsInv ==
  ASSUME ExperimentInv, NEW cfg \in Configs, StartJob(cfg)
  PROVE  /\ ExperimentInv'
         /\ job'.pc = "running" /\ job'.cfg = cfg /\ job'.todo = Units(cfg)
         /\ job'.queue = <<>> /\ job'.records = {}
<1>1. /\ job'.pc = "running" /\ job'.cfg = cfg /\ job'.todo = Units(cfg)
      /\ job'.queue = <<>> /\ job'.records = {} /\ job'.outcomes = <<>> /\ JobIsRecord'
  BY DEF StartJob, Idle, JobIsRecord
<1>2. archive' = archive /\ starts' \in 0..MaxStarts
  BY ExperimentAssumption DEF StartJob, ExperimentInv
<1>3. ArchiveHolds /\ SelectTasks(cfg) # {}
  BY DEF ExperimentInv, ArchiveHolds, StartJob
<1>4. /\ Units(cfg) \in Seq(Parts(cfg))
      /\ cfg.kind = "context" => cfg.task \in DOMAIN Tasks
  BY <1>3, UnitsAreParts
<1>5. JobHolds'
  BY <1>1, <1>4 DEF JobHolds
<1> QED  BY <1>1, <1>2, <1>5 DEF ExperimentInv

(* So does expanding the next task into its runs.                          *)
LEMMA NextTaskKeepsInv ==
  ASSUME ExperimentInv, NextTask
  PROVE  ExperimentInv'
<1> DEFINE cfg == job.cfg
           task == CHOOSE t \in DOMAIN Tasks : Head(job.todo) = {t}
           arms == SetToSeq(ResolveArchitectureArms(cfg.spec, Tasks[task].available))
<1>1. /\ job.pc = "running" /\ cfg.kind = "benchmark" /\ job.todo # <<>>
      /\ cfg \in Configs /\ job.todo \in Seq(Parts(cfg)) /\ JobIsRecord
      /\ job.outcomes \in Seq(Outcomes(cfg))
  BY DEF NextTask, ExperimentInv, JobHolds
<1>2. job' = [job EXCEPT !.todo = Tail(@), !.queue = ArmRuns(cfg, task, arms),
                         !.skipped = IF arms = <<>> THEN @ + cfg.reps ELSE @]
  BY DEF NextTask
<1>3. Head(job.todo) \in Parts(cfg) /\ Tail(job.todo) \in Seq(Parts(cfg))
  BY <1>1, HeadTailProperties
<1>4. task \in DOMAIN Tasks
  BY <1>1, <1>3 DEF Parts
<1>5. ArmRuns(cfg, task, arms) \in Seq(Runs(cfg))
  <2> HIDE DEF task
  <2>1. arms = SetToSeq(ResolveArchitectureArms(cfg.spec, Tasks[task].available))
    OBVIOUS
  <2> HIDE DEF arms
  <2> QED  BY <1>1, <1>4, <2>1, ArmRunsAreRuns
<1> HIDE DEF task, arms
<1>6. /\ job'.pc = "running" /\ job'.cfg = cfg /\ job'.todo = Tail(job.todo)
      /\ job'.queue = ArmRuns(cfg, task, arms) /\ job'.outcomes = job.outcomes /\ JobIsRecord'
  BY <1>1, <1>2 DEF JobIsRecord
<1>7. JobHolds'
  BY <1>1, <1>3, <1>5, <1>6 DEF JobHolds
<1>8. archive' = archive /\ starts' = starts
  BY DEF NextTask
<1> QED  BY <1>7, <1>8 DEF ExperimentInv

(* So does resolving the next condition.                                   *)
LEMMA NextConditionKeepsInv ==
  ASSUME ExperimentInv, NextCondition
  PROVE  ExperimentInv'
<1> DEFINE cfg == job.cfg
           combo == Head(job.todo)
           res == Resolve(combo, Tasks[cfg.task].available)
           outside == ~(combo \subseteq UseCases[Tasks[cfg.task].use_case].candidate)
           runs == ~outside /\ Executes(cfg, res)
           queue == IF runs THEN Repetitions(cfg, combo, res.arm, "none") ELSE <<>>
           o == IF outside THEN Outcome(combo, "not_applicable", {}, FALSE)
                ELSE Outcome(combo, res.status, res.arm, runs)
<1>1. /\ job.pc = "running" /\ cfg.kind = "context" /\ job.todo # <<>>
      /\ cfg \in Configs /\ job.todo \in Seq(Parts(cfg)) /\ JobIsRecord
      /\ job.outcomes \in Seq(Outcomes(cfg)) /\ cfg.task \in DOMAIN Tasks
  BY DEF NextCondition, ExperimentInv, JobHolds
<1>2. job' = [job EXCEPT !.todo = Tail(@), !.queue = queue, !.outcomes = Append(@, o)]
  BY DEF NextCondition
<1>3. combo \in Parts(cfg) /\ Tail(job.todo) \in Seq(Parts(cfg))
  BY <1>1, HeadTailProperties
<1> HIDE DEF combo
<1>4. /\ Outcome(combo, "not_applicable", {}, FALSE) \in Outcomes(cfg)
      /\ Outcome(combo, res.status, res.arm, Executes(cfg, res)) \in Outcomes(cfg)
      /\ Executes(cfg, res) => res.arm \in Arms(Tasks[cfg.task].available)
  BY <1>1, <1>3, NextOutcomeHolds
<1>5. o \in Outcomes(cfg)
  <2>1. CASE outside
    BY <1>4, <2>1
  <2>2. CASE ~outside
    <3>1. runs = Executes(cfg, res)
      BY <2>2 DEF Executes
    <3> QED  BY <1>4, <2>2, <3>1
  <2> QED  BY <2>1, <2>2
<1> HIDE DEF res, outside
<1>6. queue \in Seq(Runs(cfg))
  <2>1. CASE ~runs
    <3>1. queue = <<>>
      BY <2>1
    <3> HIDE DEF queue
    <3> QED  BY <3>1
  <2>2. CASE runs
    <3>1. /\ res.arm \in Arms(Tasks[cfg.task].available) /\ cfg.reps \in Nat
          /\ res.arm \subseteq Architectures /\ TaskOfPart(cfg, combo) = cfg.task
      BY <1>1, <1>4, <2>2, ConfigsAreValid, TasksAreSupplied DEF Arms, TaskOfPart
    <3>2. "none" \in Keys
      BY DEF Keys
    <3>3. Repetitions(cfg, combo, res.arm, "none") \in [1..cfg.reps -> Runs(cfg)]
      BY <1>1, <1>3, <3>1, <3>2, RepetitionsAreRuns
    <3>4. queue = Repetitions(cfg, combo, res.arm, "none")
      BY <2>2
    <3> HIDE DEF queue
    <3> QED  BY <3>1, <3>3, <3>4, FunctionIsSequence
  <2> QED  BY <2>1, <2>2
<1> HIDE DEF queue, o
<1>7. /\ job'.pc = "running" /\ job'.cfg = cfg /\ job'.todo = Tail(job.todo)
      /\ job'.queue = queue /\ job'.outcomes = Append(job.outcomes, o) /\ JobIsRecord'
  BY <1>1, <1>2 DEF JobIsRecord
<1>8. Append(job.outcomes, o) \in Seq(Outcomes(cfg))
  BY <1>1, <1>5
<1>9. JobHolds'
  BY <1>1, <1>3, <1>6, <1>7, <1>8 DEF JobHolds
<1>10. archive' = archive /\ starts' = starts
  BY DEF NextCondition
<1> QED  BY <1>9, <1>10 DEF ExperimentInv

(* A record that holds may be saved over whatever was there.               *)
LEMMA SavedRecordsHold ==
  ASSUME NEW f, \A x \in DOMAIN f : RecordHolds(x, f[x]),
         NEW id, NEW r, RecordHolds(id, r), NEW g, g = Write(f, id, r)
  PROVE  \A x \in DOMAIN g : RecordHolds(x, g[x])
<1>1. /\ DOMAIN g = {id} \cup DOMAIN f /\ g[id] = r
      /\ \A x \in DOMAIN f : x # id => g[x] = f[x]
  BY DEF Write
<1>2. ASSUME NEW x \in DOMAIN g
      PROVE  RecordHolds(x, g[x])
  <2>1. CASE x = id
    BY <1>1, <2>1
  <2>2. CASE x # id
    BY <1>1, <2>2
  <2> QED  BY <2>1, <2>2
<1> QED  BY <1>2

(* A run, completed or failed, keeps the invariant.                        *)
LEMMA RunOneKeepsInv ==
  ASSUME ExperimentInv, RunOne
  PROVE  ExperimentInv'
<1> DEFINE run == Head(job.queue)
<1>1. /\ job.pc = "running" /\ job.queue # <<>> /\ JobHolds /\ JobIsRecord
      /\ job.queue \in Seq(Runs(job.cfg))
  BY DEF RunOne, ExperimentInv, JobHolds
<1>2. run \in Runs(job.cfg) /\ Tail(job.queue) \in Seq(Runs(job.cfg))
  BY <1>1, HeadTailProperties
<1>3. PICK done \in BOOLEAN, score \in Scores :
         LET rec == RecordOf(run, IF done THEN "COMPLETED" ELSE "FAILED", score) IN
         /\ archive' = Write(archive, run.id, rec)
         /\ job' = [job EXCEPT !.queue = Tail(@), !.records = @ \cup {rec},
                               !.successful = IF done THEN @ + 1 ELSE @,
                               !.failed = IF done THEN @ ELSE @ + 1]
  BY DEF RunOne
<1> DEFINE rec == RecordOf(run, IF done THEN "COMPLETED" ELSE "FAILED", score)
<1> HIDE DEF run
<1>4. RecordHolds(run.id, rec)
  BY <1>1, <1>2, RecordOfRun
<1>5. archive' = Write(archive, run.id, rec)
  BY <1>3
<1>6. /\ job'.pc = "running" /\ job'.cfg = job.cfg /\ job'.todo = job.todo
      /\ job'.queue = Tail(job.queue) /\ job'.outcomes = job.outcomes /\ JobIsRecord'
  BY <1>1, <1>3 DEF JobIsRecord
<1> HIDE DEF rec
<1>7. \A id \in DOMAIN archive' : RecordHolds(id, archive'[id])
  <2>1. \A x \in DOMAIN archive : RecordHolds(x, archive[x])
    BY DEF ExperimentInv
  <2> QED  BY <1>4, <1>5, <2>1, SavedRecordsHold
<1>8. JobHolds'
  BY <1>1, <1>2, <1>6 DEF JobHolds
<1>9. starts' = starts
  BY DEF RunOne
<1> QED  BY <1>7, <1>8, <1>9 DEF ExperimentInv

(* So does the death of the process, in the middle of a save or not.       *)
LEMMA CrashKeepsInv ==
  ASSUME ExperimentInv, CrashJob
  PROVE  ExperimentInv'
<1>1. JobHolds'
  <2>1. job' = Idle /\ Idle.cfg \in Configs
    BY ExperimentAssumption DEF CrashJob, Idle
  <2>2. job'.pc = "idle" /\ job'.outcomes = <<>> /\ JobIsRecord'
    BY <2>1 DEF Idle, JobIsRecord
  <2> QED  BY <2>1, <2>2 DEF JobHolds
<1>2. \A id \in DOMAIN archive' : RecordHolds(id, archive'[id])
  <2>1. CASE archive' = archive
    BY <2>1 DEF ExperimentInv
  <2>2. ASSUME NEW status \in {"torn", "FAILED", "COMPLETED"}, job.queue # <<>>,
               archive' = Write(archive, Head(job.queue).id,
                                [RecordOf(Head(job.queue), status, 0)
                                     EXCEPT !.evaluated = FALSE])
        PROVE  \A id \in DOMAIN archive' : RecordHolds(id, archive'[id])
    <3> DEFINE run == Head(job.queue)
               saved == RecordOf(run, status, 0)
               rec == [saved EXCEPT !.evaluated = FALSE]
    <3>1. JobHolds /\ job.pc = "running" /\ job.queue \in Seq(Runs(job.cfg))
      BY DEF CrashJob, ExperimentInv, JobHolds
    <3>2. run \in Runs(job.cfg) /\ archive' = Write(archive, run.id, rec)
      BY <2>2, <3>1, HeadTailProperties
    <3> HIDE DEF run
    <3>3. RecordHolds(run.id, rec)
      <4>1. RecordHolds(run.id, saved)
        BY <3>1, <3>2, RecordOfRun
      <4> QED  BY <4>1 DEF RecordHolds, RecordOf
    <3> HIDE DEF saved, rec
    <3>4. \A x \in DOMAIN archive : RecordHolds(x, archive[x])
      BY DEF ExperimentInv
    <3> QED  BY <3>2, <3>3, <3>4, SavedRecordsHold
  <2> QED  BY <2>1, <2>2 DEF CrashJob
<1>3. starts' = starts
  BY DEF CrashJob
<1> QED  BY <1>1, <1>2, <1>3 DEF ExperimentInv

(* Every step keeps the invariant.                                         *)
LEMMA NextInv ==
  ASSUME ExperimentInv, [ExperimentNext]_experimentVars
  PROVE  ExperimentInv'
<1>1. CASE \E cfg \in Configs : StartJob(cfg)
  BY <1>1, StartKeepsInv
<1>2. CASE NextTask
  BY <1>2, NextTaskKeepsInv
<1>3. CASE NextCondition
  BY <1>3, NextConditionKeepsInv
<1>4. CASE RunOne
  BY <1>4, RunOneKeepsInv
<1>5. CASE FinishJob
  <2>1. /\ archive' = archive /\ starts' = starts /\ job' = [job EXCEPT !.pc = "done"]
        /\ JobHolds
    BY <1>5 DEF FinishJob, ExperimentInv
  <2>2. /\ job'.pc = "done" /\ job'.cfg = job.cfg /\ job'.outcomes = job.outcomes /\ JobIsRecord'
    BY <2>1 DEF JobHolds, JobIsRecord
  <2>3. JobHolds'
    BY <2>1, <2>2 DEF JobHolds
  <2> QED  BY <2>1, <2>3 DEF ExperimentInv
<1>6. CASE CrashJob
  BY <1>6, CrashKeepsInv
<1>7. CASE UNCHANGED experimentVars
  BY <1>7 DEF experimentVars, ExperimentInv, JobHolds, JobIsRecord
<1> QED  BY <1>1, <1>2, <1>3, <1>4, <1>5, <1>6, <1>7 DEF ExperimentNext

(* The inductive invariant: every record of the archive was made on an arm *)
(* its task has and carries what that arm provides; what is left to run    *)
(* asks for nothing else; every outcome is the resolution of its           *)
(* condition.                                                              *)
THEOREM ExperimentInvariant == ExperimentSpec => []ExperimentInv
<1>1. ExperimentInit => ExperimentInv
  BY InitInv
<1>2. ExperimentInv /\ [ExperimentNext]_experimentVars => ExperimentInv'
  BY NextInv
<1> QED  BY <1>1, <1>2, PTL DEF ExperimentSpec
-----------------------------------------------------------------------------
(* Types: records are filed under their own run ids, repetitions are       *)
(* numbered from 1, and what is recorded is a combination                  *)
(* (experiments/models.py, ExperimentConfig).                              *)
THEOREM ExperimentTypeCorrect == ExperimentSpec => []ExperimentTypeOK
<1>1. ExperimentInv => ExperimentTypeOK
  <2> SUFFICES ASSUME ExperimentInv
               PROVE  ExperimentTypeOK
    OBVIOUS
  <2>1. ArchiveHolds
    BY DEF ExperimentInv, ArchiveHolds
  <2>2. ASSUME NEW id \in DOMAIN archive
        PROVE  /\ archive[id].id = id /\ id.rep \in Nat \ {0}
               /\ archive[id].task \in DOMAIN Tasks
               /\ archive[id].combo \in AllCombinations
               /\ archive[id].status \in {"COMPLETED", "FAILED", "torn"}
               /\ archive[id].evaluated => archive[id].status = "COMPLETED"
               /\ archive[id].score \in Scores \cup {0}
    BY <2>1, RecordedArmsProvide DEF ArchiveHolds, RecordHolds
  <2> QED  BY <2>2 DEF ExperimentTypeOK, ExperimentInv, JobHolds
<1> QED  BY <1>1, ExperimentInvariant, PTL

(* What the outcomes of a running or finished experiment are.              *)
LEMMA OutcomesHold ==
  ASSUME ExperimentInv, NEW i \in DOMAIN job.outcomes
  PROVE  OutcomeHolds(job.cfg, job.outcomes[i])
<1>1. job.outcomes \in Seq(Outcomes(job.cfg))
  BY DEF ExperimentInv, JobHolds
<1>2. job.outcomes[i] \in Outcomes(job.cfg)
  BY <1>1
<1> QED  BY <1>2 DEF Outcomes

(* ResolutionsAreBest: every condition of every experiment is answered by  *)
(* the best arm its task has (context_conditions.py 93-170).               *)
THEOREM ResolutionsBest == ExperimentSpec => []ResolutionsAreBest
<1>1. ExperimentInv => ResolutionsAreBest
  <2> SUFFICES ASSUME ExperimentInv, NEW i \in DOMAIN job.outcomes,
                      NEW o, o = job.outcomes[i], o.status # "not_applicable",
                      NEW all, all = Tasks[job.cfg.task].available
               PROVE  /\ o.status = "unrealizable" <=> ~(o.combo \subseteq ProvidedDimensions(all))
                      /\ o.status = "exact" <=> o.combo \in RealizableCombinations(all)
                      /\ \A a \in {x \in Arms(all) : o.combo \subseteq ProvidedDimensions(x)} :
                            /\ ~(ProvidedDimensions(a) \subseteq ProvidedDimensions(o.arm)
                                 /\ ProvidedDimensions(a) # ProvidedDimensions(o.arm))
                            /\ ~(a \subseteq o.arm /\ a # o.arm
                                 /\ ProvidedDimensions(a) = ProvidedDimensions(o.arm))
    BY DEF ResolutionsAreBest
  <2>1. OutcomeHolds(job.cfg, o)
    BY OutcomesHold
  <2>2. /\ job.cfg.task \in DOMAIN Tasks /\ o.combo \in AllCombinations
    BY <2>1 DEF OutcomeHolds, Parts
  <2>3. all \subseteq Architectures /\ all # {}
    BY <2>2, TasksAreSupplied
  <2> DEFINE res == Resolve(o.combo, all)
  <2>4. o.status = res.status /\ o.arm = res.arm
    BY <2>1 DEF OutcomeHolds
  <2> HIDE DEF res
  <2>5. /\ res.status = "unrealizable" <=> ~(o.combo \subseteq ProvidedDimensions(all))
        /\ res.status = "exact" <=> o.combo \in RealizableCombinations(all)
        /\ \A a \in Covering(o.combo, all) :
              /\ ~(ProvidedDimensions(a) \subseteq ProvidedDimensions(res.arm)
                   /\ ProvidedDimensions(a) # ProvidedDimensions(res.arm))
              /\ ~(a \subseteq res.arm /\ a # res.arm
                   /\ ProvidedDimensions(a) = ProvidedDimensions(res.arm))
    <3> DEFINE c == o.combo
    <3>1. res = Resolve(c, all) /\ c \in AllCombinations
      BY <2>2 DEF res
    <3> HIDE DEF c
    <3>2. /\ res.status = "unrealizable" <=> ~(c \subseteq ProvidedDimensions(all))
          /\ res.status = "exact" <=> c \in RealizableCombinations(all)
          /\ \A a \in Covering(c, all) :
                /\ ~(ProvidedDimensions(a) \subseteq ProvidedDimensions(res.arm)
                     /\ ProvidedDimensions(a) # ProvidedDimensions(res.arm))
                /\ ~(a \subseteq res.arm /\ a # res.arm
                     /\ ProvidedDimensions(a) = ProvidedDimensions(res.arm))
      BY <2>3, <3>1, ResolveGivesBest
    <3> QED  BY <3>2 DEF c
  <2> QED  BY <2>4, <2>5 DEF Covering
<1> QED  BY <1>1, ExperimentInvariant, PTL

(* NoArmTwice: unless overshooting was asked for, two conditions of an     *)
(* experiment never run on the same arm (context_experiment.py 223-249).   *)
THEOREM NoArmRunTwice == ExperimentSpec => []NoArmTwice
<1>1. ExperimentInv => NoArmTwice
  <2> SUFFICES ASSUME ExperimentInv, ~job.cfg.overshoot
               PROVE  \A i, j \in DOMAIN job.outcomes :
                         job.outcomes[i].executed /\ job.outcomes[j].executed
                         /\ job.outcomes[i].arm = job.outcomes[j].arm
                            => job.outcomes[i].combo = job.outcomes[j].combo
    BY DEF NoArmTwice
  <2>1. ASSUME NEW i \in DOMAIN job.outcomes, job.outcomes[i].executed
        PROVE  ProvidedDimensions(job.outcomes[i].arm) = job.outcomes[i].combo
    <3> DEFINE o == job.outcomes[i]
               all == Tasks[job.cfg.task].available
               res == Resolve(o.combo, all)
    <3>1. OutcomeHolds(job.cfg, o)
      BY OutcomesHold
    <3> HIDE DEF o
    <3>2. job.cfg.task \in DOMAIN Tasks /\ o.combo \in AllCombinations
      BY <3>1 DEF OutcomeHolds, Parts
    <3>3. all \subseteq Architectures /\ all # {}
      BY <3>2, TasksAreSupplied
    <3>4. o.arm = res.arm /\ Executes(job.cfg, res)
      BY <2>1, <3>1 DEF OutcomeHolds, o
    <3> HIDE DEF res, all
    <3>5. res.status = "exact"
      BY <3>4 DEF Executes
    <3>6. ProvidedDimensions(res.arm) = o.combo
      BY <3>2, <3>3, <3>5, ResolveGivesBest DEF res
    <3> QED  BY <3>4, <3>6 DEF o
  <2> QED  BY <2>1
<1> QED  BY <1>1, ExperimentInvariant, PTL

(* ReplayIsExact: whatever was run before, under any design, killed or     *)
(* not, a replayed condition that applies is exact and run                 *)
(* (context_experiment.py 336-350).                                        *)
THEOREM ReplaysAreExact == ExperimentSpec => []ReplayIsExact
<1>1. ExperimentInv => ReplayIsExact
  <2> SUFFICES ASSUME ExperimentInv, job.cfg.design = "replay",
                      NEW i \in DOMAIN job.outcomes,
                      job.outcomes[i].status # "not_applicable"
               PROVE  job.outcomes[i].status = "exact" /\ job.outcomes[i].executed
    BY DEF ReplayIsExact
  <2> DEFINE o == job.outcomes[i]
             all == Tasks[job.cfg.task].available
             res == Resolve(o.combo, all)
  <2>1. OutcomeHolds(job.cfg, o) /\ o.status # "not_applicable"
    BY OutcomesHold
  <2> HIDE DEF o
  <2>2. /\ job.cfg.task \in DOMAIN Tasks /\ o.combo \in AllCombinations
        /\ o.combo \in RealizableCombinations(all)
    BY <2>1 DEF OutcomeHolds, Parts
  <2>3. all \subseteq Architectures /\ all # {}
    BY <2>2, TasksAreSupplied
  <2>4. o.executed = Executes(job.cfg, res) /\ o.status = res.status
    BY <2>1 DEF OutcomeHolds
  <2> HIDE DEF res, all
  <2>5. res.status = "exact"
    <3>1. res = Resolve(o.combo, all) /\ o.combo \in AllCombinations
      BY <2>2 DEF res
    <3>2. res.status = "exact" <=> o.combo \in RealizableCombinations(all)
      BY <2>3, <3>1, ResolveGivesBest
    <3> QED  BY <2>2, <3>2
  <2>6. o.status = "exact" /\ o.executed
    BY <2>4, <2>5 DEF Executes
  <2> QED  BY <2>6 DEF o
<1> QED  BY <1>1, ExperimentInvariant, PTL
-----------------------------------------------------------------------------
(* What is left of a sequence.                                             *)
LEMMA TailIs ==
  ASSUME NEW S, NEW s \in Seq(S), s # <<>>
  PROVE  /\ 1 \in DOMAIN s /\ Head(s) = s[1]
         /\ \A j \in DOMAIN Tail(s) : j + 1 \in DOMAIN s /\ j + 1 # 1 /\ Tail(s)[j] = s[j + 1]
         /\ \A i, j \in DOMAIN Tail(s) : i # j => i + 1 # j + 1
<1>1. /\ Tail(s) \in Seq(S) /\ Len(Tail(s)) = Len(s) - 1 /\ Len(s) \in Nat
      /\ \A i \in 1..Len(Tail(s)) : Tail(s)[i] = s[i + 1]
  BY HeadTailProperties
<1>2. DOMAIN Tail(s) = 1..(Len(s) - 1) /\ DOMAIN s = 1..Len(s) /\ Len(s) >= 1
  BY <1>1
<1>3. Head(s) = s[1]
  BY <1>2
<1> QED  BY <1>1, <1>2, <1>3

(* A benchmark that is not refused finds none of its files, because the    *)
(* pattern it looks for matches its own name.                              *)
LEMMA StartOwnsFiles ==
  ASSUME ExperimentInv, NEW cfg \in Configs, StartJob(cfg)
  PROVE  OwnFiles'
<1>1. /\ job'.pc = "running" /\ job'.cfg = cfg /\ job'.todo = Units(cfg)
      /\ job'.queue = <<>> /\ job'.records = {}
  BY StartKeepsInv
<1> SUFFICES ASSUME cfg.kind = "benchmark", ~cfg.force
             PROVE  /\ {archive'[id] : id \in Mine'} = {}
                    /\ NothingTwice(Units(cfg), <<>>, Mine')
  BY <1>1 DEF OwnFiles, OwnBenchmark
<1>2. ~Existing(cfg) /\ archive' = archive /\ SelectTasks(cfg) # {}
  BY DEF StartJob
<1>3. Mine' = {}
  <2>1. \A id \in DOMAIN archive : id.name \notin NamesUnder[cfg.name]
    BY <1>2 DEF Existing
  <2>2. cfg.name \in NamesUnder[cfg.name]
    BY ConfigsAreValid
  <2> QED  BY <1>1, <1>2, <2>1, <2>2 DEF Mine
<1>4. \A i, j \in DOMAIN Units(cfg) : i # j => Units(cfg)[i] # Units(cfg)[j]
  BY <1>2, UnitsAreParts DEF ExperimentInv, ArchiveHolds
<1> QED  BY <1>3, <1>4 DEF NothingTwice

(* The runs of the next task meet no file of the benchmark: the task had   *)
(* not been expanded yet.                                                  *)
LEMMA NextTaskOwnsFiles ==
  ASSUME ExperimentInv, OwnFiles, NextTask
  PROVE  OwnFiles'
<1> DEFINE cfg == job.cfg
           task == CHOOSE t \in DOMAIN Tasks : Head(job.todo) = {t}
           arms == SetToSeq(ResolveArchitectureArms(cfg.spec, Tasks[task].available))
           queue == ArmRuns(cfg, task, arms)
<1>1. /\ job.pc = "running" /\ cfg.kind = "benchmark" /\ job.todo # <<>>
      /\ cfg \in Configs /\ job.todo \in Seq(Parts(cfg)) /\ JobIsRecord
  BY DEF NextTask, ExperimentInv, JobHolds
<1>2. job' = [job EXCEPT !.todo = Tail(@), !.queue = queue,
                         !.skipped = IF arms = <<>> THEN @ + cfg.reps ELSE @]
  BY DEF NextTask
<1>3. Head(job.todo) \in Parts(cfg)
  BY <1>1, HeadTailProperties
<1>4. task \in DOMAIN Tasks /\ Head(job.todo) = {task}
  BY <1>1, <1>3 DEF Parts
<1>5. /\ \A k \in DOMAIN queue : queue[k].id.part = {task}
      /\ \A j, k \in DOMAIN queue : queue[j].id = queue[k].id => j = k
  <2> HIDE DEF task
  <2>1. arms = SetToSeq(ResolveArchitectureArms(cfg.spec, Tasks[task].available))
    OBVIOUS
  <2> HIDE DEF arms
  <2> QED  BY <1>1, <1>4, <2>1, ArmRunsAreRuns
<1> HIDE DEF queue, task, arms
<1>6. /\ job'.pc = "running" /\ job'.cfg = cfg /\ job'.todo = Tail(job.todo)
      /\ job'.queue = queue /\ job'.records = job.records /\ archive' = archive
  BY <1>1, <1>2 DEF JobIsRecord, NextTask
<1>7. Mine' = Mine
  BY <1>6 DEF Mine
<1> SUFFICES ASSUME ~cfg.force
             PROVE  /\ {archive[id] : id \in Mine} = job.records
                    /\ NothingTwice(Tail(job.todo), queue, Mine)
  BY <1>6, <1>7 DEF OwnFiles, OwnBenchmark
<1>8. {archive[id] : id \in Mine} = job.records /\ NothingTwice(job.todo, job.queue, Mine)
  BY <1>1 DEF OwnFiles, OwnBenchmark
<1>9. /\ 1 \in DOMAIN job.todo /\ {task} = job.todo[1]
      /\ \A j \in DOMAIN Tail(job.todo) :
            j + 1 \in DOMAIN job.todo /\ j + 1 # 1 /\ Tail(job.todo)[j] = job.todo[j + 1]
      /\ \A i, j \in DOMAIN Tail(job.todo) : i # j => i + 1 # j + 1
  BY <1>1, <1>4, TailIs
<1>10. NothingTwice(Tail(job.todo), queue, Mine)
  <2>1. /\ \A id \in Mine : \A j \in DOMAIN job.todo : job.todo[j] # id.part
        /\ \A i, j \in DOMAIN job.todo : i # j => job.todo[i] # job.todo[j]
    BY <1>8 DEF NothingTwice
  <2>2. ASSUME NEW id \in Mine
        PROVE  /\ \A j \in DOMAIN Tail(job.todo) : Tail(job.todo)[j] # id.part
               /\ \A k \in DOMAIN queue : queue[k].id # id
    <3>1. \A j \in DOMAIN Tail(job.todo) : Tail(job.todo)[j] # id.part
      BY <1>9, <2>1
    <3>2. id.part # {task}
      BY <1>9, <2>1
    <3> QED  BY <1>5, <3>1, <3>2
  <2>3. \A i, j \in DOMAIN Tail(job.todo) : i # j => Tail(job.todo)[i] # Tail(job.todo)[j]
    BY <1>9, <2>1
  <2>4. ASSUME NEW i \in DOMAIN queue, NEW j \in DOMAIN Tail(job.todo)
        PROVE  queue[i].id.part # Tail(job.todo)[j]
    <3>1. Tail(job.todo)[j] # {task}
      BY <1>9, <2>1
    <3> QED  BY <1>5, <3>1
  <2> QED  BY <1>5, <2>2, <2>3, <2>4 DEF NothingTwice
<1> QED  BY <1>8, <1>10

(* A run of an unforced benchmark replaces no record.                      *)
LEMMA RunOneOwnsFiles ==
  ASSUME ExperimentInv, OwnFiles, RunOne
  PROVE  OwnFiles'
<1> DEFINE run == Head(job.queue)
           queue == job.queue
<1>1. /\ job.pc = "running" /\ queue # <<>> /\ JobIsRecord
      /\ queue \in Seq(Runs(job.cfg))
  BY DEF RunOne, ExperimentInv, JobHolds
<1>2. run \in Runs(job.cfg)
  BY <1>1, HeadTailProperties
<1>3. PICK done \in BOOLEAN, score \in Scores :
         LET rec == RecordOf(run, IF done THEN "COMPLETED" ELSE "FAILED", score) IN
         /\ archive' = Write(archive, run.id, rec)
         /\ job' = [job EXCEPT !.queue = Tail(@), !.records = @ \cup {rec},
                               !.successful = IF done THEN @ + 1 ELSE @,
                               !.failed = IF done THEN @ ELSE @ + 1]
  BY DEF RunOne
<1> DEFINE rec == RecordOf(run, IF done THEN "COMPLETED" ELSE "FAILED", score)
<1>4. archive' = Write(archive, run.id, rec)
  BY <1>3
<1>5. /\ job'.pc = "running" /\ job'.cfg = job.cfg /\ job'.todo = job.todo
      /\ job'.queue = Tail(queue) /\ job'.records = job.records \cup {rec}
  BY <1>1, <1>3 DEF JobIsRecord
<1>6. run.id.name = job.cfg.name
  BY <1>2 DEF Runs, RunIds
<1>7. /\ 1 \in DOMAIN queue /\ run = queue[1]
      /\ \A j \in DOMAIN Tail(queue) :
            j + 1 \in DOMAIN queue /\ j + 1 # 1 /\ Tail(queue)[j] = queue[j + 1]
      /\ \A i, j \in DOMAIN Tail(queue) : i # j => i + 1 # j + 1
  BY <1>1, TailIs
<1> HIDE DEF rec, run, queue
<1> SUFFICES ASSUME job.cfg.kind = "benchmark", ~job.cfg.force
             PROVE  /\ {archive'[id] : id \in Mine'} = job.records \cup {rec}
                    /\ NothingTwice(job.todo, Tail(queue), Mine')
  BY <1>5 DEF OwnFiles, OwnBenchmark
<1>8. {archive[id] : id \in Mine} = job.records /\ NothingTwice(job.todo, queue, Mine)
  BY <1>1 DEF OwnFiles, OwnBenchmark, queue
<1>9. run.id \notin DOMAIN archive
  BY <1>6, <1>7, <1>8 DEF NothingTwice, Mine
<1>10. /\ DOMAIN archive' = {run.id} \cup DOMAIN archive /\ archive'[run.id] = rec
       /\ \A x \in DOMAIN archive : archive'[x] = archive[x]
  BY <1>4, <1>9 DEF Write
<1>11. Mine' = Mine \cup {run.id}
  BY <1>5, <1>6, <1>10 DEF Mine
<1>12. {archive'[id] : id \in Mine'} = job.records \cup {rec}
  <2>1. \A x \in Mine : archive'[x] = archive[x]
    BY <1>10 DEF Mine
  <2> QED  BY <1>8, <1>10, <1>11, <2>1
<1>13. NothingTwice(job.todo, Tail(queue), Mine')
  <2>1. ASSUME NEW id \in Mine'
        PROVE  /\ \A j \in DOMAIN job.todo : job.todo[j] # id.part
               /\ \A k \in DOMAIN Tail(queue) : Tail(queue)[k].id # id
    <3>1. CASE id \in Mine
      BY <1>7, <1>8, <3>1 DEF NothingTwice
    <3>2. CASE id = run.id
      BY <1>7, <1>8, <3>2 DEF NothingTwice
    <3> QED  BY <1>11, <3>1, <3>2
  <2>2. \A i, j \in DOMAIN Tail(queue) : i # j => Tail(queue)[i].id # Tail(queue)[j].id
    BY <1>7, <1>8 DEF NothingTwice
  <2>3. \A i \in DOMAIN Tail(queue), j \in DOMAIN job.todo : Tail(queue)[i].id.part # job.todo[j]
    BY <1>7, <1>8 DEF NothingTwice
  <2> QED  BY <1>8, <2>1, <2>2, <2>3 DEF NothingTwice
<1> QED  BY <1>12, <1>13

(* The aggregate lists the valid records of the benchmark.                 *)
LEMMA FinishOwnsFiles ==
  ASSUME ExperimentInv, OwnFiles, FinishJob
  PROVE  OwnFiles'
<1>1. /\ job.pc = "running" /\ JobIsRecord /\ job' = [job EXCEPT !.pc = "done"]
      /\ archive' = archive
  BY DEF FinishJob, ExperimentInv, JobHolds
<1>2. job'.pc = "done" /\ job'.cfg = job.cfg /\ job'.records = job.records
  BY <1>1 DEF JobIsRecord
<1>3. Mine' = Mine
  BY <1>1, <1>2 DEF Mine
<1> SUFFICES ASSUME job.cfg.kind = "benchmark", ~job.cfg.force
             PROVE  /\ {archive[id] : id \in Mine} = job.records
                    /\ job.records # {} =>
                          aggregates'[job.cfg.name].runs = {id \in Mine : archive[id].valid}
  BY <1>1, <1>2, <1>3 DEF OwnFiles, OwnBenchmark
<1>4. {archive[id] : id \in Mine} = job.records
  BY <1>1 DEF OwnFiles, OwnBenchmark
<1>5. ASSUME job.records # {}
      PROVE  aggregates'[job.cfg.name].runs = {id \in Mine : archive[id].valid}
  <2> DEFINE valid == {r.id : r \in {x \in job.records : x.valid}}
             row == [runs |-> valid, consistent |-> ControlsConsistent(job.records)]
  <2>1. aggregates' = Write(aggregates, job.cfg.name, row)
    BY <1>5 DEF FinishJob
  <2>2. row.runs = valid
    OBVIOUS
  <2>3. \A id \in Mine : archive[id].id = id
    BY DEF Mine, ExperimentInv, RecordHolds
  <2>4. valid = {id \in Mine : archive[id].valid}
    <3>1. ASSUME NEW x \in valid
          PROVE  x \in Mine /\ archive[x].valid
      BY <1>4, <2>3
    <3>2. ASSUME NEW id \in Mine, archive[id].valid
          PROVE  id \in valid
      BY <1>4, <2>3, <3>2
    <3> HIDE DEF valid
    <3> QED  BY <3>1, <3>2
  <2> HIDE DEF valid, row
  <2>5. aggregates'[job.cfg.name] = row
    BY <2>1 DEF Write
  <2> QED  BY <2>2, <2>4, <2>5
<1> QED  BY <1>4, <1>5

(* AggregateIsArchive: the aggregate of a benchmark that was not forced    *)
(* has exactly the valid records that the archive has under its name,      *)
(* whatever was started, killed or refused before (benchmark/runner.py     *)
(* 328-351).                                                               *)
THEOREM AggregatesAreArchive == ExperimentSpec => []AggregateIsArchive
<1>1. ExperimentInit => OwnFiles
  BY DEF ExperimentInit, Idle, OwnFiles, OwnBenchmark
<1>2. ExperimentInv /\ OwnFiles /\ [ExperimentNext]_experimentVars => OwnFiles'
  <2> SUFFICES ASSUME ExperimentInv, OwnFiles, [ExperimentNext]_experimentVars
               PROVE  OwnFiles'
    OBVIOUS
  <2>1. CASE \E cfg \in Configs : StartJob(cfg)
    BY <2>1, StartOwnsFiles
  <2>2. CASE NextTask
    BY <2>2, NextTaskOwnsFiles
  <2>3. CASE NextCondition
    <3>1. job'.cfg = job.cfg /\ job.cfg.kind = "context"
      BY <2>3 DEF NextCondition, ExperimentInv, JobHolds, JobIsRecord
    <3> QED  BY <3>1 DEF OwnFiles, OwnBenchmark
  <2>4. CASE RunOne
    BY <2>4, RunOneOwnsFiles
  <2>5. CASE FinishJob
    BY <2>5, FinishOwnsFiles
  <2>6. CASE CrashJob
    BY <2>6 DEF CrashJob, Idle, OwnFiles, OwnBenchmark
  <2>7. CASE UNCHANGED experimentVars
    BY <2>7 DEF experimentVars, OwnFiles, OwnBenchmark, Mine
  <2> QED  BY <2>1, <2>2, <2>3, <2>4, <2>5, <2>6, <2>7 DEF ExperimentNext
<1>3. OwnFiles => AggregateIsArchive
  BY DEF OwnFiles, OwnBenchmark, Mine, AggregateIsArchive
<1> QED  BY <1>1, <1>2, <1>3, ExperimentInvariant, PTL DEF ExperimentSpec
-----------------------------------------------------------------------------
(* Two sets of records with the same usable ones have the same usable ones *)
(* in every selection an analysis makes.                                   *)
LEMMA SelectionsAgree ==
  ASSUME NEW rs, NEW qs, Usable(rs) = Usable(qs)
  PROVE  /\ \A u : Usable(RecordsForUseCase(rs, u)) = Usable(RecordsForUseCase(qs, u))
         /\ \A combos : Usable(WithCombination(rs, combos)) = Usable(WithCombination(qs, combos))
         /\ \A dim, has : Usable(Side(rs, dim, has)) = Usable(Side(qs, dim, has))
         /\ Usable(SingleArchitecture(rs)) = Usable(SingleArchitecture(qs))
         /\ Summarize(rs) = Summarize(qs)
<1>1. \A r : r \in rs /\ IsUsable(r) <=> r \in qs /\ IsUsable(r)
  BY DEF Usable
<1>2. \A u : Usable(RecordsForUseCase(rs, u)) = Usable(RecordsForUseCase(qs, u))
  BY <1>1 DEF Usable, RecordsForUseCase
<1>3. \A combos : Usable(WithCombination(rs, combos)) = Usable(WithCombination(qs, combos))
  BY <1>1 DEF Usable, WithCombination
<1>4. ASSUME NEW dim, NEW has
      PROVE  Usable(Side(rs, dim, has)) = Usable(Side(qs, dim, has))
  <2>1. /\ Side(rs, dim, has) = {r \in rs : (dim \in r.combo) = has}
        /\ Side(qs, dim, has) = {r \in qs : (dim \in r.combo) = has}
    BY DEF Side, WithCombination, TestedCombinations
  <2> QED  BY <1>1, <2>1 DEF Usable
<1>5. Usable(SingleArchitecture(rs)) = Usable(SingleArchitecture(qs))
  BY <1>1 DEF Usable, SingleArchitecture
<1>6. Summarize(rs) = Summarize(qs)
  BY DEF Summarize, Evaluated
<1> QED  BY <1>2, <1>3, <1>4, <1>5, <1>6

(* What is averaged over something was tested by a usable run.             *)
LEMMA AveragedIsTested ==
  ASSUME NEW rs, NEW qs, Usable(rs) = Usable(qs), NEW c,
         Summarize(WithCombination(rs, {c})).n > 0
  PROVE  c \in TestedCombinations(qs)
<1>1. Usable(WithCombination(rs, {c})) # {}
  <2>1. Evaluated(WithCombination(rs, {c})) # {}
    BY FS_EmptySet DEF Summarize
  <2> QED  BY <2>1 DEF Evaluated
<1>2. PICK r \in Usable(WithCombination(qs, {c})) : TRUE
  BY <1>1, SelectionsAgree
<1> QED  BY <1>2 DEF Usable, WithCombination, TestedCombinations

(* Sufficiency depends on the usable records only.                         *)
LEMMA SufficiencyAgrees ==
  ASSUME NEW rs, NEW qs, Usable(rs) = Usable(qs)
  PROVE  /\ MinimalSufficient(rs) = MinimalSufficient(qs)
         /\ MinimumSufficient(rs) = MinimumSufficient(qs)
<1>1. \A c : Summarize(WithCombination(rs, {c})) = Summarize(WithCombination(qs, {c}))
  BY SelectionsAgree
<1>2. \A c : Passes(Summarize(WithCombination(rs, {c}))) =>
               c \in TestedCombinations(rs) /\ c \in TestedCombinations(qs)
  BY <1>1, AveragedIsTested DEF Passes
<1>3. SufficientCombinations(rs) = SufficientCombinations(qs)
  BY <1>1, <1>2 DEF SufficientCombinations
<1>4. MinimalSufficient(rs) = MinimalSufficient(qs)
  BY <1>3 DEF MinimalSufficient
<1> QED  BY <1>4 DEF MinimumSufficient

Mean(rs, c) == Summarize(WithCombination(rs, {c}))
Scored(rs) == {c \in TestedCombinations(rs) : Mean(rs, c).n > 0}
Best(rs) == {c \in Scored(rs) : \A d \in Scored(rs) : ~Below(Mean(rs, c), Mean(rs, d))}

(* So does the best tested combination.                                    *)
LEMMA BestAgrees ==
  ASSUME NEW rs, NEW qs, Usable(rs) = Usable(qs)
  PROVE  BestTested(rs) = BestTested(qs)
<1>1. \A c : Mean(rs, c) = Mean(qs, c)
  BY SelectionsAgree DEF Mean
<1>2. \A c : Mean(rs, c).n > 0 => c \in TestedCombinations(rs) /\ c \in TestedCombinations(qs)
  BY <1>1, AveragedIsTested DEF Mean
<1>3. Scored(rs) = Scored(qs)
  BY <1>1, <1>2 DEF Scored
<1>4. Best(rs) = Best(qs)
  BY <1>1, <1>3 DEF Best
<1> DEFINE first(best) == IF best = {} THEN {}
                          ELSE CHOOSE c \in best :
                                 \A d \in best \ {c} : CombinationLess(c, d)
<1>5. BestTested(rs) = first(Best(rs)) /\ BestTested(qs) = first(Best(qs))
  BY DEF BestTested, Best, Scored, Mean
<1> HIDE DEF first
<1> QED  BY <1>4, <1>5

(* So does every cell of the requirement matrix.                           *)
LEMMA RequirementAgrees ==
  ASSUME NEW rs, NEW qs, Usable(rs) = Usable(qs), NEW u, NEW dim
  PROVE  RequirementCell(rs, u, dim) = RequirementCell(qs, u, dim)
<1> DEFINE r == RecordsForUseCase(rs, u)
           q == RecordsForUseCase(qs, u)
<1>1. Usable(r) = Usable(q)
  BY SelectionsAgree
<1> HIDE DEF r, q
<1>2. \A has : Summarize(Side(r, dim, has)) = Summarize(Side(q, dim, has))
  BY <1>1, SelectionsAgree
<1>3. Beneficial(r, dim) <=> Beneficial(q, dim)
  <2>1. /\ Summarize(Side(r, dim, TRUE)) = Summarize(Side(q, dim, TRUE))
        /\ Summarize(Side(r, dim, FALSE)) = Summarize(Side(q, dim, FALSE))
    BY <1>2
  <2>2. HasEvidence(r, dim) <=> HasEvidence(q, dim)
    BY <1>2 DEF HasEvidence
  <2> QED  BY <2>1, <2>2 DEF Beneficial
<1>4. MinimumSufficient(r) = MinimumSufficient(q)
  BY <1>1, SufficiencyAgrees
<1> QED  BY <1>3, <1>4 DEF RequirementCell, r, q

ArmGroup(rs, a) == {r \in rs : r.valid /\ r.arm = a}
ArmMean(rs, a) == Summarize(ArmGroup(rs, a))
Capable(rs, dim) ==
    {a \in {r.arm : r \in {x \in rs : x.valid}} :
        a \subseteq ArchitecturesSupporting[dim] /\ ArmMean(rs, a).n > 0}

(* Represents, in terms of the arms it compares.                           *)
LEMMA RepresentsIs ==
  ASSUME NEW rs, NEW dim
  PROVE  Represents(rs, dim)
           = {a \in Capable(SingleArchitecture(rs), dim) :
                \A b \in Capable(SingleArchitecture(rs), dim) :
                   ~Below(ArmMean(SingleArchitecture(rs), a), ArmMean(SingleArchitecture(rs), b))}
<1> DEFINE ps == SingleArchitecture(rs)
           groups == AggregateRecords(ps, "arm")
           arms == {r.arm : r \in {x \in ps : x.valid}}
<1>1. DOMAIN groups = arms /\ \A a \in arms : groups[a].mean = ArmMean(ps, a)
  <2>1. \A a : {r \in {x \in ps : x.valid} : r["arm"] = a} = ArmGroup(ps, a)
    BY DEF ArmGroup
  <2> QED  BY <2>1 DEF AggregateRecords, ArmMean
<1>2. Represents(rs, dim) =
        LET capable == {a \in DOMAIN groups : a \subseteq ArchitecturesSupporting[dim]
                                              /\ groups[a].mean.n > 0}
        IN  {a \in capable : \A b \in capable : ~Below(groups[a].mean, groups[b].mean)}
  BY DEF Represents
<1> HIDE DEF groups
<1> QED  BY <1>1, <1>2 DEF Capable

(* So does the choice of a representation.                                 *)
LEMMA RepresentationAgrees ==
  ASSUME NEW rs, NEW qs, Usable(rs) = Usable(qs), NEW dim
  PROVE  Represents(rs, dim) = Represents(qs, dim)
<1> DEFINE r == SingleArchitecture(rs)
           q == SingleArchitecture(qs)
<1>1. Usable(r) = Usable(q)
  BY SelectionsAgree
<1> HIDE DEF r, q
<1>2. \A a : Usable(ArmGroup(r, a)) = Usable(ArmGroup(q, a))
  BY <1>1 DEF Usable, ArmGroup, IsUsable
<1>3. \A a : ArmMean(r, a) = ArmMean(q, a)
  <2>1. \A a : Evaluated(ArmGroup(r, a)) = Evaluated(ArmGroup(q, a))
    BY <1>2 DEF Evaluated
  <2> QED  BY <2>1 DEF ArmMean, Summarize
<1>4. ASSUME NEW a, ArmMean(r, a).n > 0
      PROVE  /\ a \in {x.arm : x \in {y \in r : y.valid}}
             /\ a \in {x.arm : x \in {y \in q : y.valid}}
  <2>1. Usable(ArmGroup(r, a)) # {}
    <3>1. Evaluated(ArmGroup(r, a)) # {}
      BY <1>4, FS_EmptySet DEF ArmMean, Summarize
    <3> QED  BY <3>1 DEF Evaluated
  <2>2. PICK x : x \in Usable(ArmGroup(r, a)) /\ x \in Usable(ArmGroup(q, a))
    BY <1>2, <2>1
  <2> QED  BY <2>2 DEF Usable, ArmGroup
<1>5. Capable(r, dim) = Capable(q, dim)
  BY <1>3, <1>4 DEF Capable
<1> QED  BY <1>3, <1>5, RepresentsIs DEF r, q

(* So does the verdict on a hypothesis.                                    *)
LEMMA HypothesisAgrees ==
  ASSUME NEW rs, NEW qs, Usable(rs) = Usable(qs), NEW h
  PROVE  EvaluateHypothesis(h, rs) = EvaluateHypothesis(h, qs)
<1>1. \A keys : ArmRecords(rs, keys) = ArmRecords(qs, keys)
  <2>1. Evaluated(rs) = Evaluated(qs)
    BY DEF Evaluated
  <2> QED  BY <2>1 DEF ArmRecords
<1> QED  BY <1>1 DEF EvaluateHypothesis

(* So do all the conclusions of a use case (analysis/_shared.py,           *)
(* is_usable_record).                                                      *)
LEMMA UsableRunsDecide ==
  ASSUME NEW rs, NEW qs, Usable(rs) = Usable(qs), NEW u
  PROVE  Conclusions(rs, u) = Conclusions(qs, u)
<1> DEFINE r == RecordsForUseCase(rs, u)
           q == RecordsForUseCase(qs, u)
<1>1. Usable(r) = Usable(q)
  BY SelectionsAgree
<1>2. MinimalSufficient(r) = MinimalSufficient(q) /\ BestTested(r) = BestTested(q)
  <2> HIDE DEF r, q
  <2> QED  BY <1>1, SufficiencyAgrees, BestAgrees
<1>3. [d \in Dimensions |-> RequirementCell(rs, u, d)]
        = [d \in Dimensions |-> RequirementCell(qs, u, d)]
  BY RequirementAgrees
<1>4. Profile(rs, u).representations = Profile(qs, u).representations
  <2>1. \A d : Represents(r, d) = Represents(q, d)
    <3> HIDE DEF r, q
    <3> QED  BY <1>1, RepresentationAgrees
  <2> QED  BY <2>1 DEF Profile
<1>5. [h \in DOMAIN HypothesisSpecs |-> EvaluateHypothesis(h, rs)]
        = [h \in DOMAIN HypothesisSpecs |-> EvaluateHypothesis(h, qs)]
  BY HypothesisAgrees
<1> QED  BY <1>2, <1>3, <1>4, <1>5 DEF Conclusions

(* Nothing removes a record.                                               *)
LEMMA ArchiveGrows ==
  ASSUME [ExperimentNext]_experimentVars
  PROVE  DOMAIN archive \subseteq DOMAIN archive'
<1>1. CASE \E cfg \in Configs : StartJob(cfg)
  BY <1>1 DEF StartJob
<1>2. CASE NextTask \/ NextCondition \/ FinishJob
  BY <1>2 DEF NextTask, NextCondition, FinishJob
<1>3. CASE RunOne
  BY <1>3 DEF RunOne, Write
<1>4. CASE CrashJob
  BY <1>4 DEF CrashJob, Write
<1>5. CASE UNCHANGED experimentVars
  BY <1>5 DEF experimentVars
<1> QED  BY <1>1, <1>2, <1>3, <1>4, <1>5 DEF ExperimentNext

(* FailuresConcludeNothing: a step that adds only failed, torn or legacy   *)
(* records changes nothing that Conclusions names: sufficient and best     *)
(* conditions, requirement matrix, representations and hypotheses.         *)
THEOREM FailuresDecideNothing == ExperimentSpec => FailuresConcludeNothing
<1> DEFINE OnlyUnusable ==
             /\ \A id \in DOMAIN archive' : Saved(id) \/ ~IsUsable(archive'[id])
             /\ \A id \in DOMAIN archive : archive'[id] = archive[id]
           Same == \A u \in DOMAIN UseCases : Conclusions(Loaded', u) = Conclusions(Loaded, u)
<1>1. [ExperimentNext]_experimentVars => [OnlyUnusable => Same]_experimentVars
  <2> SUFFICES ASSUME [ExperimentNext]_experimentVars, OnlyUnusable
               PROVE  Same
    OBVIOUS
  <2>1. DOMAIN archive \subseteq DOMAIN archive'
    BY ArchiveGrows
  <2>2. ASSUME NEW r \in Usable(Loaded')
        PROVE  r \in Usable(Loaded)
    <3>1. PICK id \in DOMAIN archive' : /\ r = archive'[id] /\ IsUsable(r)
                                        /\ archive'[id].status # "torn"
      BY DEF Usable, Loaded
    <3>2. id \in DOMAIN archive /\ r = archive[id]
      BY <3>1 DEF Saved
    <3> QED  BY <3>1, <3>2 DEF Usable, Loaded
  <2>3. ASSUME NEW r \in Usable(Loaded)
        PROVE  r \in Usable(Loaded')
    <3>1. PICK id \in DOMAIN archive : /\ r = archive[id] /\ IsUsable(r)
                                       /\ archive[id].status # "torn"
      BY DEF Usable, Loaded
    <3>2. id \in DOMAIN archive' /\ r = archive'[id]
      BY <2>1, <3>1
    <3> QED  BY <3>1, <3>2 DEF Usable, Loaded
  <2>4. Usable(Loaded') = Usable(Loaded)
    BY <2>2, <2>3
  <2> QED  BY <2>4, UsableRunsDecide
<1> QED  BY <1>1, PTL DEF ExperimentSpec, FailuresConcludeNothing
=============================================================================
