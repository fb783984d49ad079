------------------------- MODULE LevelCompleteness -------------------------
(***************************************************************************)
(* When a level of the benchmark counts as complete                        *)
(* (src/icab/benchmark/completeness.py): a function of the records that    *)
(* are persisted and of the level's question bank, nothing else.           *)
(***************************************************************************)
EXTENDS ResultStore

CONSTANTS
    Bank,                    \* question ids of the level's bank
    TargetQuestions,         \* TARGET_QUESTIONS_PER_LEVEL
    TargetRepetitions,       \* TARGET_REPETITIONS_PER_QUESTION
    QuestionOf,              \* the question each run answers,
    RepetitionOf,            \* its repetition number
    InstanceOf               \* and its question instance (arm, agent, model)

ASSUME BankAssumption ==
    /\ IsFiniteSet(Bank)
    /\ TargetQuestions \in Nat /\ TargetRepetitions \in Nat
    /\ RepetitionOf \in [RunIds -> Nat]
    /\ DOMAIN QuestionOf = RunIds /\ DOMAIN InstanceOf = RunIds

Successful(runs) == {r \in runs : raw[r].status = "COMPLETED"}

RecordsOf(q, runs) == {r \in runs : QuestionOf[r] = q}

(* Two records of one instance with one repetition number: other seeds, or *)
(* other campaigns.                                                        *)
DuplicateRepetitions(runs) ==
    {r \in runs : \E s \in runs \ {r} : /\ InstanceOf[s] = InstanceOf[r]
                                         /\ RepetitionOf[s] = RepetitionOf[r]
                                         /\ QuestionOf[s] = QuestionOf[r]}

(* Repetitions are counted without duplicates.                             *)
RepetitionsCompleted(q, runs) ==
    Cardinality({RepetitionOf[r] : r \in Successful(RecordsOf(q, runs))})

LevelIssues(wrongLevel) ==
    LET runs == ListRunIds \ wrongLevel IN
    {i \in {"bank size", "mismatched level", "duplicate repetition"} :
        \/ i = "bank size" /\ Cardinality(Bank) # TargetQuestions
        \/ i = "mismatched level" /\ ListRunIds \cap wrongLevel # {}
        \/ i = "duplicate repetition" /\ DuplicateRepetitions(runs) # {}}

(* Variant with a plausible bug: duplicates only reported, as the comment  *)
(* above their count says.                                                 *)
IsCompleteWithDuplicates(wrongLevel) ==
    LET runs == ListRunIds \ wrongLevel IN
    /\ LevelIssues(wrongLevel) \subseteq {"duplicate repetition"}
    /\ Cardinality(Successful(runs)) >= TargetQuestions * TargetRepetitions
    /\ \A q \in Bank : RepetitionsCompleted(q, runs) >= TargetRepetitions

IsComplete(wrongLevel) ==
    LET runs == ListRunIds \ wrongLevel IN
    /\ LevelIssues(wrongLevel) = {}
    /\ Cardinality(Successful(runs)) = TargetQuestions * TargetRepetitions
    /\ \A q \in Bank : RepetitionsCompleted(q, runs) >= TargetRepetitions

(* _completeness_for_level: the table can be made only if every record of  *)
(* the level loads.                                                        *)
CompletenessKnown == \A r \in ListRunIds : Loadable(r)
=============================================================================
