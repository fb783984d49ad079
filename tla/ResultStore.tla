---------------------------- MODULE ResultStore ----------------------------
(***************************************************************************)
(* The result tree of one benchmark level (ExperimentResultStore in        *)
(* src/icab/experiments/storage.py): three families of files keyed by run  *)
(* id.  Every file is written in place by open(..., "w"), which truncates, *)
(* followed by the write itself; a process that dies in between leaves a   *)
(* file that exists and does not parse.                                    *)
(*                                                                         *)
(* The content of a file is abstracted to the execution that produced it:  *)
(* the n-th execution of a run id, and how that execution ended.           *)
(***************************************************************************)
EXTENDS Naturals, FiniteSets

CONSTANT RunIds        \* the file stems, numbered in the order sorted() gives

ASSUME RunIdsAssumption == RunIds \subseteq Nat

VARIABLES
    raw,               \* raw/<run_id>.json        : the record without evaluation
    trace,             \* traces/<run_id>.jsonl    : the trace events
    evaluation         \* evaluations/<run_id>.json: the evaluation report

storeVars == <<raw, trace, evaluation>>

Status == {"COMPLETED", "FAILED"}

(* What one call of run_one returns: which execution of the run id it is   *)
(* and the status of the record.  A record has an evaluation exactly when  *)
(* the agent returned a result, that is when it is COMPLETED.              *)
Record == [exec : Nat, status : Status]

HasEvaluation(rec) == rec.status = "COMPLETED"

NoFile   == [state |-> "absent", exec |-> 0, status |-> "FAILED"]
TornFile == [state |-> "torn", exec |-> 0, status |-> "FAILED"]

(* Variant with a plausible bug: the status is not persisted.              *)
FileWithoutStatus(rec) == [state |-> "whole", exec |-> rec.exec]

FileOf(rec) == [state |-> "whole", exec |-> rec.exec, status |-> rec.status]

File == [state : {"absent", "torn", "whole"}, exec : Nat, status : Status]

Exists(f) == f.state # "absent"

(* Variant with a plausible bug: the wrong directory is listed.            *)
ListEvaluatedIds == {r \in RunIds : Exists(evaluation[r])}

(* list_run_ids: every raw/*.json there is, parsable or not.               *)
ListRunIds == {r \in RunIds : Exists(raw[r])}

(* Variants with a plausible bug: parse errors swallowed; a record without *)
(* an evaluation refused.                                                  *)
LoadableUnparsed(r) == Exists(raw[r])
LoadableEvaluated(r) == raw[r].state = "whole" /\ evaluation[r].state = "whole"

(* load_record parses the raw file and, when there is one, the evaluation  *)
(* file of the same run id; it raises when either does not parse.          *)
Loadable(r) == raw[r].state = "whole" /\ evaluation[r].state # "torn"

StoreTypeOK ==
    /\ raw \in [RunIds -> File]
    /\ trace \in [RunIds -> File]
    /\ evaluation \in [RunIds -> File]

StoreInit ==
    /\ raw = [r \in RunIds |-> NoFile]
    /\ trace = [r \in RunIds |-> NoFile]
    /\ evaluation = [r \in RunIds |-> NoFile]

(* The writes of save(), in its order; Truncate is the open, Fill the      *)
(* write and close.                                                        *)
TruncateRaw(r) ==
    raw' = [raw EXCEPT ![r] = TornFile] /\ UNCHANGED <<trace, evaluation>>
FillRaw(r, rec) ==
    raw' = [raw EXCEPT ![r] = FileOf(rec)] /\ UNCHANGED <<trace, evaluation>>
TruncateTrace(r) ==
    trace' = [trace EXCEPT ![r] = TornFile] /\ UNCHANGED <<raw, evaluation>>
FillTrace(r, rec) ==
    trace' = [trace EXCEPT ![r] = FileOf(rec)] /\ UNCHANGED <<raw, evaluation>>
TruncateEvaluation(r) ==
    evaluation' = [evaluation EXCEPT ![r] = TornFile] /\ UNCHANGED <<raw, trace>>
FillEvaluation(r, rec) ==
    evaluation' = [evaluation EXCEPT ![r] = FileOf(rec)] /\ UNCHANGED <<raw, trace>>
=============================================================================
