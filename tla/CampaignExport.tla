--------------------------- MODULE CampaignExport ---------------------------
(***************************************************************************)
(* scripts/run_level_benchmark.py for one level: a campaign of             *)
(* QuestionCampaign, then the standalone export of its records             *)
(* (src/icab/export/{build,schema,metrics,writer,validation}.py), then the *)
(* completeness table and the exit code.  The export tree of a campaign    *)
(* lives beside the store, outlives the process and is written again by    *)
(* every later invocation of the same campaign.                            *)
(***************************************************************************)
EXTENDS QuestionCampaign, LevelCompleteness, SequencesExt

VARIABLES
    stage,             \* stage[p]: where the command is, around run()
    rows,              \* rows[p]: the canonical records it exports
    written,           \* written[p]: files of the export written so far
    tree,              \* tree[c]: the export directory of campaign c
    verdict,           \* verdict[c]: what validate_export said last
    exit               \* exit[p]: exit code of the last invocation of p

exportVars == <<stage, rows, written, tree, verdict, exit>>
allVars == <<vars, exportVars>>

Stages == {"idle", "campaign", "load", "write", "validate", "completeness"}

(* What the export keeps of one run: the executions its record, its        *)
(* evaluation and its trace came from (0: none, or a trace cut short).     *)
CanonicalRecord ==
    [run : RunIds, exec : Nat, success : BOOLEAN, evaluated : Nat, traced : Nat]

BuildCanonicalRecord(r) ==
    [run |-> r, exec |-> raw[r].exec, success |-> raw[r].status = "COMPLETED",
     evaluated |-> evaluation[r].exec, traced |-> trace[r].exec]

(* build_campaign_metrics: counts over the rows alone.                     *)
BuildCampaignMetrics(rs) ==
    [total     |-> Len(rs),
     completed |-> Cardinality({i \in DOMAIN rs : rs[i].success}),
     failed    |-> Cardinality({i \in DOMAIN rs : ~rs[i].success}),
     scored    |-> Cardinality({i \in DOMAIN rs : rs[i].evaluated # 0})]

(* The files of an export tree: the required ones and two for each run.    *)
(* The rendered markdown beside a q_and_a file is part of that file.       *)
BeforeExecutions == <<"questions.json", "ground_truth.json", "executions.jsonl",
                      "results.json", "results.csv", "metrics.json">>
AfterExecutions  == <<"benchmark_manifest.json", "README.md">>
RequiredFiles    == ToSet(BeforeExecutions) \cup ToSet(AfterExecutions)
PerExecution     == {"q_and_a", "traces"}
Required(name)   == [name |-> name, run |-> 0]
Files == {Required(n) : n \in RequiredFiles} \cup [name : PerExecution, run : RunIds]

(* A file is absent, cut short by a crash, or whole with its rows.         *)
Absent    == [state |-> "absent", rows |-> <<>>]
Torn      == [state |-> "torn", rows |-> <<>>]
Whole(rs) == [state |-> "whole", rows |-> rs]

ExportTypeOK ==
    /\ TypeOK
    /\ stage \in [Invokers -> Stages]
    /\ rows \in [Invokers -> Seq(CanonicalRecord)]
    /\ written \in [Invokers -> Nat]
    /\ \A c \in Campaigns, f \in Files :
          /\ tree[c][f].state \in {"absent", "torn", "whole"}
          /\ tree[c][f].rows \in Seq(CanonicalRecord)
    /\ verdict \in [Campaigns -> {"none", "OK", "ISSUES"}]
    /\ exit \in [Invokers -> {"none", "killed", "0", "1", "2"}]

ExportInit ==
    /\ Init
    /\ stage = [p \in Invokers |-> "idle"]
    /\ rows = [p \in Invokers |-> <<>>]
    /\ written = [p \in Invokers |-> 0]
    /\ tree = [c \in Campaigns |-> [f \in Files |-> Absent]]
    /\ verdict = [c \in Campaigns |-> "none"]
    /\ exit = [p \in Invokers |-> "none"]

Enter(p, s) == stage' = [stage EXCEPT ![p] = s]
-----------------------------------------------------------------------------
StartCommand(p, c, m) ==
    /\ stage[p] = "idle"
    /\ Start(p, c, m)
    /\ Enter(p, "campaign")
    /\ exit' = [exit EXCEPT ![p] = "none"]
    /\ UNCHANGED <<rows, written, tree, verdict>>

CampaignStep(p) ==
    /\ stage[p] = "campaign"
    /\ Step(p)
    /\ UNCHANGED exportVars

(* A refused or aborted campaign raised a ValueError (the collision, the   *)
(* foreign level, a record that does not parse): the level counts as no    *)
(* runs at all and nothing is exported.                                    *)
LeaveCampaign(p) ==
    /\ stage[p] = "campaign"
    /\ \/ pc[p] = "done" /\ Enter(p, "load")
       \/ pc[p] \in {"refused", "aborted"} /\ Enter(p, "completeness")
    /\ UNCHANGED <<vars, rows, written, tree, verdict, exit>>

(* sorted(records, key=lambda r: r.execution_id)                           *)
Sorted(runs) ==
    LET order == CHOOSE f \in Bijection(DOMAIN runs, DOMAIN runs) :
                     \A i, j \in DOMAIN runs : i < j => runs[f[i]] <= runs[f[j]]
    IN  [i \in DOMAIN runs |-> runs[order[i]]]

(* A trace cut short reads as the events that are there (none, in the      *)
(* model) unless a line is cut: that is a ValidationError, which main      *)
(* turns into exit code 2.  A missing trace and a record that is no JSON   *)
(* raise past main.                                                        *)
Readable(r) == Loadable(r) /\ Exists(trace[r])

LoadErrors(r) == {e \in {"1", "2"} : IF e = "1" THEN ~Readable(r)
                                     ELSE Loadable(r) /\ trace[r].state = "torn"}

(* The first half of _export_campaign.  Every run id of the outcomes is    *)
(* loaded with its trace, up to the first that fails; write() sorts them.  *)
LoadRecords(p) ==
    LET plan == Plan[campaign[p]]
        runs == Sorted(plan)
    IN
    /\ stage[p] = "load"
    /\ \/ /\ \A r \in ToSet(runs) : Readable(r)
          /\ rows' = [rows EXCEPT ![p] = [i \in DOMAIN runs |-> BuildCanonicalRecord(runs[i])]]
          /\ Enter(p, "write")
          /\ UNCHANGED exit
       \/ \E i \in DOMAIN plan : \E e \in LoadErrors(plan[i]) :
          /\ \A j \in 1..(i - 1) : Readable(plan[j])
          /\ Enter(p, "idle")
          /\ exit' = [exit EXCEPT ![p] = e]
          /\ UNCHANGED rows
    /\ written' = [written EXCEPT ![p] = 0]
    /\ UNCHANGED <<vars, tree, verdict>>

(* The files write() writes for some rows, in its order.                   *)
PerExecutionFiles(rs) ==
    [i \in 1..(2 * Len(rs)) |->
        [name |-> IF i % 2 = 1 THEN "q_and_a" ELSE "traces",
         run  |-> rs[(i + 1) \div 2].run]]

Writes(rs) == [i \in DOMAIN BeforeExecutions |-> Required(BeforeExecutions[i])]
              \o PerExecutionFiles(rs)
              \o [i \in DOMAIN AfterExecutions |-> Required(AfterExecutions[i])]

(* Variant with a plausible bug: the row of a per-execution file is looked *)
(* up by its repetition alone.                                             *)
ContentOfRepetition(f, rs) ==
    IF f.name \in PerExecution
    THEN <<CHOOSE x \in ToSet(rs) : RepetitionOf[x.run] = RepetitionOf[f.run]>>
    ELSE rs

ContentOf(f, rs) ==
    IF f.name \in PerExecution THEN <<CHOOSE x \in ToSet(rs) : x.run = f.run>> ELSE rs

(* Variants with a plausible bug: any file already there is kept; a        *)
(* per-execution file is kept only if its run was not executed again.      *)
KeepsEveryFile(c, f) == tree[c][f].state # "absent"
KeepsCurrent(c, f) == /\ f.name \in PerExecution /\ tree[c][f].state = "whole"
                      /\ tree[c][f].rows[1].exec = raw[f.run].exec

(* A per-execution file that exists, readable or not, is kept as it is.    *)
Keeps(c, f) == f.name \in PerExecution /\ tree[c][f].state # "absent"

WriteFile(p) ==
    LET c == campaign[p]
        f == Writes(rows[p])[written[p] + 1]
    IN  /\ stage[p] = "write" /\ written[p] < Len(Writes(rows[p]))
        /\ tree' = IF Keeps(c, f) THEN tree
                   ELSE [tree EXCEPT ![c][f] = Whole(ContentOf(f, rows[p]))]
        /\ written' = [written EXCEPT ![p] = @ + 1]
        /\ UNCHANGED <<vars, stage, rows, verdict, exit>>

FinishWrite(p) ==
    /\ stage[p] = "write" /\ written[p] = Len(Writes(rows[p]))
    /\ Enter(p, "validate")
    /\ UNCHANGED <<vars, rows, written, tree, verdict, exit>>

(* validate_export: counts, ids, levels and the existence of files; the    *)
(* contents of the per-execution files are never read.  Its last check,    *)
(* that each question executed has a ground truth, reads what the same     *)
(* write() took from the task of the same outcome and cannot fail.         *)
ExportIssues(c) ==
    LET at(n)   == tree[c][Required(n)]
        rs      == at("executions.jsonl").rows
        key(x)  == <<QuestionOf[x.run], RepetitionOf[x.run]>>
        missing == {n \in RequiredFiles : at(n).state = "absent"}
    IN  IF missing # {} THEN missing ELSE
        {n \in {"results.json", "results.csv", "benchmark_manifest.json"} :
            Len(at(n).rows) # Len(rs)}
        \cup {"duplicate" : i \in {i \in DOMAIN rs :
                \E j \in DOMAIN rs \ {i} : key(rs[i]) = key(rs[j])}}
        \cup {"mismatched level" : i \in {i \in DOMAIN rs : rs[i].run \in Foreign}}
        \cup {n \in PerExecution : \E i \in DOMAIN rs :
                tree[c][[name |-> n, run |-> rs[i].run]].state = "absent"}

ValidateExport(p) ==
    /\ stage[p] = "validate"
    /\ verdict' = [verdict EXCEPT ![campaign[p]] =
                     IF ExportIssues(campaign[p]) = {} THEN "OK" ELSE "ISSUES"]
    /\ Enter(p, "completeness")
    /\ UNCHANGED <<vars, rows, written, tree, exit>>

(* Variant with a plausible bug: the exit code says whether the campaign   *)
(* was exported.                                                           *)
FinishCommandOK(p) ==
    /\ stage[p] = "completeness"
    /\ Enter(p, "idle")
    /\ exit' = [exit EXCEPT ![p] = IF pc[p] = "done" THEN "0" ELSE "1"]
    /\ UNCHANGED <<vars, rows, written, tree, verdict>>

(* The table, then 1 if any run failed.  A level that raised has no failed *)
(* runs; a record that does not load raises out of the table.              *)
FinishCommand(p) ==
    /\ stage[p] = "completeness"
    /\ Enter(p, "idle")
    /\ exit' = [exit EXCEPT ![p] =
          IF ~CompletenessKnown \/ (pc[p] = "done" /\ tally[p].failed > 0)
          THEN "1" ELSE "0"]
    /\ UNCHANGED <<vars, rows, written, tree, verdict>>

(* --check-only                                                            *)
CheckOnly(p) ==
    /\ stage[p] = "idle" /\ exit[p] # "none"
    /\ exit' = [exit EXCEPT ![p] =
          IF CompletenessKnown /\ IsComplete(Foreign) THEN "0" ELSE "1"]
    /\ UNCHANGED <<vars, stage, rows, written, tree, verdict>>

(* The process dies: in the campaign, between two files of the export, or  *)
(* in the middle of one.                                                   *)
CrashCommand(p) ==
    /\ stage[p] # "idle"
    /\ Enter(p, "idle")
    /\ exit' = [exit EXCEPT ![p] = "killed"]
    /\ IF pc[p] \in Running THEN Crash(p) ELSE UNCHANGED vars
    /\ UNCHANGED <<rows, written, tree, verdict>>

CrashWriting(p) ==
    LET c == campaign[p]
        f == Writes(rows[p])[written[p] + 1]
    IN  /\ stage[p] = "write" /\ written[p] < Len(Writes(rows[p]))
        /\ ~Keeps(c, f)
        /\ tree' = [tree EXCEPT ![c][f] = Torn]
        /\ Enter(p, "idle")
        /\ exit' = [exit EXCEPT ![p] = "killed"]
        /\ UNCHANGED <<vars, rows, written, verdict>>

CommandStep(p) ==
    \/ CampaignStep(p) \/ LeaveCampaign(p) \/ LoadRecords(p) \/ WriteFile(p)
    \/ FinishWrite(p) \/ ValidateExport(p) \/ FinishCommand(p)

ExportNext == \E p \in Invokers :
    \/ \E c \in Campaigns, m \in Modes : StartCommand(p, c, m)
    \/ CommandStep(p) \/ CheckOnly(p) \/ CrashCommand(p) \/ CrashWriting(p)

ExportSpec == ExportInit /\ [][ExportNext]_allVars

(* scripts/reset_active_results.py --force between two commands: the       *)
(* directories of the level are moved away one after the other, then the   *)
(* manifest; the process may die on the way.  benchmark_exports/ is not    *)
(* under results/ and stays.  Nothing stops an operator from resetting     *)
(* under a running command; the specification assumes they do not.         *)
ArchiveOrder == <<"raw", "traces", "evaluations", "manifest">>

ResetResults ==
    /\ \A p \in Invokers : stage[p] = "idle"
    /\ \E n \in DOMAIN ArchiveOrder :
          LET moved == {ArchiveOrder[i] : i \in 1..n}
              Left(family, files) == IF family \in moved THEN [r \in RunIds |-> NoFile]
                                     ELSE files
          IN  /\ raw' = Left("raw", raw)
              /\ trace' = Left("traces", trace)
              /\ evaluation' = Left("evaluations", evaluation)
              /\ manifest' = IF "manifest" \in moved THEN [state |-> "absent", runs |-> {}]
                             ELSE manifest
    /\ UNCHANGED <<invokerVars, executions, reports, starts, exportVars>>

ResetSpec == ExportInit /\ [][ExportNext \/ ResetResults]_allVars

(* As in QuestionCampaign: a command that is not killed keeps running.     *)
FairExportSpec == ExportSpec /\ \A p \in Invokers : WF_allVars(CommandStep(p))
-----------------------------------------------------------------------------
Rows(c, name) == tree[c][Required(name)].rows

(* An export that validation accepted describes each planned run exactly   *)
(* once, and beside each row the tree has both files of the run; each of   *)
(* them that is whole is of one execution of that very run, and not of a   *)
(* newer one than the row (export/writer.py 84-116, 206-215, export/       *)
(* validation.py 71-94).  Of files cut short see AcceptedExportIsWhole.    *)
AcceptedExportCoversPlan ==
    \A p \in Invokers : stage[p] = "completeness" /\ pc[p] = "done"
                          /\ verdict[campaign[p]] = "OK" =>
        LET c == campaign[p]
            rs == Rows(c, "executions.jsonl")
        IN  /\ {x.run : x \in ToSet(rs)} = Planned(c)
            /\ Len(rs) = Cardinality(Planned(c))
            /\ \A x \in ToSet(rs) : \A n \in PerExecution :
                  LET f == tree[c][[name |-> n, run |-> x.run]] IN
                  f.state # "absent"
                  /\ f.state = "whole" => /\ Len(f.rows) = 1
                                          /\ f.rows[1].run = x.run
                                          /\ f.rows[1].exec <= x.exec

(* The aggregate files of an accepted export were generated from the same  *)
(* rows, and metrics.json agrees with what the campaign reported, however  *)
(* many earlier exports of the campaign died half-way (writer.py 90-94).   *)
AggregatesAgree ==
    \A p \in Invokers : stage[p] = "completeness" /\ pc[p] = "done" =>
        LET c == campaign[p]
            m == BuildCampaignMetrics(Rows(c, "metrics.json"))
        IN  /\ \A n \in RequiredFiles : tree[c][Required(n)] = Whole(rows[p])
            /\ m.completed = tally[p].successful /\ m.failed = tally[p].failed

(* "existing per-execution files are never rewritten with different        *)
(* content for an id already on disk" (writer.py 86-90), through crashes,  *)
(* forced reruns and later exports.                                        *)
ExportedOnce ==
    [][\A c \in Campaigns, f \in [name : PerExecution, run : RunIds] :
          tree[c][f].state = "whole" => tree'[c][f] = tree[c][f]]_allVars

(* A command that reported its campaign and exits with 0 leaves no planned *)
(* run of the campaign without a COMPLETED record (run_level_benchmark.py  *)
(* 450-463).                                                               *)
ExitZeroMeansCompleted ==
    \A p \in Invokers : stage[p] = "idle" /\ pc[p] = "done" /\ exit[p] = "0" =>
        \/ \A r \in Planned(campaign[p]) : raw[r].status = "COMPLETED"
        \/ IsComplete(Foreign)

(* A complete level is exactly that: for every question of the bank the    *)
(* target number of COMPLETED records, of distinct repetitions, and        *)
(* nothing else COMPLETED (completeness.py 67-74, 103-189).                *)
CompleteIsExact ==
    IsComplete(Foreign) =>
        \A q \in Bank :
            LET good == Successful(RecordsOf(q, ListRunIds)) IN
            /\ Cardinality(good) = TargetRepetitions
            /\ \A r, s \in good : RepetitionOf[r] = RepetitionOf[s] => r = s

(* A resumed command whose store has every file of every record reaches    *)
(* the end of its export unless it is killed.                              *)
StorePaired == \A r \in RunIds :
    /\ raw[r].state # "torn" /\ evaluation[r].state # "torn"
    /\ Exists(raw[r]) => trace[r].state = "whole"

ResumeExports ==
    \A p \in Invokers :
        (/\ stage[p] = "campaign" /\ pc[p] = "checking" /\ mode[p].resume
         /\ StorePaired /\ Planned(campaign[p]) \cap Foreign = {})
            ~> \/ stage[p] = "completeness" /\ pc[p] = "done"
                  /\ verdict[campaign[p]] # "none"
               \/ exit[p] = "killed"
-----------------------------------------------------------------------------
(* "never silently reports a partial/corrupted export as complete"         *)
(* (export/validation.py 9-11): an accepted export has the whole of each   *)
(* per-execution file of every run of the plan.                            *)
AcceptedExportIsWhole ==
    \A p \in Invokers : stage[p] = "completeness" /\ pc[p] = "done"
                          /\ verdict[campaign[p]] = "OK" =>
        \A r \in Planned(campaign[p]), n \in PerExecution :
            tree[campaign[p]][[name |-> n, run |-> r]].state = "whole"

(* "a fresh question-bank benchmark campaign starts clean and cannot be    *)
(* contaminated by pre-existing results" (reset_active_results.py 6-9):    *)
(* what a command without --force exports of a run, and validation         *)
(* accepts, comes from the execution it made.                              *)
FreshExportIsCurrent ==
    \A p \in Invokers : stage[p] = "completeness" /\ pc[p] = "done"
                          /\ verdict[campaign[p]] = "OK" =>
        \A x \in ToSet(rows[p]) : \A n \in PerExecution :
            LET f == tree[campaign[p]][[name |-> n, run |-> x.run]] IN
            f.state = "whole" => f.rows[1].exec = x.exec
=============================================================================
