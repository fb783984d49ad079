-------------------------- MODULE QuestionCampaign --------------------------
(***************************************************************************)
(* Invocations of QuestionBenchmarkRunner.run over one level's result      *)
(* tree (src/icab/benchmark/question_runner.py), with run_one of           *)
(* src/icab/benchmark/_execution.py and the store's save().                *)
(*                                                                         *)
(* Each invoker is one operating-system process that may be started again  *)
(* after it has ended or died.  Selection and resolution of questions is   *)
(* deterministic, so a campaign is the sequence of run ids its nested      *)
(* loops (question, scenario, combination, seed, repetition) visit.        *)
(***************************************************************************)
EXTENDS ResultStore, Sequences

CONSTANTS
    Invokers,          \* processes that can run the command
    Campaigns,         \* campaign ids (--name)
    Plan,              \* Plan[c]: run ids in the order the loops visit them
    Matches,           \* Matches[c]: run ids the glob "<c>-*.json" finds
    Foreign,           \* run ids whose task belongs to another ISA-95 level
    Modes,             \* the [force, resume] pairs operators pass
    MaxStarts          \* bound on the number of invocations

Mode == [force : BOOLEAN, resume : BOOLEAN]

ASSUME CampaignAssumption ==
    /\ Campaigns # {}
    /\ Plan \in [Campaigns -> Seq(RunIds)]
    /\ Matches \in [Campaigns -> SUBSET RunIds]
    /\ \A c \in Campaigns : \A i \in 1..Len(Plan[c]) : Plan[c][i] \in Matches[c]
    /\ Foreign \subseteq RunIds
    /\ Modes \subseteq Mode
    /\ MaxStarts \in Nat

VARIABLES
    pc,                \* pc[p]: where invoker p is
    campaign, mode,    \* the configuration it was started with
    next,              \* index in Plan[campaign[p]] of the run it is at
    record,            \* the ExperimentRecord in hand between run_one and save
    tally,             \* its successful / failed counters
    pending, loaded,   \* run ids still to load, and loaded, for the manifest
    executions,        \* executions[r]: calls of run_one made for r so far
    manifest,          \* manifest.json of the level
    reports,           \* the QuestionBenchmarkResults returned
    starts

invokerVars == <<pc, campaign, mode, next, record, tally, pending, loaded>>
vars == <<storeVars, invokerVars, executions, manifest, reports, starts>>

Ended   == {"off", "refused", "aborted", "crashed", "done"}
Saving  == {"open raw", "write raw", "open trace", "write trace",
            "open evaluation", "write evaluation"}
Running == {"checking", "selecting", "executing", "listing", "loading",
            "write manifest"} \cup Saving

NoRecord == [exec |-> 0, status |-> "FAILED"]
NoTally  == [successful |-> 0, failed |-> 0]
Report   == [campaign : Campaigns, successful : Nat, failed : Nat]

(* Variant with a plausible bug: the loops stop one run early.             *)
HasNextButLast(p) == next[p] < Len(Plan[campaign[p]])

(* The run p is at, and whether the loops of p still have one.             *)
HasNext(p) == next[p] <= Len(Plan[campaign[p]])
Current(p) == Plan[campaign[p]][next[p]]

(* Variant with a plausible bug: only an evaluated run counts as done.     *)
SkipsEvaluated(p) == mode[p].resume /\ Exists(evaluation[Current(p)])

(* resume skips a run id whose raw file exists.                            *)
Skips(p) == mode[p].resume /\ Exists(raw[Current(p)])

Goto(p, label) == pc' = [pc EXCEPT ![p] = label]

TypeOK ==
    /\ StoreTypeOK
    /\ pc \in [Invokers -> Ended \cup Running]
    /\ campaign \in [Invokers -> Campaigns]
    /\ mode \in [Invokers -> Mode]
    /\ next \in [Invokers -> Nat \ {0}]
    /\ record \in [Invokers -> Record]
    /\ tally \in [Invokers -> [successful : Nat, failed : Nat]]
    /\ pending \in [Invokers -> SUBSET RunIds]
    /\ loaded \in [Invokers -> SUBSET RunIds]
    /\ executions \in [RunIds -> Nat]
    /\ manifest \in [state : {"absent", "torn", "whole"}, runs : SUBSET RunIds]
    /\ reports \subseteq Report
    /\ starts \in Nat

Init ==
    /\ StoreInit
    /\ pc = [p \in Invokers |-> "off"]
    /\ campaign = [p \in Invokers |-> CHOOSE c \in Campaigns : TRUE]
    /\ mode = [p \in Invokers |-> [force |-> FALSE, resume |-> FALSE]]
    /\ next = [p \in Invokers |-> 1]
    /\ record = [p \in Invokers |-> NoRecord]
    /\ tally = [p \in Invokers |-> NoTally]
    /\ pending = [p \in Invokers |-> {}]
    /\ loaded = [p \in Invokers |-> {}]
    /\ executions = [r \in RunIds |-> 0]
    /\ manifest = [state |-> "absent", runs |-> {}]
    /\ reports = {}
    /\ starts = 0
-----------------------------------------------------------------------------
(* The operator starts the command.  Nothing in the code stops two         *)
(* processes from running one campaign at once; the specification assumes  *)
(* operators do not do that.                                               *)
Start(p, c, m) ==
    /\ pc[p] \in Ended
    /\ starts < MaxStarts
    /\ \A q \in Invokers : pc[q] \in Running => campaign[q] # c
    /\ Goto(p, "checking")
    /\ campaign' = [campaign EXCEPT ![p] = c]
    /\ mode' = [mode EXCEPT ![p] = m]
    /\ next' = [next EXCEPT ![p] = 1]
    /\ record' = [record EXCEPT ![p] = NoRecord]
    /\ tally' = [tally EXCEPT ![p] = NoTally]
    /\ pending' = [pending EXCEPT ![p] = {}]
    /\ loaded' = [loaded EXCEPT ![p] = {}]
    /\ starts' = starts + 1
    /\ UNCHANGED <<storeVars, executions, manifest, reports>>

(* Variant with a plausible bug: no collision check.                       *)
CheckNothing(p) ==
    /\ pc[p] = "checking"
    /\ Goto(p, "selecting")
    /\ UNCHANGED <<storeVars, campaign, mode, next, record, tally, pending,
                   loaded, executions, manifest, reports, starts>>

(* _check_no_existing_campaign                                             *)
CheckNoExistingCampaign(p) ==
    /\ pc[p] = "checking"
    /\ IF \/ mode[p].force \/ mode[p].resume
          \/ Matches[campaign[p]] \cap ListRunIds = {}
       THEN Goto(p, "selecting")
       ELSE Goto(p, "refused")
    /\ UNCHANGED <<storeVars, campaign, mode, next, record, tally, pending,
                   loaded, executions, manifest, reports, starts>>

(* The first IsaLevelMismatchError: raised out of run(), which ends the    *)
(* whole invocation.                                                       *)
RefuseForeignLevel(p) ==
    /\ pc[p] = "selecting" /\ HasNext(p)
    /\ Current(p) \in Foreign
    /\ Goto(p, "aborted")
    /\ UNCHANGED <<storeVars, campaign, mode, next, record, tally, pending,
                   loaded, executions, manifest, reports, starts>>

(* Variant with a plausible bug: every run counts as successful.           *)
CountAsSuccessful(p, status) ==
    /\ tally' = [tally EXCEPT ![p].successful = @ + 1]
    /\ next' = [next EXCEPT ![p] = @ + 1]

Count(p, status) ==
    /\ tally' = [tally EXCEPT ![p] =
         [successful |-> @.successful + (IF status = "COMPLETED" THEN 1 ELSE 0),
          failed |-> @.failed + (IF status = "COMPLETED" THEN 0 ELSE 1)]]
    /\ next' = [next EXCEPT ![p] = @ + 1]

(* A run id whose raw file exists is counted, whatever its status  *)
(* and without regard to its trace and evaluation files.                   *)
SkipRecorded(p) ==
    /\ pc[p] = "selecting" /\ HasNext(p)
    /\ Current(p) \notin Foreign
    /\ Skips(p)
    /\ IF Loadable(Current(p))
       THEN Count(p, raw[Current(p)].status) /\ UNCHANGED pc
       ELSE Goto(p, "aborted") /\ UNCHANGED <<tally, next>>
    /\ UNCHANGED <<storeVars, campaign, mode, record, pending, loaded,
                   executions, manifest, reports, starts>>

(* run_one is called ...                                                   *)
BeginExecution(p) ==
    /\ pc[p] = "selecting" /\ HasNext(p)
    /\ Current(p) \notin Foreign
    /\ ~Skips(p)
    /\ executions' = [executions EXCEPT ![Current(p)] = @ + 1]
    /\ record' = [record EXCEPT ![p] =
                    [NoRecord EXCEPT !.exec = executions[Current(p)] + 1]]
    /\ Goto(p, "executing")
    /\ UNCHANGED <<storeVars, campaign, mode, next, tally, pending, loaded,
                   manifest, reports, starts>>

(* ... and returns: it never raises, every failure is a FAILED record.     *)
EndExecution(p, status) ==
    /\ pc[p] = "executing"
    /\ record' = [record EXCEPT ![p].status = status]
    /\ Goto(p, "open raw")
    /\ UNCHANGED <<storeVars, campaign, mode, next, tally, pending, loaded,
                   executions, manifest, reports, starts>>
-----------------------------------------------------------------------------
(* ExperimentResultStore.save: raw, then trace, then the evaluation if     *)
(* there is one.  The run is counted when save returns.                    *)
SaveStep(p, here, there) ==
    /\ pc[p] = here
    /\ Goto(p, there)
    /\ UNCHANGED <<campaign, mode, record, pending, loaded, executions,
                   manifest, reports, starts>>

OpenRaw(p) == /\ SaveStep(p, "open raw", "write raw")
              /\ TruncateRaw(Current(p))
              /\ UNCHANGED <<next, tally>>

WriteRaw(p) == /\ SaveStep(p, "write raw", "open trace")
               /\ FillRaw(Current(p), record[p])
               /\ UNCHANGED <<next, tally>>

OpenTrace(p) == /\ SaveStep(p, "open trace", "write trace")
                /\ TruncateTrace(Current(p))
                /\ UNCHANGED <<next, tally>>

WriteTrace(p) ==
    \/ /\ HasEvaluation(record[p])
       /\ SaveStep(p, "write trace", "open evaluation")
       /\ FillTrace(Current(p), record[p])
       /\ UNCHANGED <<next, tally>>
    \/ /\ ~HasEvaluation(record[p])
       /\ SaveStep(p, "write trace", "selecting")
       /\ FillTrace(Current(p), record[p])
       /\ Count(p, record[p].status)

OpenEvaluation(p) == /\ SaveStep(p, "open evaluation", "write evaluation")
                     /\ TruncateEvaluation(Current(p))
                     /\ UNCHANGED <<next, tally>>

WriteEvaluation(p) == /\ SaveStep(p, "write evaluation", "selecting")
                      /\ FillEvaluation(Current(p), record[p])
                      /\ Count(p, record[p].status)
-----------------------------------------------------------------------------
ReportOf(p) == [campaign |-> campaign[p], successful |-> tally[p].successful,
                failed |-> tally[p].failed]

(* The loops are over.  With no run id at all there is no manifest;        *)
(* otherwise every record of the level is loaded, not only this            *)
(* campaign's, and any one that does not parse ends the invocation.        *)
FinishLoops(p) ==
    /\ pc[p] = "selecting" /\ ~HasNext(p)
    /\ IF next[p] = 1
       THEN Goto(p, "done") /\ reports' = reports \cup {ReportOf(p)}
       ELSE Goto(p, "listing") /\ UNCHANGED reports
    /\ UNCHANGED <<storeVars, campaign, mode, next, record, tally, pending,
                   loaded, executions, manifest, starts>>

ListRecords(p) ==
    /\ pc[p] = "listing"
    /\ pending' = [pending EXCEPT ![p] = ListRunIds]
    /\ Goto(p, "loading")
    /\ UNCHANGED <<storeVars, campaign, mode, next, record, tally, loaded,
                   executions, manifest, reports, starts>>

LoadNext(p, r) ==
    /\ pc[p] = "loading"
    /\ r \in pending[p] /\ \A s \in pending[p] : r <= s
    /\ IF Loadable(r)
       THEN /\ pending' = [pending EXCEPT ![p] = @ \ {r}]
            /\ loaded' = [loaded EXCEPT ![p] = @ \cup ({r} \ Foreign)]
            /\ UNCHANGED pc
       ELSE Goto(p, "aborted") /\ UNCHANGED <<pending, loaded>>
    /\ UNCHANGED <<storeVars, campaign, mode, next, record, tally, executions,
                   manifest, reports, starts>>

OpenManifest(p) ==
    /\ pc[p] = "loading" /\ pending[p] = {}
    /\ manifest' = [state |-> "torn", runs |-> {}]
    /\ Goto(p, "write manifest")
    /\ UNCHANGED <<storeVars, campaign, mode, next, record, tally, pending,
                   loaded, executions, reports, starts>>

WriteManifest(p) ==
    /\ pc[p] = "write manifest"
    /\ manifest' = [state |-> "whole", runs |-> loaded[p]]
    /\ reports' = reports \cup {ReportOf(p)}
    /\ Goto(p, "done")
    /\ UNCHANGED <<storeVars, campaign, mode, next, record, tally, pending,
                   loaded, executions, starts>>

(* The process dies, or a write raises (run() catches nothing): files stay *)
(* as they are.                                                            *)
Crash(p) ==
    /\ pc[p] \in Running
    /\ Goto(p, "crashed")
    /\ UNCHANGED <<storeVars, campaign, mode, next, record, tally, pending,
                   loaded, executions, manifest, reports, starts>>

Save(p) == \/ OpenRaw(p) \/ WriteRaw(p) \/ OpenTrace(p) \/ WriteTrace(p)
           \/ OpenEvaluation(p) \/ WriteEvaluation(p)

(* A step the running process takes by itself.                             *)
Step(p) ==
    \/ CheckNoExistingCampaign(p) \/ RefuseForeignLevel(p) \/ SkipRecorded(p)
    \/ BeginExecution(p) \/ (\E s \in Status : EndExecution(p, s))
    \/ Save(p)
    \/ FinishLoops(p) \/ ListRecords(p) \/ (\E r \in RunIds : LoadNext(p, r))
    \/ OpenManifest(p) \/ WriteManifest(p)

Next == \E p \in Invokers :
            \/ \E c \in Campaigns, m \in Modes : Start(p, c, m)
            \/ Step(p)
            \/ Crash(p)

Spec == Init /\ [][Next]_vars

-----------------------------------------------------------------------------
(* No two positions of the campaigns name one run id.  It holds when every *)
(* question, scenario and combination resolves to its own architecture     *)
(* arm; two overshooting combinations of one question may share an arm.    *)
DistinctPlans ==
    \A c, d \in Campaigns : \A i \in 1..Len(Plan[c]), j \in 1..Len(Plan[d]) :
        Plan[c][i] = Plan[d][j] => c = d /\ i = j

Recorded(r) == raw[r].state = "whole"

Planned(c) == {Plan[c][i] : i \in 1..Len(Plan[c])}

(* A persisted record is replaced only by an invocation that was given     *)
(* --force: the collision check, the resume skip and the order of the      *)
(* plan together protect it (question_runner.py 490-521, 541-551).         *)
OverwrittenOnlyByForce ==
    [][\A r \in RunIds : Recorded(r) /\ raw'[r] # raw[r] =>
          \E p \in Invokers : /\ pc[p] = "open raw" /\ Current(p) = r
                              /\ mode[p].force]_vars

(* What an invocation returns is true of the store at that moment: every   *)
(* planned run has a record and the counters are the counts of their       *)
(* statuses, whatever mixture of skipped and executed runs led there       *)
(* (the resume comment, question_runner.py 97-109).                        *)
ReportsMatchStore ==
    [][\A p \in Invokers : pc[p] # "done" /\ pc'[p] = "done" =>
          LET done == Planned(campaign[p])
              good == {r \in done : raw[r].status = "COMPLETED"}
          IN  /\ \A r \in done : Recorded(r)
              /\ tally[p].successful = Cardinality(good)
              /\ tally[p].failed = Cardinality(done \ good)]_vars

(* With one process, the manifest a finished invocation leaves names every *)
(* record of the level, those of other campaigns and earlier crashed       *)
(* invocations included (manifest.py 59-60, question_runner.py 287-296).   *)
ManifestCoversLevel ==
    \A p \in Invokers : pc[p] = "done" /\ next[p] > 1 =>
        manifest = [state |-> "whole", runs |-> {r \in RunIds : Recorded(r)} \ Foreign]

(* Whatever other processes write to the level meanwhile, a complete       *)
(* manifest names only runs whose record is persisted and parses           *)
(* (manifest.py 60).  Without --force.                                     *)
ManifestNamesOnlyRecords ==
    manifest.state = "whole" => \A r \in manifest.runs : Recorded(r)

(* Without --force, a trace or an evaluation that can be read next to a    *)
(* record was produced by the same execution as the record, wherever       *)
(* earlier invocations died (storage.py 96-112).                           *)
ArtefactsPaired ==
    \A r \in RunIds : Recorded(r) =>
        /\ trace[r].state = "whole" => trace[r].exec = raw[r].exec
        /\ evaluation[r].state = "whole" => evaluation[r].exec = raw[r].exec

(* Without --force the campaign implements the ledger: a run id is         *)
(* recorded once and for good, and only full campaigns are reported.       *)
Ledger == INSTANCE CampaignLedger WITH
    ledger <- [r \in RunIds |-> IF Recorded(r) THEN raw[r].status ELSE "none"]

ImplementsLedger == Ledger!Spec
-----------------------------------------------------------------------------
(* Statements of the documentation that the code does not meet.            *)

(* "results/evaluations/ one EvaluationReport JSON per completed run"      *)
(* (README.md 155), once the campaign has been reported.                   *)
CompletedRunsAreEvaluated ==
    \A p \in Invokers : pc[p] = "done" =>
        \A r \in Planned(campaign[p]) :
            raw[r].status = "COMPLETED" => evaluation[r].state = "whole"
=============================================================================
