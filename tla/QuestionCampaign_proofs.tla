------------------------ MODULE QuestionCampaign_proofs ------------------------
(***************************************************************************)
(* Theorems about QuestionCampaign, for every set of invokers, campaigns   *)
(* and run ids, every plan and any number of invocations and crashes.      *)
(***************************************************************************)
EXTENDS QuestionCampaign, TLAPS

(* Facts about plans and labels used by every step below.                  *)
LEMMA CurrentInRunIds ==
    ASSUME TypeOK, NEW p \in Invokers, HasNext(p)
    PROVE  Current(p) \in RunIds
<1>1. campaign[p] \in Campaigns /\ next[p] \in Nat \ {0}
  BY DEF TypeOK
<1>2. Plan[campaign[p]] \in Seq(RunIds)
  BY <1>1, CampaignAssumption
<1> QED  BY <1>1, <1>2 DEF HasNext, Current

(* The files and the ghost records of the store have their types.          *)
LEMMA FileTypes ==
    /\ TornFile \in File
    /\ NoFile \in File
    /\ NoRecord \in Record
    /\ \A rec \in Record : FileOf(rec) \in File
BY DEF TornFile, NoFile, NoRecord, File, FileOf, Record, Status

(* A process that is executing or saving a run is inside its plan.         *)
InPlan == \A p \in Invokers :
    pc[p] \in {"executing"} \cup Saving => HasNext(p)

TypeInv == TypeOK /\ InPlan

(* Nothing has run: every variable has its initial, typed value.           *)
LEMMA InitTypeInv == Init => TypeInv
<1> SUFFICES ASSUME Init PROVE TypeInv
  OBVIOUS
<1>1. StoreTypeOK
  BY FileTypes DEF Init, StoreInit, StoreTypeOK
<1>2. campaign \in [Invokers -> Campaigns]
  BY CampaignAssumption DEF Init
<1>3. record \in [Invokers -> Record]
  BY FileTypes DEF Init
<1>4. pc \in [Invokers -> Ended \cup Running]
  BY DEF Init, Ended
<1>5. InPlan
  BY DEF Init, InPlan, Saving
<1>6. mode \in [Invokers -> Mode]
  BY DEF Init, Mode
<1>7. tally \in [Invokers -> [successful : Nat, failed : Nat]]
  BY DEF Init, NoTally
<1> QED  BY <1>1, <1>2, <1>3, <1>4, <1>5, <1>6, <1>7 DEF Init, TypeOK, TypeInv, Report

(* Counting a run keeps the counters and the loop index typed.             *)
LEMMA CountTypes ==
    ASSUME TypeOK, NEW p \in Invokers, NEW status, Count(p, status)
    PROVE  /\ tally' \in [Invokers -> [successful : Nat, failed : Nat]]
           /\ next' \in [Invokers -> Nat \ {0}]
           /\ \A q \in Invokers : q # p => next'[q] = next[q]
<1>1. tally[p].successful \in Nat /\ tally[p].failed \in Nat
  BY DEF TypeOK
<1> DEFINE new == [successful |-> tally[p].successful + (IF status = "COMPLETED" THEN 1 ELSE 0),
                   failed |-> tally[p].failed + (IF status = "COMPLETED" THEN 0 ELSE 1)]
<1>2. new \in [successful : Nat, failed : Nat]
  BY <1>1
<1>3. tally' = [tally EXCEPT ![p] = new]
  BY DEF Count
<1> HIDE DEF new
<1>4. tally' \in [Invokers -> [successful : Nat, failed : Nat]]
  BY <1>2, <1>3 DEF TypeOK
<1> QED  BY <1>4 DEF Count, TypeOK

(* Type correctness of a step: one step per action.                        *)
LEMMA NextTypeInv == TypeInv /\ [Next]_vars => TypeInv'
<1> SUFFICES ASSUME TypeInv, [Next]_vars PROVE TypeInv'
  OBVIOUS
<1> USE DEF TypeInv
<1>1. ASSUME NEW p \in Invokers, NEW c \in Campaigns, NEW m \in Modes, Start(p, c, m)
      PROVE  TypeInv'
  <2>1. m \in Mode
    BY CampaignAssumption
  <2>2. /\ campaign' \in [Invokers -> Campaigns]
        /\ mode' \in [Invokers -> Mode]
        /\ next' \in [Invokers -> Nat \ {0}]
        /\ starts' \in Nat
    BY <1>1, <2>1 DEF Start, TypeOK
  <2>5. pc' \in [Invokers -> Ended \cup Running]
    BY <1>1 DEF Start, Goto, TypeOK, Running
  <2>3. /\ record' \in [Invokers -> Record]
        /\ tally' \in [Invokers -> [successful : Nat, failed : Nat]]
        /\ pending' \in [Invokers -> SUBSET RunIds]
        /\ loaded' \in [Invokers -> SUBSET RunIds]
    BY <1>1, FileTypes DEF Start, TypeOK, NoTally
  <2>4. InPlan'
    BY <1>1 DEF Start, Goto, TypeOK, InPlan, Saving, HasNext
  <2> QED  BY <1>1, <2>2, <2>3, <2>4, <2>5 DEF Start, TypeOK, StoreTypeOK, storeVars
<1>2. ASSUME NEW p \in Invokers, CheckNoExistingCampaign(p) PROVE TypeInv'
  BY <1>2 DEF CheckNoExistingCampaign, Goto, TypeOK, StoreTypeOK, InPlan,
            storeVars, Running, Ended, Saving, HasNext
<1>3. ASSUME NEW p \in Invokers, RefuseForeignLevel(p) PROVE TypeInv'
  BY <1>3 DEF RefuseForeignLevel, Goto, TypeOK, StoreTypeOK, InPlan,
            storeVars, Running, Ended, Saving, HasNext
<1>4. ASSUME NEW p \in Invokers, SkipRecorded(p) PROVE TypeInv'
  <2>1. /\ tally' \in [Invokers -> [successful : Nat, failed : Nat]]
        /\ next' \in [Invokers -> Nat \ {0}]
        /\ \A q \in Invokers : q # p => next'[q] = next[q]
    BY <1>4, CountTypes DEF SkipRecorded, Skips, TypeOK
  <2>2. pc' \in [Invokers -> Ended \cup Running]
    BY <1>4 DEF SkipRecorded, Skips, Goto, TypeOK, Ended
  <2>3. InPlan'
    BY <1>4, <2>1 DEF SkipRecorded, Skips, Goto, TypeOK, InPlan, Saving, HasNext
  <2> QED  BY <1>4, <2>1, <2>2, <2>3 DEF SkipRecorded, Skips, TypeOK, StoreTypeOK, storeVars
<1>5. ASSUME NEW p \in Invokers, BeginExecution(p) PROVE TypeInv'
  <2>1. Current(p) \in RunIds
    BY <1>5, CurrentInRunIds DEF BeginExecution
  <2>2. executions' \in [RunIds -> Nat] /\ record' \in [Invokers -> Record]
    BY <1>5, <2>1 DEF BeginExecution, TypeOK, Record, NoRecord, Status
  <2>3. InPlan'
    BY <1>5 DEF BeginExecution, Goto, TypeOK, InPlan, Saving, HasNext
  <2> QED  BY <1>5, <2>2, <2>3 DEF BeginExecution, Goto, TypeOK, StoreTypeOK,
            storeVars, Running
<1>6. ASSUME NEW p \in Invokers, NEW s \in Status, EndExecution(p, s) PROVE TypeInv'
  <2>1. record' \in [Invokers -> Record]
    BY <1>6 DEF EndExecution, TypeOK, Record
  <2> QED  BY <1>6, <2>1 DEF EndExecution, Goto, TypeOK, StoreTypeOK, InPlan,
            storeVars, Running, Saving, HasNext
<1>7. ASSUME NEW p \in Invokers, Save(p) PROVE TypeInv'
  <2>1. HasNext(p)
    BY <1>7 DEF Save, OpenRaw, WriteRaw, OpenTrace, WriteTrace, OpenEvaluation,
            WriteEvaluation, SaveStep, InPlan, Saving
  <2>2. Current(p) \in RunIds /\ record[p] \in Record
    BY <2>1, CurrentInRunIds DEF TypeOK
  <2>3. StoreTypeOK'
    <3>1. FileOf(record[p]) \in File /\ TornFile \in File
      BY <2>2, FileTypes
    <3>2. CASE OpenRaw(p)
      BY <3>1, <3>2 DEF OpenRaw, TruncateRaw, TypeOK, StoreTypeOK
    <3>3. CASE WriteRaw(p)
      BY <3>1, <3>3 DEF WriteRaw, FillRaw, TypeOK, StoreTypeOK
    <3>4. CASE OpenTrace(p)
      BY <3>1, <3>4 DEF OpenTrace, TruncateTrace, TypeOK, StoreTypeOK
    <3>5. CASE WriteTrace(p)
      BY <3>1, <3>5 DEF WriteTrace, FillTrace, TypeOK, StoreTypeOK
    <3>6. CASE OpenEvaluation(p)
      BY <3>1, <3>6 DEF OpenEvaluation, TruncateEvaluation, TypeOK, StoreTypeOK
    <3>7. CASE WriteEvaluation(p)
      BY <3>1, <3>7 DEF WriteEvaluation, FillEvaluation, TypeOK, StoreTypeOK
    <3> QED  BY <1>7, <3>2, <3>3, <3>4, <3>5, <3>6, <3>7 DEF Save
  <2>4. /\ pc' \in [Invokers -> Ended \cup Running]
        /\ \A q \in Invokers : q # p => pc'[q] = pc[q]
    BY <1>7 DEF Save, OpenRaw, WriteRaw, OpenTrace, WriteTrace, OpenEvaluation,
            WriteEvaluation, SaveStep, Goto, TypeOK, Running, Saving
  <2>5. \/ UNCHANGED <<next, tally>>
        \/ pc'[p] = "selecting" /\ Count(p, record[p].status)
    BY <1>7 DEF Save, OpenRaw, WriteRaw, OpenTrace, WriteTrace, OpenEvaluation,
            WriteEvaluation, SaveStep, Goto, TypeOK
  <2>8. /\ tally' \in [Invokers -> [successful : Nat, failed : Nat]]
        /\ next' \in [Invokers -> Nat \ {0}]
        /\ pc'[p] = "selecting" \/ next'[p] = next[p]
        /\ \A q \in Invokers : q # p => next'[q] = next[q]
    <3>1. CASE UNCHANGED <<next, tally>>
      BY <3>1 DEF TypeOK
    <3>2. CASE pc'[p] = "selecting" /\ Count(p, record[p].status)
      BY <3>2, CountTypes
    <3> QED  BY <2>5, <3>1, <3>2
  <2>6. UNCHANGED <<campaign, mode, record, pending, loaded, executions,
                    manifest, reports, starts>>
    BY <1>7 DEF Save, OpenRaw, WriteRaw, OpenTrace, WriteTrace, OpenEvaluation,
            WriteEvaluation, SaveStep
  <2>7. InPlan'
    BY <2>1, <2>4, <2>6, <2>8 DEF InPlan, HasNext, Saving
  <2> QED  BY <2>3, <2>4, <2>6, <2>7, <2>8 DEF TypeOK
<1>8. ASSUME NEW p \in Invokers, FinishLoops(p) PROVE TypeInv'
  <2>1. ReportOf(p) \in Report
    BY DEF ReportOf, Report, TypeOK
  <2> QED  BY <1>8, <2>1 DEF FinishLoops, Goto, TypeOK, StoreTypeOK, InPlan,
            storeVars, Running, Ended, Saving, HasNext
<1>9. ASSUME NEW p \in Invokers, ListRecords(p) PROVE TypeInv'
  BY <1>9 DEF ListRecords, ListRunIds, Goto, TypeOK, StoreTypeOK, InPlan,
            storeVars, Running, Saving, HasNext
<1>10. ASSUME NEW p \in Invokers, NEW r \in RunIds, LoadNext(p, r) PROVE TypeInv'
  <2>1. pc' \in [Invokers -> Ended \cup Running]
    BY <1>10 DEF LoadNext, Goto, TypeOK, Ended
  <2>3. pending' \in [Invokers -> SUBSET RunIds]
    BY <1>10 DEF LoadNext, TypeOK
  <2>4. loaded' \in [Invokers -> SUBSET RunIds]
    BY <1>10 DEF LoadNext, TypeOK
  <2>2. InPlan'
    BY <1>10 DEF LoadNext, Goto, TypeOK, InPlan, Saving, HasNext
  <2> QED  BY <1>10, <2>1, <2>2, <2>3, <2>4 DEF LoadNext, TypeOK, StoreTypeOK, storeVars
<1>11. ASSUME NEW p \in Invokers, OpenManifest(p) PROVE TypeInv'
  BY <1>11 DEF OpenManifest, Goto, TypeOK, StoreTypeOK, InPlan, storeVars,
            Running, Saving, HasNext
<1>12. ASSUME NEW p \in Invokers, WriteManifest(p) PROVE TypeInv'
  <2>1. ReportOf(p) \in Report
    BY DEF ReportOf, Report, TypeOK
  <2> QED  BY <1>12, <2>1 DEF WriteManifest, Goto, TypeOK, StoreTypeOK, InPlan,
            storeVars, Ended, Saving, HasNext
<1>13. ASSUME NEW p \in Invokers, Crash(p) PROVE TypeInv'
  BY <1>13 DEF Crash, Goto, TypeOK, StoreTypeOK, InPlan, storeVars, Ended,
            Saving, HasNext
<1>14. CASE UNCHANGED vars
  BY <1>14 DEF vars, storeVars, invokerVars, TypeOK, StoreTypeOK, InPlan, HasNext
<1> QED  BY <1>1, <1>2, <1>3, <1>4, <1>5, <1>6, <1>7, <1>8, <1>9, <1>10, <1>11,
            <1>12, <1>13, <1>14 DEF Next, Step

(* Every variable keeps its type whatever is started, killed or resumed.   *)
THEOREM TypeCorrect == Spec => []TypeOK
<1>1. Spec => []TypeInv
  BY InitTypeInv, NextTypeInv, PTL DEF Spec
<1> QED  BY <1>1, PTL DEF TypeInv
-----------------------------------------------------------------------------
(***************************************************************************)
(* Without --force a persisted record stays as it is, for plans that name  *)
(* every run once.  The invariant says why: processes that run have        *)
(* different campaigns, a fresh process finds the rest of its plan         *)
(* unwritten, and between the decision to execute a run and the moment its *)
(* raw file is opened nobody has written that file.                        *)
(***************************************************************************)
Exclusive == \A p, q \in Invokers :
    pc[p] \in Running /\ pc[q] \in Running /\ campaign[p] = campaign[q] => p = q

(* The positions of its plan a fresh process has not written yet.          *)
Ahead(p, i) ==
    /\ i \in 1..Len(Plan[campaign[p]])
    /\ i > next[p] \/ (i = next[p] /\ pc[p] \in {"selecting", "executing", "open raw"})

FreshAhead == \A p \in Invokers :
    (pc[p] \in {"selecting", "executing"} \cup Saving /\ ~mode[p].force /\ ~mode[p].resume)
        => \A i \in Nat : Ahead(p, i) => ~Exists(raw[Plan[campaign[p]][i]])

Unwritten == \A p \in Invokers :
    pc[p] \in {"executing", "open raw"} /\ ~mode[p].force => ~Exists(raw[Current(p)])

TornMeanwhile == \A p \in Invokers :
    pc[p] = "write raw" => raw[Current(p)].state = "torn"

ProtectInv == TypeInv /\ Exclusive /\ FreshAhead /\ Unwritten /\ TornMeanwhile

(* A run id belongs to one process and one position of its plan.           *)
LEMMA OwnRun ==
    ASSUME DistinctPlans, TypeInv, Exclusive,
           NEW p \in Invokers, NEW q \in Invokers, NEW i \in 1..Len(Plan[campaign[p]]),
           pc[p] \in Running, pc[q] \in Running, HasNext(q),
           Plan[campaign[p]][i] = Current(q)
    PROVE  p = q /\ i = next[p]
<1>1. campaign[p] \in Campaigns /\ campaign[q] \in Campaigns /\ next[q] \in Nat \ {0}
  BY DEF TypeInv, TypeOK
<1>2. Plan[campaign[q]] \in Seq(RunIds)
  BY <1>1, CampaignAssumption
<1>3. next[q] \in 1..Len(Plan[campaign[q]])
  BY <1>1, <1>2 DEF HasNext
<1>4. campaign[p] = campaign[q] /\ i = next[q]
  BY <1>1, <1>3 DEF DistinctPlans, Current
<1> QED  BY <1>4 DEF Exclusive

(* The raw file of a run changes only under the process that saves it.     *)
LEMMA RawChanges ==
    ASSUME [Next]_vars
    PROVE  raw' = raw \/ \E p \in Invokers : OpenRaw(p) \/ WriteRaw(p)
BY DEF Next, Step, Save, Start, CheckNoExistingCampaign, RefuseForeignLevel,
       SkipRecorded, BeginExecution, EndExecution, OpenTrace, WriteTrace,
       OpenEvaluation, WriteEvaluation, TruncateTrace, FillTrace,
       TruncateEvaluation, FillEvaluation, FinishLoops, ListRecords, LoadNext,
       OpenManifest, WriteManifest, Crash, vars, storeVars

(* A move of one process leaves the place and the configuration of every   *)
(* other one, and only Start changes its own configuration.                *)
LEMMA OthersKept ==
    ASSUME TypeInv, NEW p \in Invokers,
           Step(p) \/ Crash(p) \/ \E c \in Campaigns, m \in Modes : Start(p, c, m)
    PROVE  /\ \A q \in Invokers \ {p} :
                /\ pc'[q] = pc[q] /\ campaign'[q] = campaign[q]
                /\ mode'[q] = mode[q] /\ next'[q] = next[q]
           /\ \/ \E c \in Campaigns, m \in Modes : Start(p, c, m)
              \/ UNCHANGED <<campaign, mode>> /\ pc[p] \in Running
<1> USE DEF TypeInv, TypeOK
<1>1. ASSUME NEW c \in Campaigns, NEW m \in Modes, Start(p, c, m)
      PROVE  \A q \in Invokers \ {p} :
                /\ pc'[q] = pc[q] /\ campaign'[q] = campaign[q]
                /\ mode'[q] = mode[q] /\ next'[q] = next[q]
  BY <1>1 DEF Start, Goto
<1>2. CASE \/ Crash(p) \/ CheckNoExistingCampaign(p) \/ RefuseForeignLevel(p)
           \/ FinishLoops(p) \/ ListRecords(p) \/ OpenManifest(p)
           \/ WriteManifest(p) \/ BeginExecution(p)
  BY <1>2 DEF Crash, CheckNoExistingCampaign, RefuseForeignLevel, FinishLoops,
       ListRecords, OpenManifest, WriteManifest, BeginExecution, Goto, Running
<1>3. CASE \E s \in Status : EndExecution(p, s)
  BY <1>3 DEF EndExecution, Goto, Running
<1>4. CASE \E r \in RunIds : LoadNext(p, r)
  BY <1>4 DEF LoadNext, Goto, Running
<1>5. CASE Save(p) \/ SkipRecorded(p)
  BY <1>5 DEF Save, OpenRaw, WriteRaw, OpenTrace, WriteTrace, OpenEvaluation,
       WriteEvaluation, SaveStep, SkipRecorded, Count, Goto, Running, Saving
<1> QED  BY <1>1, <1>2, <1>3, <1>4, <1>5 DEF Step

(* No two processes run one campaign: Start refuses it and no other step   *)
(* changes what a running process works on.                                *)
LEMMA NextExclusive == TypeInv /\ Exclusive /\ [Next]_vars => Exclusive'
<1> SUFFICES ASSUME TypeInv, Exclusive, [Next]_vars PROVE Exclusive'
  OBVIOUS
<1>1. CASE UNCHANGED vars
  BY <1>1 DEF Exclusive, vars, invokerVars
<1>2. ASSUME NEW p \in Invokers,
             Step(p) \/ Crash(p) \/ \E c \in Campaigns, m \in Modes : Start(p, c, m)
      PROVE  Exclusive'
  <2>1. \A q \in Invokers \ {p} : pc'[q] = pc[q] /\ campaign'[q] = campaign[q]
    BY <1>2, OthersKept
  <2>2. ASSUME NEW c \in Campaigns, NEW m \in Modes, Start(p, c, m)
        PROVE  Exclusive'
    BY <2>1, <2>2 DEF Start, Exclusive, TypeInv, TypeOK
  <2>3. CASE UNCHANGED campaign /\ pc[p] \in Running
    BY <2>1, <2>3 DEF Exclusive
  <2> QED  BY <1>2, <2>2, <2>3, OthersKept
<1> QED  BY <1>1, <1>2 DEF Next

(* The labels of a process that works on its plan.                         *)
Active == {"selecting", "executing"} \cup Saving

(* What is ahead of a process only shrinks while it works on its plan.     *)
LEMMA AheadShrinks ==
    ASSUME TypeInv, NEW p \in Invokers, Step(p), ~CheckNoExistingCampaign(p),
           pc'[p] \in Active
    PROVE  /\ pc[p] \in Active
           /\ UNCHANGED <<campaign, mode>>
           /\ \A i \in Nat : Ahead(p, i)' => Ahead(p, i)
<1> USE DEF Ahead, Active, TypeInv, TypeOK
<1>1. CASE RefuseForeignLevel(p) \/ FinishLoops(p) \/ ListRecords(p) \/ OpenManifest(p)
           \/ WriteManifest(p)
  BY <1>1 DEF RefuseForeignLevel, FinishLoops, ListRecords, OpenManifest,
        WriteManifest, Goto, Saving
<1>2. CASE SkipRecorded(p)
  <2>1. /\ pc[p] = "selecting"
        /\ (pc' = pc /\ next' = [next EXCEPT ![p] = @ + 1]) \/ pc'[p] = "aborted"
        /\ UNCHANGED <<campaign, mode>>
    BY <1>2 DEF SkipRecorded, Skips, Count, Goto
  <2>2. pc'[p] = "selecting" /\ next'[p] = next[p] + 1
    BY <2>1 DEF Saving
  <2> QED  BY <2>1, <2>2
<1>3. CASE BeginExecution(p)
  BY <1>3 DEF BeginExecution, Goto
<1>4. CASE \E s \in Status : EndExecution(p, s)
  BY <1>4 DEF EndExecution, Goto, Saving
<1>5. CASE OpenRaw(p) \/ WriteRaw(p) \/ OpenTrace(p) \/ OpenEvaluation(p)
  BY <1>5 DEF OpenRaw, WriteRaw, OpenTrace, OpenEvaluation, SaveStep, Goto, Saving
<1>6. CASE WriteTrace(p) \/ WriteEvaluation(p)
  <2>1. /\ pc[p] \in {"write trace", "write evaluation"}
        /\ UNCHANGED <<campaign, mode>>
        /\ \/ (pc'[p] = "selecting" /\ next' = [next EXCEPT ![p] = @ + 1])
           \/ (pc'[p] = "open evaluation" /\ next' = next)
    BY <1>6 DEF WriteTrace, WriteEvaluation, SaveStep, Count, Goto
  <2>2. CASE pc'[p] = "selecting" /\ next' = [next EXCEPT ![p] = @ + 1]
    <3>1. next'[p] = next[p] + 1 /\ next[p] \in Nat
      BY <2>2
    <3>2. ASSUME NEW i \in Nat, Ahead(p, i)' PROVE Ahead(p, i)
      <4>1. i \in 1..Len(Plan[campaign[p]])
        BY <2>1, <3>2
      <4>2. i > next[p]
        <5>1. i > next'[p] \/ i = next'[p]
          BY <3>2
        <5>2. next'[p] = next[p] + 1 /\ next[p] \in Nat /\ i \in Nat
          BY <3>1, <3>2
        <5> HIDE DEF TypeInv, TypeOK, Ahead
        <5> QED  BY <5>1, <5>2
      <4> QED  BY <4>1, <4>2
    <3> QED  BY <2>1, <3>2 DEF Saving
  <2>3. CASE pc'[p] = "open evaluation" /\ next' = next
    BY <2>1, <2>3 DEF Saving
  <2> QED  BY <2>1, <2>2, <2>3
<1>7. CASE \E r \in RunIds : LoadNext(p, r)
  BY <1>7 DEF LoadNext, Goto, Saving
<1> QED  BY <1>1, <1>2, <1>3, <1>4, <1>5, <1>6, <1>7 DEF Step, Save

(* A process that moves leaves the raw file of every other process's run,  *)
(* and of the rest of its own plan, alone.                                 *)
LEMMA RawKept ==
    ASSUME DistinctPlans, ProtectInv, [Next]_vars,
           NEW q \in Invokers, pc[q] \in Running, NEW i \in 1..Len(Plan[campaign[q]]),
           i # next[q] \/ (~OpenRaw(q) /\ ~WriteRaw(q))
    PROVE  raw'[Plan[campaign[q]][i]] = raw[Plan[campaign[q]][i]]
<1>1. CASE raw' = raw
  BY <1>1
<1>2. ASSUME NEW p \in Invokers, OpenRaw(p) \/ WriteRaw(p)
      PROVE  raw'[Plan[campaign[q]][i]] = raw[Plan[campaign[q]][i]]
  <2>1. pc[p] \in Saving /\ pc[p] \in Running
    BY <1>2 DEF OpenRaw, WriteRaw, SaveStep, Saving, Running
  <2>2. HasNext(p)
    BY <2>1 DEF ProtectInv, TypeInv, InPlan
  <2>3. Plan[campaign[q]][i] # Current(p)
    <3>1. CASE Plan[campaign[q]][i] = Current(p)
      <4>1. q = p /\ i = next[q]
        BY <2>1, <2>2, <3>1, OwnRun DEF ProtectInv
      <4> QED  BY <1>2, <4>1
    <3> QED  BY <3>1
  <2>4. \E f : raw' = [raw EXCEPT ![Current(p)] = f]
    BY <1>2 DEF OpenRaw, WriteRaw, TruncateRaw, FillRaw
  <2>5. raw \in [RunIds -> File] /\ Plan[campaign[q]] \in Seq(RunIds)
    BY CampaignAssumption DEF ProtectInv, TypeInv, TypeOK, StoreTypeOK
  <2>6. Plan[campaign[q]][i] \in RunIds
    BY <2>5
  <2> QED  BY <2>3, <2>4, <2>5, <2>6
<1> QED  BY <1>1, <1>2, RawChanges

(* What a process without --force and without --resume has still to do is  *)
(* unrecorded, whatever the other processes write.                         *)
LEMMA NextFreshAhead == DistinctPlans /\ ProtectInv /\ [Next]_vars => FreshAhead'
<1> SUFFICES ASSUME DistinctPlans, ProtectInv, [Next]_vars, NEW q \in Invokers,
                    pc'[q] \in Active, ~mode'[q].force, ~mode'[q].resume,
                    NEW i \in Nat, Ahead(q, i)'
             PROVE  ~Exists(raw'[Plan[campaign'[q]][i]])
  BY DEF FreshAhead, Active, Exists
<1>0. TypeOK
  BY DEF ProtectInv, TypeInv
(* If q was already working on its plan then nothing was there ...         *)
<1>1. ASSUME pc[q] \in Active, UNCHANGED <<campaign, mode>>, Ahead(q, i)
      PROVE  ~Exists(raw'[Plan[campaign'[q]][i]])
  <2>1. ~Exists(raw[Plan[campaign[q]][i]])
    BY <1>1 DEF ProtectInv, FreshAhead, Active
  <2>2. pc[q] \in Running /\ i \in 1..Len(Plan[campaign[q]])
    BY <1>1 DEF Active, Running, Ahead
  <2>3. i # next[q] \/ (~OpenRaw(q) /\ ~WriteRaw(q))
    <3>1. ASSUME OpenRaw(q) \/ WriteRaw(q) PROVE i # next[q]
      <4>1. pc'[q] \in {"write raw", "open trace"} /\ next'[q] = next[q]
        BY <1>0, <3>1 DEF OpenRaw, WriteRaw, SaveStep, Goto, TypeOK
      <4>2. next[q] \in Nat
        BY <1>0 DEF TypeOK
      <4>3. i > next[q]
        BY <4>1, <4>2 DEF Ahead
      <4> QED  BY <4>2, <4>3
    <3> QED  BY <3>1
  <2> QED  BY <1>1, <2>1, <2>2, <2>3, RawKept DEF Exists
(* ... and it starts to work only after the collision check.               *)
<1>2. CASE CheckNoExistingCampaign(q)
  <2>1. /\ Matches[campaign[q]] \cap ListRunIds = {}
        /\ UNCHANGED <<campaign, raw>>
    BY <1>0, <1>2 DEF CheckNoExistingCampaign, Goto, TypeOK, Active, Saving, storeVars
  <2>2. i \in 1..Len(Plan[campaign[q]]) /\ campaign[q] \in Campaigns
    BY <1>0, <2>1 DEF Ahead, TypeOK
  <2>3. Plan[campaign[q]][i] \in Matches[campaign[q]] /\ Plan[campaign[q]][i] \in RunIds
    BY <2>2, CampaignAssumption
  <2> QED  BY <2>1, <2>3 DEF ListRunIds
<1>3. CASE UNCHANGED <<pc, campaign, mode, next>>
  BY <1>1, <1>3 DEF Ahead
<1>4. ASSUME NEW p \in Invokers, p # q,
             \A r \in Invokers \ {p} : /\ pc'[r] = pc[r] /\ campaign'[r] = campaign[r]
                                       /\ mode'[r] = mode[r] /\ next'[r] = next[r],
             Step(p) \/ Crash(p) \/ \E c \in Campaigns, m \in Modes : Start(p, c, m)
      PROVE  ~Exists(raw'[Plan[campaign'[q]][i]])
  <2>1. pc[q] \in Active /\ Ahead(q, i) /\ campaign'[q] = campaign[q]
        /\ ~mode[q].force /\ ~mode[q].resume
    BY <1>4 DEF Ahead
  <2>2. ~Exists(raw[Plan[campaign[q]][i]])
    BY <2>1 DEF ProtectInv, FreshAhead, Active
  <2>3. pc[q] \in Running /\ i \in 1..Len(Plan[campaign[q]])
    BY <2>1 DEF Active, Running, Ahead
  <2>4. ~OpenRaw(q) /\ ~WriteRaw(q)
    BY <1>0, <1>4, <2>1 DEF OpenRaw, WriteRaw, SaveStep, Goto, TypeOK
  <2> QED  BY <2>1, <2>2, <2>3, <2>4, RawKept DEF Exists
<1>5. CASE Step(q) /\ ~CheckNoExistingCampaign(q)
  <2>1. pc[q] \in Active /\ UNCHANGED <<campaign, mode>> /\ Ahead(q, i)
    BY <1>5, AheadShrinks DEF ProtectInv
  <2> QED  BY <1>1, <2>1
<1>6. ASSUME Crash(q) \/ \E c \in Campaigns, m \in Modes : Start(q, c, m)
      PROVE  FALSE
  BY <1>0, <1>6 DEF Crash, Start, Goto, TypeOK, Active, Saving
<1>7. CASE UNCHANGED vars
  BY <1>3, <1>7 DEF vars, invokerVars
<1>8. ASSUME NEW p \in Invokers,
             Step(p) \/ Crash(p) \/ \E c \in Campaigns, m \in Modes : Start(p, c, m)
      PROVE  ~Exists(raw'[Plan[campaign'[q]][i]])
  <2>1. CASE p = q
    BY <1>2, <1>5, <1>6, <1>8, <2>1
  <2>2. CASE p # q
    BY <1>4, <1>8, <2>2, OthersKept DEF ProtectInv
  <2> QED  BY <2>1, <2>2
<1> QED  BY <1>7, <1>8 DEF Next

(* The only steps into the labels between the decision to execute a run    *)
(* and the writing of its raw file.                                        *)
LEMMA IntoSave ==
    ASSUME TypeInv, NEW p \in Invokers, Step(p),
           pc'[p] \in {"executing", "open raw", "write raw"}
    PROVE  \/ BeginExecution(p) /\ pc'[p] = "executing"
           \/ (\E s \in Status : EndExecution(p, s)) /\ pc'[p] = "open raw"
           \/ OpenRaw(p) /\ pc'[p] = "write raw"
<1> USE DEF TypeInv, TypeOK
<1>1. CASE CheckNoExistingCampaign(p) \/ RefuseForeignLevel(p) \/ FinishLoops(p)
           \/ ListRecords(p) \/ OpenManifest(p) \/ WriteManifest(p)
  BY <1>1 DEF CheckNoExistingCampaign, RefuseForeignLevel, FinishLoops, ListRecords,
        OpenManifest, WriteManifest, Goto
<1>2. CASE SkipRecorded(p)
  BY <1>2 DEF SkipRecorded, Skips, Goto
<1>3. CASE BeginExecution(p)
  BY <1>3 DEF BeginExecution, Goto
<1>4. CASE \E s \in Status : EndExecution(p, s)
  BY <1>4 DEF EndExecution, Goto
<1>5. CASE OpenRaw(p)
  BY <1>5 DEF OpenRaw, SaveStep, Goto
<1>6. CASE WriteRaw(p) \/ OpenTrace(p) \/ WriteTrace(p) \/ OpenEvaluation(p)
           \/ WriteEvaluation(p)
  BY <1>6 DEF WriteRaw, OpenTrace, WriteTrace, OpenEvaluation, WriteEvaluation,
        SaveStep, Goto
<1>7. CASE \E r \in RunIds : LoadNext(p, r)
  BY <1>7 DEF LoadNext, Goto
<1> QED  BY <1>1, <1>2, <1>3, <1>4, <1>5, <1>6, <1>7 DEF Step, Save

(* The raw file a process is about to write is not touched by the others.  *)
LEMMA OwnRawKept ==
    ASSUME DistinctPlans, ProtectInv, [Next]_vars, NEW q \in Invokers,
           pc[q] \in {"executing"} \cup Saving, ~OpenRaw(q), ~WriteRaw(q)
    PROVE  raw'[Current(q)] = raw[Current(q)]
<1>1. HasNext(q) /\ pc[q] \in Running
  BY DEF ProtectInv, TypeInv, InPlan, Running
<1>2. campaign[q] \in Campaigns /\ next[q] \in Nat \ {0}
  BY DEF ProtectInv, TypeInv, TypeOK
<1>3. Plan[campaign[q]] \in Seq(RunIds)
  BY <1>2, CampaignAssumption
<1>4. next[q] \in 1..Len(Plan[campaign[q]])
  BY <1>1, <1>2, <1>3 DEF HasNext
<1>5. raw'[Plan[campaign[q]][next[q]]] = raw[Plan[campaign[q]][next[q]]]
  BY <1>1, <1>4, RawKept
<1> QED  BY <1>5 DEF Current

(* A process without --force reaches the opening of a raw file only for a  *)
(* run id that has none.                                                   *)
LEMMA NextUnwritten == DistinctPlans /\ ProtectInv /\ [Next]_vars
                           => Unwritten' /\ TornMeanwhile'
<1> SUFFICES ASSUME DistinctPlans, ProtectInv, [Next]_vars, NEW q \in Invokers
             PROVE  /\ pc'[q] \in {"executing", "open raw"} /\ ~mode'[q].force
                           => ~Exists(raw'[Current(q)'])
                    /\ pc'[q] = "write raw" => raw'[Current(q)'].state = "torn"
  BY DEF Unwritten, TornMeanwhile, Exists
<1>0. TypeInv /\ TypeOK
  BY DEF ProtectInv, TypeInv
(* When q keeps its place, its file is kept too.                           *)
<1>1. ASSUME pc'[q] = pc[q], campaign'[q] = campaign[q], next'[q] = next[q],
             mode'[q] = mode[q], pc[q] \in {"executing", "open raw", "write raw"}
      PROVE  /\ pc[q] \in {"executing", "open raw"} /\ ~mode[q].force
                    => ~Exists(raw'[Current(q)'])
             /\ pc[q] = "write raw" => raw'[Current(q)'].state = "torn"
  <2>1. Current(q)' = Current(q)
    BY <1>1 DEF Current
  <2>2. ~OpenRaw(q) /\ ~WriteRaw(q)
    BY <1>0, <1>1 DEF OpenRaw, WriteRaw, SaveStep, Goto, TypeOK
  <2>3. raw'[Current(q)] = raw[Current(q)]
    BY <1>1, <2>2, OwnRawKept DEF Saving
  <2> QED  BY <2>1, <2>3 DEF ProtectInv, Unwritten, TornMeanwhile, Exists
<1>2. CASE UNCHANGED vars
  BY <1>1, <1>2 DEF vars, invokerVars
<1>3. ASSUME NEW p \in Invokers, p # q,
             Step(p) \/ Crash(p) \/ \E c \in Campaigns, m \in Modes : Start(p, c, m)
      PROVE  /\ pc'[q] \in {"executing", "open raw"} /\ ~mode'[q].force
                    => ~Exists(raw'[Current(q)'])
             /\ pc'[q] = "write raw" => raw'[Current(q)'].state = "torn"
  <2>1. /\ pc'[q] = pc[q] /\ campaign'[q] = campaign[q]
        /\ mode'[q] = mode[q] /\ next'[q] = next[q]
    BY <1>0, <1>3, OthersKept
  <2> QED  BY <1>1, <2>1
<1>4. CASE Crash(q) \/ \E c \in Campaigns, m \in Modes : Start(q, c, m)
  BY <1>0, <1>4 DEF Crash, Start, Goto, TypeOK
<1>5. ASSUME BeginExecution(q), pc'[q] = "executing", ~mode'[q].force
      PROVE  ~Exists(raw'[Current(q)'])
  <2>1. /\ Current(q)' = Current(q) /\ raw' = raw /\ mode' = mode
        /\ pc[q] = "selecting" /\ HasNext(q)
    BY <1>5 DEF BeginExecution, Skips, Current, storeVars
  <2>2. CASE mode[q].resume
    BY <1>5, <2>1, <2>2 DEF BeginExecution, Skips
  <2>3. CASE ~mode[q].resume
    <3>1. campaign[q] \in Campaigns /\ next[q] \in Nat \ {0}
      BY <1>0 DEF TypeOK
    <3>2. Plan[campaign[q]] \in Seq(RunIds)
      BY <3>1, CampaignAssumption
    <3>3. Ahead(q, next[q])
      BY <2>1, <3>1, <3>2 DEF Ahead, HasNext
    <3>4. ~Exists(raw[Plan[campaign[q]][next[q]]])
      BY <1>5, <2>1, <2>3, <3>1, <3>3 DEF ProtectInv, FreshAhead
    <3> QED  BY <2>1, <3>4 DEF Current
  <2> QED  BY <2>2, <2>3
<1>6. ASSUME NEW s \in Status, EndExecution(q, s), pc'[q] = "open raw", ~mode'[q].force
      PROVE  ~Exists(raw'[Current(q)'])
  BY <1>6 DEF EndExecution, Current, storeVars, ProtectInv, Unwritten
<1>7. ASSUME OpenRaw(q), pc'[q] = "write raw"
      PROVE  raw'[Current(q)'].state = "torn"
  <2>1. Current(q)' = Current(q) /\ pc[q] \in Saving
    BY <1>7 DEF OpenRaw, SaveStep, Current, Saving
  <2>2. Current(q) \in RunIds
    BY <1>0, <2>1, CurrentInRunIds DEF TypeInv, InPlan
  <2> QED  BY <1>0, <1>7, <2>1, <2>2 DEF OpenRaw, TruncateRaw, TornFile, TypeOK, StoreTypeOK
<1>8. CASE Step(q)
  BY <1>0, <1>5, <1>6, <1>7, <1>8, IntoSave
<1> QED  BY <1>2, <1>3, <1>4, <1>8 DEF Next

(* With no process started and no file, nothing needs protection.          *)
LEMMA InitProtectInv == Init => ProtectInv
<1> SUFFICES ASSUME Init PROVE ProtectInv
  OBVIOUS
<1>1. \A p \in Invokers : pc[p] = "off"
  BY DEF Init
<1>2. TypeInv
  BY InitTypeInv
<1> QED  BY <1>1, <1>2 DEF ProtectInv, Exclusive, FreshAhead, Unwritten, TornMeanwhile,
        Running, Saving

(* The protection invariant is inductive.                                  *)
LEMMA NextProtectInv == DistinctPlans /\ ProtectInv /\ [Next]_vars => ProtectInv'
BY NextTypeInv, NextExclusive, NextFreshAhead, NextUnwritten DEF ProtectInv

(* In a protected state no step replaces a record except a forced one.     *)
LEMMA RecordKept ==
    ASSUME DistinctPlans, ProtectInv, [Next]_vars, NEW r \in RunIds,
           Recorded(r), raw'[r] # raw[r]
    PROVE  \E p \in Invokers : pc[p] = "open raw" /\ Current(p) = r /\ mode[p].force
<1>1. PICK p \in Invokers : OpenRaw(p) \/ WriteRaw(p)
  BY RawChanges
<1>2. Current(p) = r
  BY <1>1 DEF OpenRaw, WriteRaw, TruncateRaw, FillRaw, ProtectInv, TypeInv, TypeOK,
        StoreTypeOK
<1>3. ~WriteRaw(p)
  BY <1>2 DEF WriteRaw, SaveStep, ProtectInv, TornMeanwhile, Recorded
<1>4. pc[p] = "open raw"
  BY <1>1, <1>3 DEF OpenRaw, SaveStep
<1>5. mode[p].force
  BY <1>2, <1>4 DEF ProtectInv, Unwritten, Recorded, Exists
<1> QED  BY <1>2, <1>4, <1>5

(* For plans that name each run once: whatever campaigns run side by side, *)
(* crash, are refused or resumed, a persisted record is replaced only by   *)
(* an invocation given --force.                                            *)
THEOREM RecordsProtected == DistinctPlans => (Spec => OverwrittenOnlyByForce)
<1> SUFFICES ASSUME DistinctPlans PROVE Spec => OverwrittenOnlyByForce
  OBVIOUS
<1>1. ProtectInv /\ [Next]_vars =>
        [\A r \in RunIds : Recorded(r) /\ raw'[r] # raw[r] =>
            \E p \in Invokers : /\ pc[p] = "open raw" /\ Current(p) = r
                                /\ mode[p].force]_vars
  BY RecordKept
<1>2. Spec => []ProtectInv
  BY InitProtectInv, NextProtectInv, PTL DEF Spec
<1> QED  BY <1>1, <1>2, PTL DEF Spec, OverwrittenOnlyByForce
-----------------------------------------------------------------------------
(***************************************************************************)
(* Without any forced invocation: what was loaded for the manifest is      *)
(* still recorded when the manifest is written.                            *)
(***************************************************************************)
NoForcedModes == \A m \in Modes : ~m.force

ManifestInv ==
    /\ \A p \in Invokers : ~mode[p].force
    /\ \A p \in Invokers : \A r \in loaded[p] : Recorded(r)
    /\ ManifestNamesOnlyRecords

(* No manifest, nothing loaded: the manifest invariant holds.              *)
LEMMA InitManifestInv == Init => ManifestInv
BY DEF Init, ManifestInv, ManifestNamesOnlyRecords

(* Without forced modes a loaded run keeps its record until the manifest   *)
(* that names it is written, and after.                                    *)
LEMMA NextManifestInv ==
    DistinctPlans /\ NoForcedModes /\ ProtectInv /\ ManifestInv /\ [Next]_vars
        => ManifestInv'
<1> SUFFICES ASSUME DistinctPlans, NoForcedModes, ProtectInv, ManifestInv, [Next]_vars
             PROVE  ManifestInv'
  OBVIOUS
<1>0. TypeOK /\ TypeInv
  BY DEF ProtectInv, TypeInv
<1>1. \A r \in RunIds : Recorded(r) => Recorded(r)'
  BY RecordKept DEF ManifestInv, Recorded
<1>2. \A p \in Invokers : ~mode'[p].force
  <2>1. CASE UNCHANGED vars
    BY <2>1 DEF vars, invokerVars, ManifestInv
  <2>2. ASSUME NEW p \in Invokers,
               Step(p) \/ Crash(p) \/ \E c \in Campaigns, m \in Modes : Start(p, c, m)
        PROVE  \A q \in Invokers : ~mode'[q].force
    <3>1. \A q \in Invokers \ {p} : mode'[q] = mode[q]
      BY <1>0, <2>2, OthersKept
    <3>2. ~mode'[p].force
      <4>1. CASE \E c \in Campaigns, m \in Modes : Start(p, c, m)
        BY <1>0, <4>1 DEF Start, TypeOK, NoForcedModes
      <4>2. CASE UNCHANGED <<campaign, mode>>
        BY <4>2 DEF ManifestInv
      <4> QED  BY <1>0, <2>2, <4>1, <4>2, OthersKept
    <3> QED  BY <3>1, <3>2 DEF ManifestInv
  <2> QED  BY <2>1, <2>2 DEF Next
(* loaded and the manifest are changed by four actions only.               *)
<1>3. CASE UNCHANGED <<loaded, manifest>>
  <2>1. \A p \in Invokers : loaded[p] \subseteq RunIds
    BY <1>0 DEF TypeOK
  <2>2. manifest.runs \subseteq RunIds
    BY <1>0 DEF TypeOK
  <2> QED  BY <1>1, <1>2, <1>3, <2>1, <2>2 DEF ManifestInv, ManifestNamesOnlyRecords
<1>4. ASSUME NEW p \in Invokers, NEW c \in Campaigns, NEW m \in Modes, Start(p, c, m)
      PROVE  ManifestInv'
  BY <1>0, <1>2, <1>4 DEF Start, storeVars, TypeOK, ManifestInv,
        ManifestNamesOnlyRecords, Recorded
<1>5. ASSUME NEW p \in Invokers, NEW r \in RunIds, LoadNext(p, r) PROVE ManifestInv'
  <2>1. /\ \A q \in Invokers : loaded'[q] \subseteq loaded[q]
                \/ (loaded'[q] \subseteq loaded[q] \cup {r} /\ Recorded(r))
        /\ UNCHANGED <<raw, manifest>>
    BY <1>0, <1>5 DEF LoadNext, Loadable, Recorded, storeVars, TypeOK
  <2> QED  BY <1>2, <2>1 DEF ManifestInv, ManifestNamesOnlyRecords, Recorded
<1>6. ASSUME NEW p \in Invokers, OpenManifest(p) PROVE ManifestInv'
  BY <1>2, <1>6 DEF OpenManifest, storeVars, ManifestInv, ManifestNamesOnlyRecords, Recorded
<1>7. ASSUME NEW p \in Invokers, WriteManifest(p) PROVE ManifestInv'
  BY <1>2, <1>7 DEF WriteManifest, storeVars, ManifestInv, ManifestNamesOnlyRecords, Recorded
<1>8. ASSUME NEW p \in Invokers,
             \/ CheckNoExistingCampaign(p) \/ RefuseForeignLevel(p) \/ SkipRecorded(p)
             \/ BeginExecution(p) \/ (\E s \in Status : EndExecution(p, s))
             \/ Save(p) \/ FinishLoops(p) \/ ListRecords(p) \/ Crash(p)
      PROVE  UNCHANGED <<loaded, manifest>>
  BY <1>8 DEF CheckNoExistingCampaign, RefuseForeignLevel, SkipRecorded,
        BeginExecution, EndExecution, Save, OpenRaw, WriteRaw, OpenTrace, WriteTrace,
        OpenEvaluation, WriteEvaluation, SaveStep, FinishLoops, ListRecords, Crash
<1>9. CASE UNCHANGED vars
  BY <1>3, <1>9 DEF vars, invokerVars
<1> QED  BY <1>3, <1>4, <1>5, <1>6, <1>7, <1>8, <1>9 DEF Next, Step

(* With concurrent campaigns, crashes and resumed invocations but no       *)
(* --force, a complete manifest never names a run without a record.        *)
THEOREM ManifestSound ==
    DistinctPlans /\ NoForcedModes => (Spec => []ManifestNamesOnlyRecords)
<1> SUFFICES ASSUME DistinctPlans, NoForcedModes
             PROVE  Spec => []ManifestNamesOnlyRecords
  OBVIOUS
<1>1. Spec => []ProtectInv
  BY InitProtectInv, NextProtectInv, PTL DEF Spec
<1>2. ManifestInv /\ ProtectInv /\ [Next]_vars => ManifestInv'
  BY NextManifestInv
<1>3. Spec => []ManifestInv
  BY <1>1, <1>2, InitManifestInv, PTL DEF Spec
<1> QED  BY <1>3, PTL DEF ManifestInv
=============================================================================
