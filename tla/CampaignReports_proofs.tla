------------------------ MODULE CampaignReports_proofs ------------------------
(***************************************************************************)
(* What a QuestionBenchmarkResult says of the store, and that campaigns    *)
(* without --force implement CampaignLedger: for every set of invokers,    *)
(* campaigns, plans and modes, and any number of starts and crashes.       *)
(***************************************************************************)
EXTENDS QuestionCampaign_proofs, FiniteSetTheorems

(* The positions of its plan a process has behind it, and those of them    *)
(* whose record has a status.                                              *)
Positions(p) == 1..Len(Plan[campaign[p]])
Behind(p) == {i \in Positions(p) : i < next[p]}
With(p, status) == {i \in Behind(p) : raw[Plan[campaign[p]][i]].status = status}

CountedOne(p) ==
    /\ \A i \in Behind(p) : Recorded(Plan[campaign[p]][i])
    /\ tally[p].successful = Cardinality(With(p, "COMPLETED"))
    /\ tally[p].failed = Cardinality(With(p, "FAILED"))

(* Everything behind a running process is recorded and counted once.       *)
Counted == \A p \in Invokers : pc[p] \in Running => CountedOne(p)

(* Once the raw file is written it holds the record in hand until save     *)
(* has returned and the run is counted.                                    *)
AfterRaw == {"open trace", "write trace", "open evaluation", "write evaluation"}

Written == \A p \in Invokers :
    pc[p] \in AfterRaw => raw[Current(p)] = FileOf(record[p])

(* The manifest is only made when the loops are over.                      *)
AfterLoops == {"listing", "loading", "write manifest"}

LoopsOver == \A p \in Invokers : pc[p] \in AfterLoops => ~HasNext(p)

CountInv == Counted /\ Written /\ LoopsOver

(* Nothing has been counted when nothing has been started.                 *)
LEMMA InitCountInv == Init => CountInv
<1> SUFFICES ASSUME Init PROVE CountInv
  OBVIOUS
<1>1. \A p \in Invokers : pc[p] = "off"
  BY DEF Init
<1>2. \A p \in Invokers : pc[p] \notin Running /\ pc[p] \notin AfterRaw
                          /\ pc[p] \notin AfterLoops
  BY <1>1 DEF Running, Saving, AfterRaw, AfterLoops
<1> QED  BY <1>2 DEF CountInv, Counted, Written, LoopsOver
-----------------------------------------------------------------------------
(* Sets of positions are finite.                                           *)
LEMMA PositionsFinite ==
    ASSUME TypeOK, NEW p \in Invokers
    PROVE  /\ Plan[campaign[p]] \in Seq(RunIds)
           /\ \A I \in SUBSET Positions(p) : IsFiniteSet(I)
           /\ next[p] \in Nat
<1>1. campaign[p] \in Campaigns /\ next[p] \in Nat
  BY DEF TypeOK
<1>2. Plan[campaign[p]] \in Seq(RunIds)
  BY <1>1, CampaignAssumption
<1>3. Len(Plan[campaign[p]]) \in Nat
  BY <1>2
<1>4. IsFiniteSet(Positions(p))
  BY <1>3, FS_Interval DEF Positions
<1> QED  BY <1>1, <1>2, <1>4, FS_Subset

(* The record in hand and the counters of a process are its own.           *)
LEMMA OthersCounters ==
    ASSUME TypeOK, NEW p \in Invokers,
           Step(p) \/ Crash(p) \/ \E c \in Campaigns, m \in Modes : Start(p, c, m)
    PROVE  \A q \in Invokers \ {p} : tally'[q] = tally[q] /\ record'[q] = record[q]
<1> USE DEF TypeOK
<1>1. CASE \E c \in Campaigns, m \in Modes : Start(p, c, m)
  BY <1>1 DEF Start
<1>2. CASE \/ Crash(p) \/ CheckNoExistingCampaign(p) \/ RefuseForeignLevel(p)
           \/ FinishLoops(p) \/ ListRecords(p) \/ OpenManifest(p)
           \/ WriteManifest(p) \/ (\E r \in RunIds : LoadNext(p, r))
  BY <1>2 DEF Crash, CheckNoExistingCampaign, RefuseForeignLevel, FinishLoops,
       ListRecords, OpenManifest, WriteManifest, LoadNext
<1>3. CASE BeginExecution(p)
  BY <1>3 DEF BeginExecution
<1>4. CASE \E s \in Status : EndExecution(p, s)
  BY <1>4 DEF EndExecution
<1>5. CASE Save(p) \/ SkipRecorded(p)
  BY <1>5 DEF Save, OpenRaw, WriteRaw, OpenTrace, WriteTrace, OpenEvaluation,
       WriteEvaluation, SaveStep, SkipRecorded, Count
<1> QED  BY <1>1, <1>2, <1>3, <1>4, <1>5 DEF Step

(* A process goes on to its next position only by counting the record of   *)
(* the one it is at, which is there.                                       *)
LEMMA Progress ==
    ASSUME TypeInv, CountInv, NEW p \in Invokers, Step(p)
    PROVE  \/ next'[p] = next[p] /\ tally'[p] = tally[p]
           \/ /\ HasNext(p) /\ Recorded(Current(p)) /\ UNCHANGED raw
              /\ Count(p, raw[Current(p)].status)
<1> USE DEF TypeInv
<1>1. CASE \/ CheckNoExistingCampaign(p) \/ RefuseForeignLevel(p)
           \/ BeginExecution(p) \/ (\E s \in Status : EndExecution(p, s))
           \/ OpenRaw(p) \/ WriteRaw(p) \/ OpenTrace(p) \/ OpenEvaluation(p)
           \/ FinishLoops(p) \/ ListRecords(p) \/ OpenManifest(p)
           \/ WriteManifest(p) \/ (\E r \in RunIds : LoadNext(p, r))
  BY <1>1 DEF CheckNoExistingCampaign, RefuseForeignLevel, BeginExecution,
       EndExecution, OpenRaw, WriteRaw, OpenTrace, OpenEvaluation, FinishLoops,
       ListRecords, OpenManifest, WriteManifest, LoadNext
<1>2. CASE SkipRecorded(p)
  BY <1>2 DEF SkipRecorded, Loadable, Recorded, storeVars
<1>3. CASE WriteTrace(p) \/ WriteEvaluation(p)
  <2>1. pc[p] \in AfterRaw /\ pc[p] \in Saving
    BY <1>3 DEF WriteTrace, WriteEvaluation, SaveStep, AfterRaw, Saving
  <2>2. HasNext(p)
    BY <2>1 DEF InPlan
  <2>3. raw[Current(p)] = FileOf(record[p])
    BY <2>1 DEF CountInv, Written
  <2>4. Recorded(Current(p)) /\ raw[Current(p)].status = record[p].status
    BY <2>3 DEF Recorded, FileOf
  <2>5. UNCHANGED raw
    BY <1>3 DEF WriteTrace, WriteEvaluation, FillTrace, FillEvaluation
  <2>6. UNCHANGED <<next, tally>> \/ Count(p, record[p].status)
    BY <1>3 DEF WriteTrace, WriteEvaluation
  <2> QED  BY <2>2, <2>4, <2>5, <2>6
<1> QED  BY <1>1, <1>2, <1>3 DEF Step, Save

(* A process that stays where it is keeps what is behind it, and its       *)
(* counts, whatever is written meanwhile.                                  *)
LEMMA CountedKept ==
    ASSUME DistinctPlans, ProtectInv, [Next]_vars, NEW q \in Invokers,
           pc[q] \in Running, CountedOne(q), campaign'[q] = campaign[q],
           next'[q] = next[q], tally'[q] = tally[q]
    PROVE  CountedOne(q)'
<1>0. TypeOK
  BY DEF ProtectInv, TypeInv
<1>1. \A i \in Behind(q) : raw'[Plan[campaign[q]][i]] = raw[Plan[campaign[q]][i]]
  <2> SUFFICES ASSUME NEW i \in Behind(q)
               PROVE  raw'[Plan[campaign[q]][i]] = raw[Plan[campaign[q]][i]]
    OBVIOUS
  <2>1. i \in 1..Len(Plan[campaign[q]]) /\ i < next[q] /\ next[q] \in Nat
    BY <1>0, PositionsFinite DEF Behind, Positions
  <2>2. Len(Plan[campaign[q]]) \in Nat
    BY <1>0, PositionsFinite
  <2>3. i # next[q]
    BY <2>1, <2>2
  <2> QED  BY <2>1, <2>3, RawKept
<1>2. Behind(q)' = Behind(q)
  BY DEF Behind, Positions
<1>3. \A status : With(q, status)' = With(q, status)
  BY <1>1, <1>2 DEF With
<1> QED  BY <1>1, <1>2, <1>3 DEF CountedOne, Recorded

(* Counting the record of the next position extends what is behind by it.  *)
LEMMA CountedNext ==
    ASSUME TypeInv, TypeInv', NEW p \in Invokers, CountedOne(p), HasNext(p),
           Recorded(Current(p)), UNCHANGED <<raw, campaign>>,
           Count(p, raw[Current(p)].status)
    PROVE  CountedOne(p)'
<1> DEFINE n == next[p]
           r == Current(p)
<1>0. TypeOK
  BY DEF TypeInv
<1>1. /\ n \in Nat \ {0} /\ next'[p] = n + 1
      /\ Plan[campaign[p]] \in Seq(RunIds) /\ r = Plan[campaign[p]][n]
      /\ n \in Positions(p)
  <2>1. n \in Nat \ {0} /\ next'[p] = n + 1
    BY <1>0 DEF Count, TypeOK
  <2>2. Plan[campaign[p]] \in Seq(RunIds)
    BY <1>0, PositionsFinite
  <2>3. n <= Len(Plan[campaign[p]]) /\ Len(Plan[campaign[p]]) \in Nat
    BY <2>2 DEF HasNext
  <2> QED  BY <2>1, <2>2, <2>3 DEF Current, Positions
<1>2. Positions(p)' = Positions(p) /\ Positions(p) \subseteq Nat
  BY DEF Positions
<1>3. Behind(p)' = Behind(p) \cup {n} /\ n \notin Behind(p)
  <2>1. \A i \in Positions(p) : i < n + 1 <=> i < n \/ i = n
    BY <1>1, <1>2
  <2>2. ~(n < n)
    BY <1>1
  <2> QED  BY <1>1, <1>2, <2>1, <2>2 DEF Behind
<1>4. raw[r].status \in Status
  <2>1. r \in RunIds
    BY <1>0, CurrentInRunIds
  <2> QED  BY <1>0, <2>1 DEF TypeOK, StoreTypeOK, File
<1>5. ASSUME NEW s
      PROVE  /\ IsFiniteSet(With(p, s)) /\ n \notin With(p, s)
             /\ With(p, s)' = IF raw[r].status = s THEN With(p, s) \cup {n} ELSE With(p, s)
  <2>1. With(p, s) \subseteq Positions(p) /\ n \notin With(p, s)
    BY <1>3 DEF With, Behind
  <2>2. IsFiniteSet(With(p, s))
    BY <1>0, <2>1, PositionsFinite
  <2>3. With(p, s)' = {i \in Behind(p)' : raw[Plan[campaign[p]][i]].status = s}
    BY DEF With
  <2>4. raw[Plan[campaign[p]][n]].status = raw[r].status
    BY <1>1
  <2> HIDE DEF n, r
  <2> QED  BY <1>3, <2>1, <2>2, <2>3, <2>4 DEF With
<1>6. ASSUME NEW s
      PROVE  /\ Cardinality(With(p, s)) \in Nat
             /\ Cardinality(With(p, s)') =
                  Cardinality(With(p, s)) + (IF raw[r].status = s THEN 1 ELSE 0)
  <2>1. Cardinality(With(p, s)) \in Nat
    BY <1>5, FS_CardinalityType
  <2>2. Cardinality(With(p, s) \cup {n}) = Cardinality(With(p, s)) + 1
    BY <1>5, FS_AddElement
  <2>3. CASE raw[r].status = s
    BY <1>5, <2>1, <2>2, <2>3
  <2>4. CASE raw[r].status # s
    BY <1>5, <2>1, <2>4
  <2> QED  BY <2>1, <2>3, <2>4
<1>7. /\ tally'[p].successful =
            tally[p].successful + (IF raw[r].status = "COMPLETED" THEN 1 ELSE 0)
      /\ tally'[p].failed =
            tally[p].failed + (IF raw[r].status = "COMPLETED" THEN 0 ELSE 1)
  BY <1>0 DEF Count, TypeOK
<1>8. raw[r].status = "FAILED" <=> raw[r].status # "COMPLETED"
  BY <1>4 DEF Status
<1>9. /\ tally'[p].successful = Cardinality(With(p, "COMPLETED")')
      /\ tally'[p].failed = Cardinality(With(p, "FAILED")')
  <2>1. /\ tally[p].successful = Cardinality(With(p, "COMPLETED"))
        /\ tally[p].failed = Cardinality(With(p, "FAILED"))
    BY DEF CountedOne
  <2> HIDE DEF n, r
  <2>2. tally'[p].failed = tally[p].failed + (IF raw[r].status = "FAILED" THEN 1 ELSE 0)
    BY <1>7, <1>8
  <2> QED  BY <1>6, <1>7, <2>1, <2>2
<1>10. \A i \in Behind(p)' : Recorded(Plan[campaign[p]][i])'
  BY <1>1, <1>3 DEF CountedOne, Recorded
<1> QED  BY <1>9, <1>10 DEF CountedOne

(* Counting: Start has nothing behind it, every other step of the process  *)
(* counts one record or none, and the steps of the others change nothing.  *)
LEMMA NextCounted ==
    DistinctPlans /\ ProtectInv /\ CountInv /\ [Next]_vars => Counted'
<1> SUFFICES ASSUME DistinctPlans, ProtectInv, CountInv, [Next]_vars,
                    NEW q \in Invokers, pc'[q] \in Running
             PROVE  CountedOne(q)'
  BY DEF Counted, Running, Saving
<1>0. TypeInv /\ TypeOK /\ TypeInv' /\ TypeOK'
  BY NextTypeInv DEF ProtectInv, TypeInv
<1>1. CASE UNCHANGED vars
  <2>1. pc[q] \in Running
    BY <1>1 DEF vars, invokerVars
  <2> QED  BY <1>1, <2>1, CountedKept DEF CountInv, Counted, vars, invokerVars
<1>2. ASSUME NEW c \in Campaigns, NEW m \in Modes, Start(q, c, m)
      PROVE  CountedOne(q)'
  <2>1. next'[q] = 1 /\ tally'[q].successful = 0 /\ tally'[q].failed = 0
    BY <1>0, <1>2 DEF Start, NoTally, TypeOK
  <2>2. Positions(q)' \subseteq Nat \ {0}
    BY DEF Positions
  <2>3. \A i \in Nat \ {0} : ~(i < 1)
    OBVIOUS
  <2>4. Behind(q)' = {}
    BY <2>1, <2>2, <2>3 DEF Behind
  <2>5. \A s : With(q, s)' = {}
    BY <2>4 DEF With
  <2> QED  BY <2>1, <2>4, <2>5, FS_EmptySet DEF CountedOne
<1>3. ASSUME NEW p \in Invokers, p # q,
             Step(p) \/ Crash(p) \/ \E c \in Campaigns, m \in Modes : Start(p, c, m)
      PROVE  CountedOne(q)'
  <2>1. /\ pc'[q] = pc[q] /\ campaign'[q] = campaign[q] /\ next'[q] = next[q]
        /\ tally'[q] = tally[q]
    BY <1>0, <1>3, OthersKept, OthersCounters
  <2> QED  BY <2>1, CountedKept DEF CountInv, Counted
<1>4. CASE Crash(q)
  BY <1>0, <1>4 DEF Crash, Goto, TypeOK, Running, Saving
<1>5. CASE Step(q)
  <2>1. \/ pc[q] \in Running /\ UNCHANGED campaign
        \/ \E c \in Campaigns, m \in Modes : Start(q, c, m)
    BY <1>0, <1>5, OthersKept
  <2>2. CASE pc[q] \in Running /\ UNCHANGED campaign
    <3>1. CountedOne(q)
      BY <2>2 DEF CountInv, Counted
    <3>2. CASE next'[q] = next[q] /\ tally'[q] = tally[q]
      BY <2>2, <3>1, <3>2, CountedKept
    <3>3. CASE /\ HasNext(q) /\ Recorded(Current(q)) /\ UNCHANGED raw
               /\ Count(q, raw[Current(q)].status)
      BY <1>0, <2>2, <3>1, <3>3, CountedNext
    <3> QED  BY <1>0, <1>5, <3>2, <3>3, Progress
  <2> QED  BY <1>2, <2>1, <2>2
<1> QED  BY <1>1, <1>2, <1>3, <1>4, <1>5 DEF Next

(* The steps into and within the part of save after the raw file, and into *)
(* and within the making of the manifest.                                  *)
LEMMA IntoAfter ==
    ASSUME TypeInv, NEW p \in Invokers, Step(p)
    PROVE  /\ pc'[p] \in AfterRaw =>
                /\ WriteRaw(p) \/ (pc[p] \in AfterRaw /\ UNCHANGED raw)
                /\ UNCHANGED <<campaign, next, record>>
           /\ pc'[p] \in AfterLoops =>
                /\ pc[p] \in AfterLoops \/ (FinishLoops(p) /\ ~HasNext(p))
                /\ UNCHANGED <<campaign, next>>
<1> USE DEF TypeInv, TypeOK, AfterRaw, AfterLoops
<1>1. CASE CheckNoExistingCampaign(p) \/ RefuseForeignLevel(p) \/ BeginExecution(p)
           \/ OpenManifest(p) \/ WriteManifest(p)
  BY <1>1 DEF CheckNoExistingCampaign, RefuseForeignLevel, BeginExecution,
        OpenManifest, WriteManifest, Goto
<1>2. CASE FinishLoops(p) \/ ListRecords(p)
  BY <1>2 DEF FinishLoops, ListRecords, Goto
<1>3. CASE SkipRecorded(p)
  BY <1>3 DEF SkipRecorded, Skips, Goto
<1>4. CASE \E s \in Status : EndExecution(p, s)
  BY <1>4 DEF EndExecution, Goto
<1>5. CASE OpenRaw(p) \/ WriteRaw(p)
  BY <1>5 DEF OpenRaw, WriteRaw, SaveStep, Goto
<1>6. CASE OpenTrace(p) \/ OpenEvaluation(p)
  BY <1>6 DEF OpenTrace, OpenEvaluation, TruncateTrace, TruncateEvaluation, SaveStep, Goto
<1>7. CASE WriteTrace(p) \/ WriteEvaluation(p)
  BY <1>7 DEF WriteTrace, WriteEvaluation, FillTrace, FillEvaluation, SaveStep, Goto
<1>8. CASE \E r \in RunIds : LoadNext(p, r)
  BY <1>8 DEF LoadNext, Goto
<1> QED  BY <1>1, <1>2, <1>3, <1>4, <1>5, <1>6, <1>7, <1>8 DEF Step, Save

(* The raw file written stays the record in hand: nobody else has its run. *)
LEMMA NextWritten ==
    DistinctPlans /\ ProtectInv /\ CountInv /\ [Next]_vars => Written' /\ LoopsOver'
<1> SUFFICES ASSUME DistinctPlans, ProtectInv, CountInv, [Next]_vars, NEW q \in Invokers
             PROVE  /\ pc'[q] \in AfterRaw => raw'[Current(q)'] = FileOf(record'[q])
                    /\ pc'[q] \in AfterLoops => ~HasNext(q)'
  BY DEF Written, LoopsOver, AfterRaw, AfterLoops
<1>0. TypeInv /\ TypeOK
  BY DEF ProtectInv, TypeInv
<1>1. ASSUME pc'[q] = pc[q], campaign'[q] = campaign[q], next'[q] = next[q],
             record'[q] = record[q]
      PROVE  /\ pc'[q] \in AfterRaw => raw'[Current(q)'] = FileOf(record'[q])
             /\ pc'[q] \in AfterLoops => ~HasNext(q)'
  <2>1. Current(q)' = Current(q) /\ (HasNext(q)' <=> HasNext(q))
    BY <1>1 DEF Current, HasNext
  <2>2. ASSUME pc[q] \in AfterRaw PROVE raw'[Current(q)] = raw[Current(q)]
    <3>1. ~OpenRaw(q) /\ ~WriteRaw(q)
      BY <2>2 DEF OpenRaw, WriteRaw, SaveStep, AfterRaw
    <3> QED  BY <2>2, <3>1, OwnRawKept DEF AfterRaw, Saving
  <2> QED  BY <1>1, <2>1, <2>2 DEF CountInv, Written, LoopsOver
<1>2. CASE UNCHANGED vars
  BY <1>1, <1>2 DEF vars, invokerVars
<1>3. ASSUME NEW p \in Invokers, p # q,
             Step(p) \/ Crash(p) \/ \E c \in Campaigns, m \in Modes : Start(p, c, m)
      PROVE  /\ pc'[q] \in AfterRaw => raw'[Current(q)'] = FileOf(record'[q])
             /\ pc'[q] \in AfterLoops => ~HasNext(q)'
  BY <1>0, <1>1, <1>3, OthersKept, OthersCounters
<1>4. CASE Crash(q) \/ \E c \in Campaigns, m \in Modes : Start(q, c, m)
  BY <1>0, <1>4 DEF Crash, Start, Goto, TypeOK, AfterRaw, AfterLoops
<1>5. CASE Step(q)
  <2>1. ASSUME pc'[q] \in AfterRaw PROVE raw'[Current(q)'] = FileOf(record'[q])
    <3>1. /\ WriteRaw(q) \/ (pc[q] \in AfterRaw /\ UNCHANGED raw)
          /\ UNCHANGED <<campaign, next, record>>
      BY <1>0, <1>5, <2>1, IntoAfter
    <3>2. Current(q)' = Current(q)
      BY <3>1 DEF Current
    <3>3. CASE WriteRaw(q)
      <4>1. pc[q] \in Saving
        BY <3>3 DEF WriteRaw, SaveStep, Saving
      <4>2. Current(q) \in RunIds
        BY <1>0, <4>1, CurrentInRunIds DEF TypeInv, InPlan
      <4> QED  BY <1>0, <3>1, <3>2, <3>3, <4>2 DEF WriteRaw, FillRaw, TypeOK, StoreTypeOK
    <3>4. CASE pc[q] \in AfterRaw /\ UNCHANGED raw
      BY <3>1, <3>2, <3>4 DEF CountInv, Written
    <3> QED  BY <3>1, <3>3, <3>4
  <2>2. ASSUME pc'[q] \in AfterLoops PROVE ~HasNext(q)'
    <3>1. UNCHANGED <<campaign, next>> /\ ~HasNext(q)
      BY <1>0, <1>5, <2>2, IntoAfter DEF CountInv, LoopsOver
    <3> QED  BY <3>1 DEF HasNext
  <2> QED  BY <2>1, <2>2
<1> QED  BY <1>2, <1>3, <1>4, <1>5 DEF Next

(* The counting invariant holds with the protection invariant.             *)
LEMMA SpecCountInv == DistinctPlans => (Spec => [](ProtectInv /\ CountInv))
<1> SUFFICES ASSUME DistinctPlans PROVE Spec => [](ProtectInv /\ CountInv)
  OBVIOUS
<1>1. Init => ProtectInv /\ CountInv
  BY InitProtectInv, InitCountInv
<1>2. ProtectInv /\ CountInv /\ [Next]_vars => (ProtectInv /\ CountInv)'
  BY NextProtectInv, NextCounted, NextWritten DEF CountInv
<1> QED  BY <1>1, <1>2, PTL DEF Spec
-----------------------------------------------------------------------------
(* An invocation ends with a report only when its loops are over.          *)
LEMMA ReportStep ==
    ASSUME TypeInv, CountInv, [Next]_vars
    PROVE  \/ /\ UNCHANGED reports
              /\ \A p \in Invokers : pc'[p] = "done" => pc[p] = "done"
           \/ \E p \in Invokers :
                 /\ pc[p] \in Running /\ ~HasNext(p)
                 /\ UNCHANGED <<raw, campaign, next, tally>>
                 /\ reports' = reports \cup {ReportOf(p)}
                 /\ \A q \in Invokers \ {p} : pc'[q] = "done" => pc[q] = "done"
<1> USE DEF TypeInv, TypeOK
<1>1. CASE UNCHANGED vars
  BY <1>1 DEF vars, invokerVars
<1>2. ASSUME NEW p \in Invokers, FinishLoops(p)
      PROVE  \/ /\ UNCHANGED reports
                /\ \A q \in Invokers : pc'[q] = "done" => pc[q] = "done"
             \/ /\ pc[p] \in Running /\ ~HasNext(p)
                /\ UNCHANGED <<raw, campaign, next, tally>>
                /\ reports' = reports \cup {ReportOf(p)}
                /\ \A q \in Invokers \ {p} : pc'[q] = "done" => pc[q] = "done"
  BY <1>2 DEF FinishLoops, Goto, storeVars, Running
<1>3. ASSUME NEW p \in Invokers, WriteManifest(p)
      PROVE  /\ pc[p] \in Running /\ ~HasNext(p)
             /\ UNCHANGED <<raw, campaign, next, tally>>
             /\ reports' = reports \cup {ReportOf(p)}
             /\ \A q \in Invokers \ {p} : pc'[q] = "done" => pc[q] = "done"
  BY <1>3 DEF WriteManifest, Goto, storeVars, Running, CountInv, LoopsOver, AfterLoops
<1>4. ASSUME NEW p \in Invokers,
             \/ CheckNoExistingCampaign(p) \/ RefuseForeignLevel(p) \/ BeginExecution(p)
             \/ ListRecords(p) \/ OpenManifest(p) \/ Crash(p) \/ SkipRecorded(p)
             \/ (\E s \in Status : EndExecution(p, s))
      PROVE  /\ UNCHANGED reports
             /\ \A q \in Invokers : pc'[q] = "done" => pc[q] = "done"
  BY <1>4 DEF CheckNoExistingCampaign, RefuseForeignLevel, BeginExecution, ListRecords,
        OpenManifest, Crash, SkipRecorded, EndExecution, Goto
<1>5. ASSUME NEW p \in Invokers, Save(p)
      PROVE  /\ UNCHANGED reports
             /\ \A q \in Invokers : pc'[q] = "done" => pc[q] = "done"
  BY <1>5 DEF Save, OpenRaw, WriteRaw, OpenTrace, WriteTrace, OpenEvaluation,
        WriteEvaluation, SaveStep, Goto
<1>6. ASSUME NEW p \in Invokers, NEW r \in RunIds, LoadNext(p, r)
      PROVE  /\ UNCHANGED reports
             /\ \A q \in Invokers : pc'[q] = "done" => pc[q] = "done"
  BY <1>6 DEF LoadNext, Goto
<1>7. ASSUME NEW p \in Invokers, NEW c \in Campaigns, NEW m \in Modes, Start(p, c, m)
      PROVE  /\ UNCHANGED reports
             /\ \A q \in Invokers : pc'[q] = "done" => pc[q] = "done"
  BY <1>7 DEF Start, Goto
<1> QED  BY <1>1, <1>2, <1>3, <1>4, <1>5, <1>6, <1>7 DEF Next, Step

(* Positions of a plan and the runs at them are equally many.              *)
LEMMA RunsAreCounted ==
    ASSUME DistinctPlans, NEW c \in Campaigns, NEW I \in SUBSET (1..Len(Plan[c])),
           NEW R, R = {Plan[c][i] : i \in I}
    PROVE  Cardinality(R) = Cardinality(I)
<1>1. Plan[c] \in Seq(RunIds) /\ Len(Plan[c]) \in Nat
  BY CampaignAssumption
<1>2. IsFiniteSet(I)
  <2>1. IsFiniteSet(1..Len(Plan[c]))
    BY <1>1, FS_Interval
  <2> QED  BY <2>1, FS_Subset
<1> DEFINE f == [i \in I |-> Plan[c][i]]
<1>3. f \in Surjection(I, R)
  BY DEF Surjection
<1>4. f \in Injection(I, R)
  BY DEF Injection, IsInjective, DistinctPlans
<1>5. ExistsBijection(I, R)
  BY <1>3, <1>4 DEF ExistsBijection, Bijection
<1> QED  BY <1>2, <1>5, FS_Bijection

(* With the loops over, the counters are those of the whole plan.          *)
LEMMA CountersOfPlan ==
    ASSUME TypeOK, NEW p \in Invokers, CountedOne(p), ~HasNext(p)
    PROVE  /\ Behind(p) = 1..Len(Plan[campaign[p]])
           /\ \A i \in 1..Len(Plan[campaign[p]]) : Recorded(Plan[campaign[p]][i])
<1>1. next[p] \in Nat /\ Len(Plan[campaign[p]]) \in Nat /\ next[p] > Len(Plan[campaign[p]])
  BY PositionsFinite DEF HasNext
<1>2. \A i \in 1..Len(Plan[campaign[p]]) : i < next[p]
  BY <1>1
<1> QED  BY <1>2 DEF Behind, Positions, CountedOne

(* For plans that name each run once, forced invocations included: what a  *)
(* finished invocation counts is what the store holds of its plan at that  *)
(* moment, however its runs came to be recorded.                           *)
THEOREM ReportsTrue == DistinctPlans => (Spec => ReportsMatchStore)
<1> SUFFICES ASSUME DistinctPlans PROVE Spec => ReportsMatchStore
  OBVIOUS
<1> DEFINE True(p) ==
      LET done == Planned(campaign[p])
          good == {r \in done : raw[r].status = "COMPLETED"}
      IN  /\ \A r \in done : Recorded(r)
          /\ tally[p].successful = Cardinality(good)
          /\ tally[p].failed = Cardinality(done \ good)
<1>1. ASSUME ProtectInv, CountInv, [Next]_vars, NEW p \in Invokers,
             pc[p] # "done", pc'[p] = "done"
      PROVE  True(p)
  <2>0. TypeInv /\ TypeOK
    BY <1>1 DEF ProtectInv, TypeInv
  <2>1. pc[p] \in Running /\ ~HasNext(p)
    BY <1>1, <2>0, ReportStep
  <2>2. CountedOne(p) /\ campaign[p] \in Campaigns
    BY <1>1, <2>0, <2>1 DEF CountInv, Counted, TypeOK
  <2> DEFINE c == campaign[p]
             done == Planned(c)
             good == {r \in done : raw[r].status = "COMPLETED"}
             At(s) == {Plan[c][i] : i \in With(p, s)}
  <2>3. /\ Behind(p) = 1..Len(Plan[c])
        /\ \A i \in 1..Len(Plan[c]) : Recorded(Plan[c][i])
    BY <2>0, <2>1, <2>2, CountersOfPlan
  <2>4. \A r \in done : Recorded(r) /\ raw[r].status \in {"COMPLETED", "FAILED"}
    <3>1. Plan[c] \in Seq(RunIds)
      BY <2>0, PositionsFinite
    <3>2. \A i \in 1..Len(Plan[c]) : Plan[c][i] \in RunIds
      BY <3>1
    <3>3. \A r \in RunIds : raw[r].status \in {"COMPLETED", "FAILED"}
      BY <2>0 DEF TypeOK, StoreTypeOK, File, Status
    <3> QED  BY <2>3, <3>2, <3>3 DEF Planned
  <2>5. good = At("COMPLETED") /\ done \ good = At("FAILED")
    BY <2>3, <2>4 DEF Planned, With
  <2>6. \A s : With(p, s) \in SUBSET (1..Len(Plan[c]))
    BY <2>3 DEF With
  <2>7. \A s : Cardinality(At(s)) = Cardinality(With(p, s))
    BY <2>2, <2>6, RunsAreCounted
  <2>8. Cardinality(good) = tally[p].successful /\ Cardinality(done \ good) = tally[p].failed
    BY <2>2, <2>5, <2>7 DEF CountedOne
  <2> QED  BY <2>4, <2>8
<1>2. ProtectInv /\ CountInv /\ [Next]_vars =>
        [\A p \in Invokers : pc[p] # "done" /\ pc'[p] = "done" => True(p)]_vars
  BY <1>1
<1> QED  BY <1>2, SpecCountInv, PTL DEF Spec, ReportsMatchStore
-----------------------------------------------------------------------------
(***************************************************************************)
(* Without any forced invocation the level's files are a ledger.           *)
(***************************************************************************)
NoForce == \A p \in Invokers : ~mode[p].force

(* Without forced modes no invocation is forced.                           *)
LEMMA SpecNoForce ==
    DistinctPlans /\ NoForcedModes => (Spec => [](ProtectInv /\ CountInv /\ NoForce))
<1> SUFFICES ASSUME DistinctPlans, NoForcedModes
             PROVE  Spec => [](ProtectInv /\ CountInv /\ NoForce)
  OBVIOUS
<1>1. Init => ManifestInv
  BY InitManifestInv
<1>2. ProtectInv /\ ManifestInv /\ [Next]_vars => ManifestInv'
  BY NextManifestInv
<1>3. ManifestInv => NoForce
  BY DEF ManifestInv, NoForce
<1> QED  BY <1>1, <1>2, <1>3, SpecCountInv, PTL DEF Spec

(* Without force only runs that have no raw file are written: opening one  *)
(* finds nothing recorded, and filling it records a new run.               *)
LEMMA UnforcedWrites ==
    ASSUME ProtectInv, NoForce, NEW p \in Invokers, OpenRaw(p) \/ WriteRaw(p)
    PROVE  /\ Current(p) \in RunIds /\ ~Recorded(Current(p))
           /\ UNCHANGED <<trace, evaluation, reports>>
           /\ OpenRaw(p) => raw' = [raw EXCEPT ![Current(p)] = TornFile]
           /\ WriteRaw(p) => /\ raw' = [raw EXCEPT ![Current(p)] = FileOf(record[p])]
                             /\ record[p].status \in Status
<1>0. TypeInv /\ TypeOK
  BY DEF ProtectInv, TypeInv
<1>1. pc[p] \in Saving
  BY DEF OpenRaw, WriteRaw, SaveStep, Saving
<1>2. Current(p) \in RunIds
  BY <1>0, <1>1, CurrentInRunIds DEF TypeInv, InPlan
<1>3. CASE OpenRaw(p)
  <2>1. ~Exists(raw[Current(p)])
    BY <1>3 DEF OpenRaw, SaveStep, ProtectInv, Unwritten, NoForce
  <2>2. pc[p] # "write raw"
    BY <1>3 DEF OpenRaw, SaveStep
  <2> QED  BY <1>2, <1>3, <2>1, <2>2 DEF OpenRaw, WriteRaw, TruncateRaw, SaveStep, Exists, Recorded
<1>4. CASE WriteRaw(p)
  <2>1. raw[Current(p)].state = "torn"
    BY <1>4 DEF WriteRaw, SaveStep, ProtectInv, TornMeanwhile
  <2>2. record[p].status \in Status
    BY <1>0 DEF TypeOK, Record
  <2>3. pc[p] # "open raw"
    BY <1>4 DEF WriteRaw, SaveStep
  <2> QED  BY <1>2, <1>4, <2>1, <2>2, <2>3 DEF OpenRaw, WriteRaw, FillRaw, SaveStep, Recorded
<1> QED  BY <1>3, <1>4

(* A finished invocation's report is the one the ledger gives.             *)
LEMMA ReportIsLedgers ==
    ASSUME TypeOK, NEW p \in Invokers, CountedOne(p), ~HasNext(p)
    PROVE  LET c == campaign[p]
               book == [r \in RunIds |-> IF Recorded(r) THEN raw[r].status ELSE "none"]
           IN  /\ \A i \in 1..Len(Plan[c]) : book[Plan[c][i]] # "none"
               /\ ReportOf(p) =
                    [campaign |-> c,
                     successful |-> Cardinality({i \in 1..Len(Plan[c]) :
                                                   book[Plan[c][i]] = "COMPLETED"}),
                     failed |-> Cardinality({i \in 1..Len(Plan[c]) :
                                               book[Plan[c][i]] = "FAILED"})]
<1> DEFINE c == campaign[p]
           book == [r \in RunIds |-> IF Recorded(r) THEN raw[r].status ELSE "none"]
<1>1. /\ Behind(p) = 1..Len(Plan[c])
      /\ \A i \in 1..Len(Plan[c]) : Recorded(Plan[c][i])
  BY CountersOfPlan
<1>2. \A i \in 1..Len(Plan[c]) : Plan[c][i] \in RunIds
  <2>1. Plan[c] \in Seq(RunIds)
    BY PositionsFinite
  <2> QED  BY <2>1
<1>3. \A i \in 1..Len(Plan[c]) : book[Plan[c][i]] = raw[Plan[c][i]].status
  BY <1>1, <1>2
<1>4. \A i \in 1..Len(Plan[c]) : raw[Plan[c][i]].status \in {"COMPLETED", "FAILED"}
  BY <1>2 DEF TypeOK, StoreTypeOK, File, Status
<1>5. \A s : With(p, s) = {i \in 1..Len(Plan[c]) : book[Plan[c][i]] = s}
  BY <1>1, <1>3 DEF With
<1>6. /\ tally[p].successful = Cardinality({i \in 1..Len(Plan[c]) : book[Plan[c][i]] = "COMPLETED"})
      /\ tally[p].failed = Cardinality({i \in 1..Len(Plan[c]) : book[Plan[c][i]] = "FAILED"})
  BY <1>5 DEF CountedOne
<1>7. \A i \in 1..Len(Plan[c]) : book[Plan[c][i]] # "none"
  BY <1>3, <1>4
<1> HIDE DEF book
<1> QED  BY <1>6, <1>7 DEF ReportOf, book

(* The instance counts with the same function.                             *)
LEMMA LedgerCardinality == \A S : Ledger!Cardinality(S) = Cardinality(S)
BY DEF Ledger!Cardinality, Cardinality

(* Step simulation: a step of a campaign is a step of the ledger or none.  *)
LEMMA StepImplementsLedger ==
    ASSUME ProtectInv, CountInv, NoForce, [Next]_vars
    PROVE  [Ledger!Next]_Ledger!vars
<1> DEFINE book == [r \in RunIds |-> IF Recorded(r) THEN raw[r].status ELSE "none"]
<1>0. TypeInv /\ TypeOK
  BY DEF ProtectInv, TypeInv
<1>1. ASSUME NEW p \in Invokers, OpenRaw(p)
      PROVE  UNCHANGED <<book, reports>>
  <2>1. book' = book
    BY <1>0, <1>1, UnforcedWrites DEF Recorded, TornFile, TypeOK, StoreTypeOK
  <2> QED  BY <1>1, <2>1, UnforcedWrites
<1>2. ASSUME NEW p \in Invokers, WriteRaw(p)
      PROVE  \E r \in RunIds, status \in {"COMPLETED", "FAILED"} :
                Ledger!RecordRun(r, status)
  <2>1. PICK r \in RunIds, rec \in Record :
           /\ ~Recorded(r) /\ UNCHANGED reports
           /\ raw' = [raw EXCEPT ![r] = FileOf(rec)]
    BY <1>0, <1>2, UnforcedWrites DEF TypeOK
  <2>2. raw'[r].state = "whole" /\ raw'[r].status = rec.status
    BY <1>0, <2>1 DEF FileOf, TypeOK, StoreTypeOK
  <2>3. \A x \in RunIds : x # r => raw'[x] = raw[x]
    BY <1>0, <2>1 DEF TypeOK, StoreTypeOK
  <2>4. book' = [book EXCEPT ![r] = rec.status]
    <3>1. /\ (IF Recorded(r) THEN raw[r].status ELSE "none")' = rec.status
          /\ \A x \in RunIds \ {r} :
                (IF Recorded(x) THEN raw[x].status ELSE "none")'
                  = (IF Recorded(x) THEN raw[x].status ELSE "none")
      BY <2>2, <2>3 DEF Recorded
    <3>2. book' = [x \in RunIds |-> IF x = r THEN rec.status ELSE book[x]]
      BY <3>1
    <3>3. book = [x \in RunIds |-> book[x]]
      OBVIOUS
    <3> HIDE DEF book
    <3> QED  BY <3>2, <3>3
  <2>5. book[r] = "none"
    BY <2>1
  <2>6. rec.status \in {"COMPLETED", "FAILED"}
    BY <2>1 DEF Record, Status
  <2>7. Ledger!RecordRun(r, rec.status)
    BY <2>1, <2>4, <2>5 DEF Ledger!RecordRun
  <2> QED  BY <2>1, <2>6, <2>7
<1>3. CASE raw' = raw /\ UNCHANGED reports
  BY <1>3 DEF Ledger!vars, Recorded
<1>4. ASSUME NEW p \in Invokers, pc[p] \in Running, ~HasNext(p), UNCHANGED raw,
             reports' = reports \cup {ReportOf(p)}
      PROVE  \E c \in Campaigns : Ledger!ReportCampaign(c)
  <2>1. CountedOne(p) /\ campaign[p] \in Campaigns
    BY <1>0, <1>4 DEF CountInv, Counted, TypeOK
  <2>2. book' = book
    BY <1>4 DEF Recorded
  <2>3. /\ \A i \in 1..Len(Plan[campaign[p]]) : book[Plan[campaign[p]][i]] # "none"
        /\ ReportOf(p) =
             [campaign |-> campaign[p],
              successful |-> Cardinality({i \in 1..Len(Plan[campaign[p]]) :
                                 book[Plan[campaign[p]][i]] = "COMPLETED"}),
              failed |-> Cardinality({i \in 1..Len(Plan[campaign[p]]) :
                             book[Plan[campaign[p]][i]] = "FAILED"})]
    BY <1>0, <1>4, <2>1, ReportIsLedgers, Zenon
  <2> HIDE DEF book
  <2>4. Ledger!ReportCampaign(campaign[p])
    BY <1>4, <2>2, <2>3, LedgerCardinality DEF Ledger!ReportCampaign, Ledger!CountOf, book
  <2> QED  BY <2>1, <2>4
<1>5. CASE \E p \in Invokers : OpenRaw(p) \/ WriteRaw(p)
  BY <1>1, <1>2, <1>5 DEF Ledger!Next, Ledger!vars
<1>6. CASE raw' = raw
  BY <1>0, <1>3, <1>4, <1>6, ReportStep DEF Ledger!Next
<1> QED  BY <1>5, <1>6, RawChanges

(* Without --force, campaigns implement the ledger: a run id is recorded   *)
(* once and for good, and only full campaigns are reported, whatever runs  *)
(* side by side, crashes, is refused, or is resumed.                       *)
THEOREM LedgerImplemented ==
    DistinctPlans /\ NoForcedModes => (Spec => ImplementsLedger)
<1> SUFFICES ASSUME DistinctPlans, NoForcedModes PROVE Spec => ImplementsLedger
  OBVIOUS
<1>1. Init => Ledger!Init
  BY DEF Init, StoreInit, NoFile, Ledger!Init, Recorded
<1>2. ProtectInv /\ CountInv /\ NoForce /\ [Next]_vars => [Ledger!Next]_Ledger!vars
  BY StepImplementsLedger
<1> QED  BY <1>1, <1>2, SpecNoForce, PTL DEF Spec, ImplementsLedger, Ledger!Spec
-----------------------------------------------------------------------------
(* A run without a record has no other file: save writes them after it.    *)
PairInv ==
    /\ \A r \in RunIds : ~Recorded(r) => /\ trace[r].state # "whole"
                                         /\ evaluation[r].state # "whole"
    /\ ArtefactsPaired

(* A step of save that writes beside the record writes the execution that  *)
(* the record is of.                                                       *)
LEMMA BesideRecord ==
    ASSUME ProtectInv, CountInv, NEW p \in Invokers,
           \/ OpenTrace(p) \/ WriteTrace(p) \/ OpenEvaluation(p) \/ WriteEvaluation(p)
    PROVE  \E r \in RunIds, f \in File :
              /\ UNCHANGED raw
              /\ f.state = "whole" => Recorded(r) /\ f.exec = raw[r].exec
              /\ \/ trace' = [trace EXCEPT ![r] = f] /\ UNCHANGED evaluation
                 \/ evaluation' = [evaluation EXCEPT ![r] = f] /\ UNCHANGED trace
<1>0. TypeInv /\ TypeOK
  BY DEF ProtectInv, TypeInv
<1>1. pc[p] \in AfterRaw /\ pc[p] \in Saving
  BY DEF OpenTrace, WriteTrace, OpenEvaluation, WriteEvaluation, SaveStep, AfterRaw, Saving
<1>2. Current(p) \in RunIds
  BY <1>0, <1>1, CurrentInRunIds DEF TypeInv, InPlan
<1>3. raw[Current(p)] = FileOf(record[p])
  BY <1>1 DEF CountInv, Written
<1>4. /\ Recorded(Current(p)) /\ FileOf(record[p]).exec = raw[Current(p)].exec
      /\ FileOf(record[p]) \in File /\ TornFile \in File /\ TornFile.state # "whole"
  BY <1>0, <1>3, FileTypes DEF Recorded, FileOf, TornFile, TypeOK
<1>5. CASE OpenTrace(p) \/ OpenEvaluation(p)
  BY <1>2, <1>4, <1>5 DEF OpenTrace, OpenEvaluation, TruncateTrace, TruncateEvaluation
<1>6. CASE WriteTrace(p) \/ WriteEvaluation(p)
  BY <1>2, <1>4, <1>6 DEF WriteTrace, WriteEvaluation, FillTrace, FillEvaluation
<1> QED  BY <1>5, <1>6

(* The files change only under save.                                       *)
LEMMA StoreChanges ==
    ASSUME [Next]_vars
    PROVE  \/ UNCHANGED storeVars
           \/ \E p \in Invokers :
                 \/ OpenRaw(p) \/ WriteRaw(p) \/ OpenTrace(p) \/ WriteTrace(p)
                 \/ OpenEvaluation(p) \/ WriteEvaluation(p)
BY DEF Next, Step, Save, Start, CheckNoExistingCampaign, RefuseForeignLevel,
       SkipRecorded, BeginExecution, EndExecution, FinishLoops, ListRecords, LoadNext,
       OpenManifest, WriteManifest, Crash, vars

(* Pairing is kept: a record is only ever made where nothing else is, and  *)
(* stays what it is while its companions are written.                      *)
LEMMA NextPairInv ==
    ProtectInv /\ CountInv /\ NoForce /\ PairInv /\ [Next]_vars => PairInv'
<1> SUFFICES ASSUME ProtectInv, CountInv, NoForce, PairInv, [Next]_vars PROVE PairInv'
  OBVIOUS
<1>0. StoreTypeOK
  BY DEF ProtectInv, TypeInv, TypeOK
<1>1. CASE UNCHANGED storeVars
  BY <1>1 DEF storeVars, PairInv, ArtefactsPaired, Recorded
<1>2. ASSUME NEW p \in Invokers, OpenRaw(p) \/ WriteRaw(p)
      PROVE  PairInv'
  <2>1. PICK r \in RunIds : /\ ~Recorded(r) /\ UNCHANGED <<trace, evaluation>>
                            /\ \E f : raw' = [raw EXCEPT ![r] = f]
    BY <1>2, UnforcedWrites
  <2>2. \A x \in RunIds : x # r => raw'[x] = raw[x]
    BY <1>0, <2>1 DEF StoreTypeOK
  <2>3. trace[r].state # "whole" /\ evaluation[r].state # "whole"
    BY <2>1 DEF PairInv
  <2> QED  BY <2>1, <2>2, <2>3 DEF PairInv, ArtefactsPaired, Recorded
<1>3. ASSUME NEW p \in Invokers,
             OpenTrace(p) \/ WriteTrace(p) \/ OpenEvaluation(p) \/ WriteEvaluation(p)
      PROVE  PairInv'
  <2>1. PICK r \in RunIds, f \in File :
              /\ UNCHANGED raw
              /\ f.state = "whole" => Recorded(r) /\ f.exec = raw[r].exec
              /\ \/ trace' = [trace EXCEPT ![r] = f] /\ UNCHANGED evaluation
                 \/ evaluation' = [evaluation EXCEPT ![r] = f] /\ UNCHANGED trace
    BY <1>3, BesideRecord
  <2>2. \A x \in RunIds : /\ trace'[x] = trace[x] \/ (x = r /\ trace'[x] = f)
                          /\ evaluation'[x] = evaluation[x] \/ (x = r /\ evaluation'[x] = f)
    BY <1>0, <2>1 DEF StoreTypeOK
  <2> QED  BY <2>1, <2>2 DEF PairInv, ArtefactsPaired, Recorded
<1> QED  BY <1>1, <1>2, <1>3, StoreChanges

(* Without --force, a trace or evaluation that can be read next to a       *)
(* record is of the same execution, wherever earlier invocations died.     *)
THEOREM FilesPaired ==
    DistinctPlans /\ NoForcedModes => (Spec => []ArtefactsPaired)
<1> SUFFICES ASSUME DistinctPlans, NoForcedModes PROVE Spec => []ArtefactsPaired
  OBVIOUS
<1>1. Init => PairInv
  BY DEF Init, StoreInit, NoFile, PairInv, ArtefactsPaired, Recorded
<1>2. PairInv => ArtefactsPaired
  BY DEF PairInv
<1> QED  BY <1>1, <1>2, NextPairInv, SpecNoForce, PTL DEF Spec
-----------------------------------------------------------------------------
(***************************************************************************)
(* With one process at a time the manifest is complete: nothing is         *)
(* recorded between the listing and the writing.                           *)
(***************************************************************************)
OneInvoker == \A p, q \in Invokers : p = q

(* What a process that makes the manifest has loaded and has left.         *)
Unlisted == Running \ {"loading", "write manifest"}

CoverInv == \A p \in Invokers :
    /\ pc[p] \in Unlisted => loaded[p] = {}
    /\ pc[p] \in {"loading", "write manifest"} =>
          /\ loaded[p] \subseteq {r \in RunIds : Recorded(r)} \ Foreign
          /\ \A r \in RunIds : Recorded(r) => r \in pending[p] \cup loaded[p] \cup Foreign
    /\ pc[p] = "write manifest" => pending[p] = {}
    /\ pc[p] = "done" /\ next[p] > 1 =>
          manifest = [state |-> "whole", runs |-> {r \in RunIds : Recorded(r)} \ Foreign]

(* One step per phase of an invocation.                                    *)
LEMMA NextCoverInv ==
    ASSUME OneInvoker, TypeInv, CoverInv, [Next]_vars
    PROVE  CoverInv'
<1> USE DEF TypeInv, TypeOK, Unlisted
<1> SUFFICES ASSUME NEW p \in Invokers
             PROVE  /\ pc'[p] \in Unlisted => loaded'[p] = {}
                    /\ pc'[p] \in {"loading", "write manifest"} =>
                          /\ loaded'[p] \subseteq {r \in RunIds : Recorded(r)'} \ Foreign
                          /\ \A r \in RunIds : Recorded(r)' =>
                                r \in pending'[p] \cup loaded'[p] \cup Foreign
                    /\ pc'[p] = "write manifest" => pending'[p] = {}
                    /\ pc'[p] = "done" /\ next'[p] > 1 =>
                          manifest' = [state |-> "whole",
                                       runs |-> {r \in RunIds : Recorded(r)'} \ Foreign]
  BY DEF CoverInv
<1>1. CASE UNCHANGED vars
  BY <1>1 DEF vars, storeVars, invokerVars, CoverInv, Recorded
<1>2. ASSUME NEW c \in Campaigns, NEW m \in Modes, Start(p, c, m)
      PROVE  pc'[p] = "checking" /\ loaded'[p] = {}
  BY <1>2 DEF Start, Goto
<1>3. ASSUME \/ CheckNoExistingCampaign(p) \/ RefuseForeignLevel(p) \/ BeginExecution(p)
             \/ (\E s \in Status : EndExecution(p, s)) \/ SkipRecorded(p) \/ Save(p)
      PROVE  /\ pc[p] \in Unlisted /\ pc'[p] \in (Unlisted \ {"listing"}) \cup {"refused", "aborted"}
             /\ UNCHANGED loaded
  <2>1. CASE CheckNoExistingCampaign(p) \/ RefuseForeignLevel(p) \/ BeginExecution(p)
    BY <2>1 DEF CheckNoExistingCampaign, RefuseForeignLevel, BeginExecution, Goto, Running
  <2>2. CASE \E s \in Status : EndExecution(p, s)
    BY <2>2 DEF EndExecution, Goto, Running, Saving
  <2>3. CASE SkipRecorded(p)
    BY <2>3 DEF SkipRecorded, Goto, Running
  <2>4. CASE Save(p)
    BY <2>4 DEF Save, OpenRaw, WriteRaw, OpenTrace, WriteTrace, OpenEvaluation,
          WriteEvaluation, SaveStep, Goto, Running, Saving
  <2> QED  BY <1>3, <2>1, <2>2, <2>3, <2>4
<1>4. ASSUME FinishLoops(p)
      PROVE  /\ pc[p] = "selecting" /\ UNCHANGED <<loaded, next>>
             /\ (pc'[p] = "done" /\ next[p] = 1) \/ pc'[p] = "listing"
  BY <1>4 DEF FinishLoops, Goto
<1>5. ASSUME ListRecords(p)
      PROVE  /\ pc[p] = "listing" /\ pc'[p] = "loading" /\ UNCHANGED <<loaded, raw>>
             /\ pending'[p] = {r \in RunIds : raw[r].state # "absent"}
  BY <1>5 DEF ListRecords, ListRunIds, Exists, Goto, storeVars
<1>6. ASSUME NEW r \in RunIds, LoadNext(p, r)
      PROVE  /\ pc[p] = "loading" /\ UNCHANGED raw
             /\ \/ pc'[p] = "aborted"
                \/ /\ pc'[p] = "loading" /\ Recorded(r)
                   /\ pending'[p] = pending[p] \ {r}
                   /\ loaded'[p] = loaded[p] \cup ({r} \ Foreign)
  BY <1>6 DEF LoadNext, Loadable, Recorded, Goto, storeVars
<1>7. ASSUME OpenManifest(p)
      PROVE  /\ pc[p] = "loading" /\ pc'[p] = "write manifest"
             /\ pending[p] = {} /\ UNCHANGED <<loaded, pending, raw>>
  BY <1>7 DEF OpenManifest, Goto, storeVars
<1>8. ASSUME WriteManifest(p)
      PROVE  /\ pc[p] = "write manifest" /\ pc'[p] = "done" /\ UNCHANGED raw
             /\ manifest' = [state |-> "whole", runs |-> loaded[p]]
  BY <1>8 DEF WriteManifest, Goto, storeVars
<1>9. CASE Crash(p)
  BY <1>9 DEF Crash, Goto, Running, Saving
<1> HIDE DEF TypeInv, TypeOK
<1>10. CASE \E c \in Campaigns, m \in Modes : Start(p, c, m)
  BY <1>2, <1>10 DEF Running, Saving
<1>11. CASE \/ CheckNoExistingCampaign(p) \/ RefuseForeignLevel(p) \/ BeginExecution(p)
            \/ (\E s \in Status : EndExecution(p, s)) \/ SkipRecorded(p) \/ Save(p)
  BY <1>3, <1>11 DEF CoverInv, Running, Saving
<1>12. CASE FinishLoops(p)
  <2>1. pc[p] \in Unlisted /\ pc'[p] \notin {"loading", "write manifest"}
    BY <1>4, <1>12 DEF Running, Saving
  <2>2. ~(1 > 1)
    OBVIOUS
  <2>3. ~(pc'[p] = "done" /\ next'[p] > 1)
    BY <1>4, <1>12, <2>2
  <2> QED  BY <1>4, <1>12, <2>1, <2>3 DEF CoverInv
<1>13. CASE ListRecords(p)
  BY <1>5, <1>13 DEF CoverInv, Running, Saving, Recorded
<1>14. CASE \E r \in RunIds : LoadNext(p, r)
  <2>1. PICK r \in RunIds : LoadNext(p, r)
    BY <1>14
  <2>2. pc[p] = "loading" /\ \A x \in RunIds : Recorded(x)' <=> Recorded(x)
    BY <1>6, <2>1 DEF Recorded
  <2>3. /\ loaded[p] \subseteq {x \in RunIds : Recorded(x)} \ Foreign
        /\ \A x \in RunIds : Recorded(x) => x \in pending[p] \cup loaded[p] \cup Foreign
    BY <2>2 DEF CoverInv
  <2>4. CASE pc'[p] = "aborted"
    BY <2>4 DEF Running, Saving
  <2>5. CASE /\ pc'[p] = "loading" /\ Recorded(r)
             /\ pending'[p] = pending[p] \ {r}
             /\ loaded'[p] = loaded[p] \cup ({r} \ Foreign)
    <3>1. loaded'[p] \subseteq {x \in RunIds : Recorded(x)'} \ Foreign
      BY <2>2, <2>3, <2>5
    <3>2. \A x \in RunIds : Recorded(x)' => x \in pending'[p] \cup loaded'[p] \cup Foreign
      BY <2>2, <2>3, <2>5
    <3> QED  BY <2>5, <3>1, <3>2
  <2> QED  BY <1>6, <2>1, <2>4, <2>5
<1>15. CASE OpenManifest(p)
  BY <1>7, <1>15 DEF CoverInv, Running, Saving, Recorded
<1>16. CASE WriteManifest(p)
  <2>1. loaded[p] = {r \in RunIds : Recorded(r)} \ Foreign
    BY <1>8, <1>16 DEF CoverInv
  <2>2. \A r \in RunIds : Recorded(r)' <=> Recorded(r)
    BY <1>8, <1>16 DEF Recorded
  <2>3. {r \in RunIds : Recorded(r)'} = {r \in RunIds : Recorded(r)}
    BY <2>2
  <2>4. pc'[p] = "done"
    BY <1>8, <1>16
  <2> QED  BY <1>8, <1>16, <2>1, <2>3, <2>4 DEF Running, Saving
<1>17. \A q \in Invokers : q = p
  BY DEF OneInvoker
<1> QED  BY <1>1, <1>9, <1>10, <1>11, <1>12, <1>13, <1>14, <1>15, <1>16, <1>17
         DEF Next, Step

(* With one process at a time, the manifest a finished invocation leaves   *)
(* names every record of the level, other campaigns' and those of crashed  *)
(* invocations included.                                                   *)
THEOREM ManifestComplete == OneInvoker => (Spec => []ManifestCoversLevel)
<1> SUFFICES ASSUME OneInvoker PROVE Spec => []ManifestCoversLevel
  OBVIOUS
<1>1. Init => TypeInv /\ CoverInv
  <2>1. ASSUME Init PROVE CoverInv
    BY <2>1 DEF Init, CoverInv, Unlisted, Running, Saving
  <2> QED  BY <2>1, InitTypeInv
<1>2. TypeInv /\ CoverInv /\ [Next]_vars => (TypeInv /\ CoverInv)'
  BY NextTypeInv, NextCoverInv
<1>3. CoverInv => ManifestCoversLevel
  BY DEF CoverInv, ManifestCoversLevel
<1> QED  BY <1>1, <1>2, <1>3, PTL DEF Spec
=============================================================================
