------------------------- MODULE CampaignExport_proofs -------------------------
(***************************************************************************)
(* Theorems about CampaignExport: the export command around the campaigns  *)
(* of QuestionCampaign, for any plans, modes and question banks.           *)
(***************************************************************************)
EXTENDS CampaignExport, CampaignReports_proofs, FunctionTheorems

-----------------------------------------------------------------------------
(***************************************************************************)
(* The command drives the campaign as the campaign's own specification     *)
(* says, so what is proved of campaigns holds of commands.                 *)
(***************************************************************************)
LEMMA CampaignUnderneath == [ExportNext]_allVars => [Next]_vars
<1> SUFFICES ASSUME [ExportNext]_allVars PROVE [Next]_vars
  OBVIOUS
<1>1. CASE UNCHANGED allVars
  BY <1>1 DEF allVars
<1>2. ASSUME NEW p \in Invokers, NEW c \in Campaigns, NEW m \in Modes,
             StartCommand(p, c, m)
      PROVE  Next
  BY <1>2 DEF StartCommand, Next
<1>3. ASSUME NEW p \in Invokers, CampaignStep(p) PROVE Next
  BY <1>3 DEF CampaignStep, Next
<1>4. ASSUME NEW p \in Invokers, CrashCommand(p) PROVE Next \/ UNCHANGED vars
  BY <1>4 DEF CrashCommand, Next
<1>5. ASSUME NEW p \in Invokers,
             \/ LeaveCampaign(p) \/ LoadRecords(p) \/ WriteFile(p) \/ FinishWrite(p)
             \/ ValidateExport(p) \/ FinishCommand(p) \/ CheckOnly(p) \/ CrashWriting(p)
      PROVE  UNCHANGED vars
  BY <1>5 DEF LeaveCampaign, LoadRecords, WriteFile, FinishWrite, ValidateExport,
     FinishCommand, CheckOnly, CrashWriting
<1> QED  BY <1>1, <1>2, <1>3, <1>4, <1>5 DEF ExportNext, CommandStep

(* Every behaviour of the commands is one of the campaigns they run.       *)
THEOREM CommandsRunCampaigns == ExportSpec => Spec
<1>1. ExportInit => Init
  BY DEF ExportInit
<1> QED  BY <1>1, CampaignUnderneath, PTL DEF ExportSpec, Spec

(* No command replaces a record unforced, of plans that name runs once.    *)
THEOREM CommandsProtectRecords == DistinctPlans => (ExportSpec => OverwrittenOnlyByForce)
BY CommandsRunCampaigns, RecordsProtected

(* What a command reports of its campaign is true of the store.            *)
THEOREM CommandsReportTruly == DistinctPlans => (ExportSpec => ReportsMatchStore)
BY CommandsRunCampaigns, ReportsTrue

(* The manifest a command leaves names its whole level.                    *)
THEOREM CommandsListLevel == OneInvoker => (ExportSpec => []ManifestCoversLevel)
BY CommandsRunCampaigns, ManifestComplete

-----------------------------------------------------------------------------
(***************************************************************************)
(* A complete level.                                                       *)
(***************************************************************************)
Good(q) == Successful(RecordsOf(q, ListRunIds))
Repetitions(q) == {RepetitionOf[r] : r \in Good(q)}

(* At no moment has a level more than finitely many records.               *)
FiniteLevel == IsFiniteSet(ListRunIds)

(* The records of a level are finitely many at all times.                  *)
LEMMA SpecFiniteLevel == Spec => []FiniteLevel
<1>1. Init => FiniteLevel
  <2> SUFFICES ASSUME Init PROVE FiniteLevel
    OBVIOUS
  <2>1. ListRunIds = {}
    BY DEF Init, StoreInit, ListRunIds, Exists, NoFile
  <2> QED  BY <2>1, FS_EmptySet DEF FiniteLevel
<1>2. TypeInv /\ FiniteLevel /\ [Next]_vars => FiniteLevel'
  <2> SUFFICES ASSUME TypeInv, FiniteLevel, [Next]_vars PROVE FiniteLevel'
    OBVIOUS
  <2>1. PICK r : \A s \in RunIds : s # r => raw'[s] = raw[s]
    <3>1. CASE raw' = raw
      BY <3>1
    <3>2. CASE raw' # raw
      <4>1. PICK p \in Invokers : OpenRaw(p) \/ WriteRaw(p)
        BY <3>2, RawChanges
      <4>2. \/ raw' = [raw EXCEPT ![Current(p)] = TornFile]
            \/ raw' = [raw EXCEPT ![Current(p)] = FileOf(record[p])]
        BY <4>1 DEF OpenRaw, WriteRaw, TruncateRaw, FillRaw
      <4>3. raw \in [RunIds -> File]
        BY DEF TypeInv, TypeOK, StoreTypeOK
      <4> QED  BY <4>2, <4>3
    <3> QED  BY <3>1, <3>2
  <2>2. ListRunIds' \subseteq ListRunIds \cup {r}
    BY <2>1 DEF ListRunIds, Exists
  <2>3. IsFiniteSet(ListRunIds \cup {r})
    BY FS_AddElement DEF FiniteLevel
  <2>4. IsFiniteSet(ListRunIds')
    BY <2>2, <2>3, FS_Subset
  <2> QED  BY <2>4 DEF FiniteLevel
<1>3. Spec => []TypeInv
  BY InitTypeInv, NextTypeInv, PTL DEF Spec
<1> QED  BY <1>1, <1>2, <1>3, PTL DEF Spec

(* Of every question of a complete level, one COMPLETED record for each of *)
(* its repetitions, numbered through: together as many as there are, so    *)
(* there is no other.                                                      *)
LEMMA CompleteQuestions ==
    ASSUME FiniteLevel, IsComplete(Foreign)
    PROVE  \A q \in Bank :
              /\ Cardinality(Good(q)) = TargetRepetitions
              /\ \A r, s \in Good(q) : RepetitionOf[r] = RepetitionOf[s] => r = s
<1> DEFINE T == 1..TargetRepetitions
           runs == ListRunIds \ Foreign
           all == Successful(ListRunIds)
<1>1. Cardinality(Bank) = TargetQuestions /\ runs = ListRunIds
  BY DEF IsComplete, LevelIssues
<1>2. Cardinality(all) = TargetQuestions * TargetRepetitions
  BY <1>1 DEF IsComplete
<1>3. \A q \in Bank : Cardinality(Repetitions(q)) >= TargetRepetitions
  BY <1>1 DEF IsComplete, RepetitionsCompleted, Repetitions, Good
<1>4. IsFiniteSet(all) /\ \A q : Good(q) \subseteq all /\ IsFiniteSet(Good(q))
  <2>1. all \subseteq ListRunIds /\ \A q : Good(q) \subseteq all
    BY DEF Good, Successful, RecordsOf
  <2> QED  BY <2>1, FS_Subset DEF FiniteLevel
<1>5. \A q \in Bank : IsFiniteSet(Repetitions(q))
  <2> TAKE q \in Bank
  <2> DEFINE f == [r \in Good(q) |-> RepetitionOf[r]]
  <2>1. f \in Surjection(Good(q), Repetitions(q))
    BY DEF Surjection, Repetitions
  <2> QED  BY <1>4, <2>1, FS_Surjection
<1> DEFINE IsNumbering(q, g) ==
      /\ g \in [T -> Good(q)]
      /\ \A i, j \in T : RepetitionOf[g[i]] = RepetitionOf[g[j]] => i = j
<1>6. \A q \in Bank : \E g : IsNumbering(q, g)
  <2> TAKE q \in Bank
  <2> DEFINE n == Cardinality(Repetitions(q))
  <2>1. n \in Nat /\ ExistsBijection(1..n, Repetitions(q))
    BY <1>5, FS_CardinalityType
  <2>2. PICK b \in [1..n -> Repetitions(q)] : \A i, j \in 1..n : b[i] = b[j] => i = j
    BY <2>1 DEF ExistsBijection, Bijection, Injection, IsInjective
  <2>3. T \subseteq 1..n
    BY <1>3, <2>1, BankAssumption
  <2> DEFINE g == [i \in T |-> CHOOSE r \in Good(q) : RepetitionOf[r] = b[i]]
  <2>4. \A i \in T : g[i] \in Good(q) /\ RepetitionOf[g[i]] = b[i]
    <3> TAKE i \in T
    <3>1. b[i] \in Repetitions(q)
      BY <2>2, <2>3
    <3>2. \E r \in Good(q) : RepetitionOf[r] = b[i]
      BY <3>1 DEF Repetitions
    <3> QED  BY <3>2
  <2>5. g \in [T -> Good(q)]
    BY <2>4
  <2> HIDE DEF g
  <2>6. \A i, j \in T : RepetitionOf[g[i]] = RepetitionOf[g[j]] => i = j
    BY <2>2, <2>3, <2>4
  <2> QED  BY <2>5, <2>6
<1> DEFINE G == [q \in Bank |-> CHOOSE g : IsNumbering(q, g)]
<1>7. \A q \in Bank : IsNumbering(q, G[q])
  <2> HIDE DEF IsNumbering
  <2> QED  BY <1>6
<1> HIDE DEF G
<1> DEFINE H == [at \in Bank \X T |-> G[at[1]][at[2]]]
<1>8. \A q \in Bank, i \in T : /\ G[q][i] \in all
                               /\ QuestionOf[G[q][i]] = q
  <2> TAKE q \in Bank, i \in T
  <2>1. G[q] \in [T -> Good(q)]
    BY <1>7
  <2>2. G[q][i] \in Good(q)
    BY <2>1
  <2> QED  BY <1>4, <2>2 DEF Good, Successful, RecordsOf
<1>9. H \in Injection(Bank \X T, all)
  <2>1. H \in [Bank \X T -> all]
    BY <1>8
  <2>2. \A x, y \in Bank \X T : H[x] = H[y] => x = y
    <3> TAKE x, y \in Bank \X T
    <3>0. PICK q \in Bank, i \in T, u \in Bank, j \in T : x = <<q, i>> /\ y = <<u, j>>
      OBVIOUS
    <3> SUFFICES ASSUME G[q][i] = G[u][j] PROVE q = u /\ i = j
      BY <3>0
    <3>1. q = u
      BY <1>8
    <3>2. G[q] \in [T -> Good(q)] /\ G[q][i] = G[q][j]
      BY <1>7, <3>1
    <3> QED  BY <1>7, <3>1, <3>2
  <2> HIDE DEF H
  <2> QED  BY <2>1, <2>2, Fun_IsInj
<1>10. IsFiniteSet(T) /\ Cardinality(T) = TargetRepetitions
  BY FS_Interval, BankAssumption
<1>11. Cardinality(Bank \X T) = Cardinality(all)
  <2>1. IsFiniteSet(Bank)
    BY BankAssumption
  <2> HIDE DEF T, all
  <2>2. Cardinality(Bank \X T) = Cardinality(Bank) * Cardinality(T)
    BY <1>10, <2>1, FS_Product
  <2> QED  BY <1>1, <1>2, <1>10, <2>2
<1>12. H \in Surjection(Bank \X T, all)
  BY <1>4, <1>9, <1>11, FS_Injection
<1>13. ASSUME NEW q \in Bank, NEW r \in Good(q) PROVE \E i \in T : r = G[q][i]
  <2>1. r \in all /\ QuestionOf[r] = q
    BY <1>4 DEF Good, Successful, RecordsOf
  <2>2. PICK at \in Bank \X T : H[at] = r
    BY <1>12, <2>1 DEF Surjection
  <2>3. PICK u \in Bank, i \in T : r = G[u][i]
    BY <2>2
  <2>4. u = q
    BY <1>8, <2>1, <2>3
  <2> QED  BY <2>3, <2>4
<1>14. ASSUME NEW q \in Bank PROVE Cardinality(Good(q)) = TargetRepetitions
  <2>1. G[q] \in [T -> Good(q)] /\ \A i, j \in T : G[q][i] = G[q][j] => i = j
    BY <1>7
  <2>2. \A r \in Good(q) : \E i \in T : G[q][i] = r
    BY <1>13
  <2>3. G[q] \in Bijection(T, Good(q))
    <3> HIDE DEF T
    <3> QED  BY <2>1, <2>2, Fun_IsBij
  <2> QED  BY <1>10, <2>3, FS_Bijection DEF ExistsBijection
<1>15. ASSUME NEW q \in Bank, NEW r \in Good(q), NEW s \in Good(q),
              RepetitionOf[r] = RepetitionOf[s]
       PROVE  r = s
  BY <1>7, <1>13, <1>15
<1> QED  BY <1>14, <1>15

(* Whatever campaigns, crashes, forced reruns and duplicates led there: a  *)
(* level that counts as complete has, for every question of its bank,      *)
(* exactly the target number of COMPLETED records, of distinct             *)
(* repetitions; no surplus of one question stands in for another's lack.   *)
THEOREM CompletenessExact == ExportSpec => []CompleteIsExact
<1>1. FiniteLevel => CompleteIsExact
  BY CompleteQuestions DEF CompleteIsExact, Good
<1> QED  BY <1>1, CommandsRunCampaigns, SpecFiniteLevel, PTL

-----------------------------------------------------------------------------
(***************************************************************************)
(* Sorted: every plan has its runs sorted in exactly one row each.         *)
(***************************************************************************)
Less == {ss \in Nat \X Nat : ss[1] < ss[2]}

(* A non-empty set of numbers has a least one.                             *)
LEMMA LeastNumber ==
    ASSUME NEW T \in SUBSET Nat, T # {}
    PROVE  \E n \in T : \A m \in T : n <= m
<1>1. IsWellFoundedOn(Less, Nat)
  BY NatLessThanWellFounded DEF Less, OpToRel
<1>2. PICK least \in T : \A m \in T : <<m, least>> \notin Less
  BY <1>1, WFMin
<1>3. \A m \in T : ~(m < least)
  BY <1>2 DEF Less
<1>4. least \in Nat /\ \A m \in T : m \in Nat
  OBVIOUS
<1> QED  BY <1>3, <1>4

(* f puts the positions 1..n of s in an order in which s ascends.          *)
Sorts(f, s, n) ==
    /\ f \in [1..n -> 1..n]
    /\ \A i, j \in 1..n : f[i] = f[j] => i = j
    /\ \A j \in 1..n : \E i \in 1..n : f[i] = j
    /\ \A i, j \in 1..n : i < j => s[f[i]] <= s[f[j]]

(* The position past the end is inserted where it belongs.                 *)
LEMMA SortOneMore ==
    ASSUME NEW n \in Nat, NEW s \in [1..(n + 1) -> Nat], NEW g, Sorts(g, s, n)
    PROVE  \E f : Sorts(f, s, n + 1)
<1> DEFINE after == {i \in 1..(n + 1) : i = n + 1 \/ s[g[i]] > s[n + 1]}
<1>1. PICK k \in after : \A i \in after : k <= i
  <2>1. after # {} /\ after \in SUBSET Nat
    <3>1. n + 1 \in after
      OBVIOUS
    <3> QED  BY <3>1
  <2> HIDE DEF after
  <2> QED  BY <2>1, LeastNumber
<1>2. k \in 1..(n + 1)
  OBVIOUS
<1>3. \A i \in 1..n : g[i] \in 1..n /\ s[g[i]] \in Nat
  <2> TAKE i \in 1..n
  <2>1. g \in [1..n -> 1..n]
    BY DEF Sorts
  <2>2. g[i] \in 1..n
    BY <2>1
  <2>3. \A x \in 1..n : x \in 1..(n + 1)
    OBVIOUS
  <2> QED  BY <2>2, <2>3
<1>4. s[n + 1] \in Nat
  OBVIOUS
<1>5. \A i \in 1..n : i < k => s[g[i]] <= s[n + 1]
  BY <1>1, <1>2, <1>3, <1>4
<1>6. \A i \in 1..n : i >= k => s[g[i]] >= s[n + 1]
  <2> TAKE i \in 1..n
  <2> HAVE i >= k
  <2>1. k \in 1..n /\ s[g[k]] > s[n + 1]
    BY <1>1, <1>2
  <2>2. k = i \/ k < i
    BY <1>2
  <2>3. s[g[k]] <= s[g[i]]
    <3>1. s[g[i]] \in Nat
      BY <1>3
    <3>2. CASE k = i
      BY <3>1, <3>2
    <3>3. CASE k < i
      BY <2>1, <3>3 DEF Sorts
    <3> QED  BY <2>2, <3>2, <3>3
  <2> QED  BY <1>3, <1>4, <2>1, <2>3
<1> HIDE DEF after
<1> DEFINE f == [i \in 1..(n + 1) |-> IF i < k THEN g[i] ELSE IF i = k THEN n + 1 ELSE g[i - 1]]
<1>7. \A i \in 1..(n + 1) : /\ i < k => i \in 1..n /\ f[i] = g[i]
                            /\ i = k => f[i] = n + 1
                            /\ i > k => i - 1 \in 1..n /\ i - 1 >= k /\ f[i] = g[i - 1]
  BY <1>2
<1>8. f \in [1..(n + 1) -> 1..(n + 1)]
  BY <1>2, <1>3, <1>7
<1> HIDE DEF f
<1>9. \A i, j \in 1..(n + 1) : f[i] = f[j] => i = j
  <2> TAKE i, j \in 1..(n + 1)
  <2>1. i < k \/ i = k \/ i > k
    BY <1>2
  <2>2. j < k \/ j = k \/ j > k
    BY <1>2
  <2>3. \A x \in 1..n : g[x] # n + 1
    BY <1>3
  <2>4. \A x, y \in 1..n : g[x] = g[y] => x = y
    BY DEF Sorts
  <2>5. CASE i < k
    <3>1. i \in 1..n /\ f[i] = g[i]
      BY <1>7, <2>5
    <3>2. CASE j < k
      BY <1>7, <2>4, <3>1, <3>2
    <3>3. CASE j = k
      BY <1>7, <2>3, <3>1, <3>3
    <3>4. CASE j > k
      <4>1. j - 1 \in 1..n /\ j - 1 >= k /\ f[j] = g[j - 1]
        BY <1>7, <3>4
      <4>2. i # j - 1
        BY <1>2, <2>5, <4>1
      <4> QED  BY <2>4, <3>1, <4>1, <4>2
    <3> QED  BY <2>2, <3>2, <3>3, <3>4
  <2>6. CASE i = k
    BY <1>7, <2>2, <2>3, <2>6
  <2>7. CASE i > k
    <3>1. i - 1 \in 1..n /\ i - 1 >= k /\ f[i] = g[i - 1]
      BY <1>7, <2>7
    <3>2. CASE j < k
      <4>1. j \in 1..n /\ f[j] = g[j]
        BY <1>7, <3>2
      <4>2. j # i - 1
        BY <1>2, <3>1, <3>2
      <4> QED  BY <2>4, <3>1, <4>1, <4>2
    <3>3. CASE j = k
      BY <1>7, <2>3, <3>1, <3>3
    <3>4. CASE j > k
      <4>1. j - 1 \in 1..n /\ f[j] = g[j - 1]
        BY <1>7, <3>4
      <4>2. f[i] = f[j] => i - 1 = j - 1
        BY <2>4, <3>1, <4>1
      <4> QED  BY <4>2
    <3> QED  BY <2>2, <3>2, <3>3, <3>4
  <2> QED  BY <2>1, <2>5, <2>6, <2>7
<1>10. \A j \in 1..(n + 1) : \E i \in 1..(n + 1) : f[i] = j
  <2> TAKE j \in 1..(n + 1)
  <2>1. CASE j = n + 1
    BY <1>2, <1>7, <2>1
  <2>2. CASE j \in 1..n
    <3>1. PICK x \in 1..n : g[x] = j
      BY <2>2 DEF Sorts
    <3>2. CASE x < k
      BY <1>7, <3>1, <3>2
    <3>3. CASE x >= k
      <4>1. x + 1 \in 1..(n + 1) /\ x + 1 > k /\ (x + 1) - 1 = x
        BY <1>2, <3>3
      <4> QED  BY <1>7, <3>1, <4>1
    <3> QED  BY <1>2, <3>2, <3>3
  <2> QED  BY <2>1, <2>2
<1>11. \A i, j \in 1..(n + 1) : i < j => s[f[i]] <= s[f[j]]
  <2> TAKE i, j \in 1..(n + 1)
  <2> HAVE i < j
  <2>1. CASE i < k /\ j < k
    BY <1>7, <2>1 DEF Sorts
  <2>2. CASE i < k /\ j = k
    BY <1>5, <1>7, <2>2
  <2>3. CASE i < k /\ j > k
    <3>1. s[g[i]] <= s[n + 1] /\ s[g[j - 1]] >= s[n + 1]
      BY <1>5, <1>6, <1>7, <2>3
    <3>2. s[g[i]] \in Nat /\ s[g[j - 1]] \in Nat
      BY <1>3, <1>7, <2>3
    <3>3. f[i] = g[i] /\ f[j] = g[j - 1]
      BY <1>7, <2>3
    <3> QED  BY <1>4, <3>1, <3>2, <3>3
  <2>4. CASE i = k /\ j > k
    BY <1>6, <1>7, <2>4
  <2>5. CASE i > k /\ j > k
    <3>1. i - 1 \in 1..n /\ j - 1 \in 1..n /\ i - 1 < j - 1
      BY <1>7, <2>5
    <3>2. s[g[i - 1]] <= s[g[j - 1]]
      BY <3>1 DEF Sorts
    <3> QED  BY <1>7, <2>5, <3>2
  <2> QED  BY <1>2, <2>1, <2>2, <2>3, <2>4, <2>5
<1> QED  BY <1>8, <1>9, <1>10, <1>11 DEF Sorts

(* There is no shortest sequence of numbers that cannot be sorted.         *)
LEMMA SortingExists ==
    \A n \in Nat : \A s \in [1..n -> Nat] : \E f : Sorts(f, s, n)
<1> DEFINE Unsortable == {n \in Nat : \E s \in [1..n -> Nat] : \A f : ~Sorts(f, s, n)}
<1> SUFFICES ASSUME Unsortable # {} PROVE FALSE
  OBVIOUS
<1>1. PICK n \in Unsortable : \A m \in Unsortable : n <= m
  <2>1. Unsortable \in SUBSET Nat
    OBVIOUS
  <2> HIDE DEF Unsortable
  <2> QED  BY <2>1, LeastNumber
<1>2. n \in Nat
  OBVIOUS
<1>3. PICK s \in [1..n -> Nat] : \A f : ~Sorts(f, s, n)
  OBVIOUS
<1>4. CASE n = 0
  <2> DEFINE f == [i \in 1..0 |-> i]
  <2>1. Sorts(f, s, 0)
    BY DEF Sorts
  <2> QED  BY <1>3, <1>4, <2>1
<1>5. CASE n # 0
  <2> DEFINE m == n - 1
             t == [i \in 1..m |-> s[i]]
  <2>1. m \in Nat /\ n = m + 1 /\ ~(n <= m)
    BY <1>2, <1>5
  <2>2. t \in [1..m -> Nat]
    BY <2>1
  <2>3. m \notin Unsortable
    BY <1>1, <2>1
  <2>4. PICK g : Sorts(g, t, m)
    <3> HIDE DEF m, t
    <3> QED  BY <2>1, <2>2, <2>3
  <2>5. \A i \in 1..m : t[i] = s[i]
    OBVIOUS
  <2> HIDE DEF m, t
  <2>6. Sorts(g, s, m)
    BY <2>4, <2>5 DEF Sorts
  <2>7. \E f : Sorts(f, s, n)
    BY <1>3, <2>1, <2>6, SortOneMore
  <2> QED  BY <1>3, <2>7
<1> QED  BY <1>4, <1>5

(* The sorted runs are the runs, each at a position of its own.            *)
LEMMA SortedRuns ==
    ASSUME NEW runs \in Seq(RunIds)
    PROVE  /\ Sorted(runs) \in Seq(RunIds)
           /\ Len(Sorted(runs)) = Len(runs)
           /\ \E f \in Bijection(1..Len(runs), 1..Len(runs)) :
                 \A i \in 1..Len(runs) : Sorted(runs)[i] = runs[f[i]]
<1> DEFINE n == Len(runs)
           D == DOMAIN runs
           Ascends(f) == \A i, j \in D : i < j => runs[f[i]] <= runs[f[j]]
           order == CHOOSE f \in Bijection(D, D) : Ascends(f)
<1>1. n \in Nat /\ D = 1..n /\ runs \in [1..n -> RunIds]
  OBVIOUS
<1>2. runs \in [1..n -> Nat]
  BY <1>1, RunIdsAssumption
<1>3. PICK f : Sorts(f, runs, n)
  BY <1>1, <1>2, SortingExists
<1>4. f \in Bijection(D, D) /\ Ascends(f)
  BY <1>1, <1>3, Fun_IsBij DEF Sorts
<1>5. order \in Bijection(D, D)
  <2> HIDE DEF Ascends, D
  <2> QED  BY <1>4
<1>6. Sorted(runs) = [i \in D |-> runs[order[i]]]
  BY DEF Sorted
<1> HIDE DEF order
<1>7. order \in [1..n -> 1..n]
  BY <1>1, <1>5 DEF Bijection, Injection
<1>8. Sorted(runs) \in [1..n -> RunIds]
  BY <1>1, <1>6, <1>7
<1>9. Sorted(runs) \in Seq(RunIds) /\ Len(Sorted(runs)) = n
  BY <1>1, <1>8
<1> QED  BY <1>1, <1>5, <1>6, <1>9

-----------------------------------------------------------------------------
(***************************************************************************)
(* The export tree.                                                        *)
(***************************************************************************)
Content == [state : {"absent", "torn", "whole"}, rows : Seq(CanonicalRecord)]

ExportTypes ==
    /\ stage \in [Invokers -> Stages]
    /\ rows \in [Invokers -> Seq(CanonicalRecord)]
    /\ written \in [Invokers -> Nat]
    /\ tree \in [Campaigns -> [Files -> Content]]
    /\ verdict \in [Campaigns -> {"none", "OK", "ISSUES"}]
    /\ exit \in [Invokers -> {"none", "killed", "0", "1", "2"}]

(* Where the elements of two joined sequences are.                         *)
LEMMA Joined ==
    ASSUME NEW S, NEW s \in Seq(S), NEW t \in Seq(S)
    PROVE  /\ s \o t \in Seq(S)
           /\ Len(s \o t) = Len(s) + Len(t)
           /\ \A i \in 1..Len(s) : (s \o t)[i] = s[i]
           /\ \A i \in 1..Len(t) : (s \o t)[Len(s) + i] = t[i]
OBVIOUS

(* The files of some rows, in the order they are written: six required     *)
(* ones, two of each row, two required ones.                               *)
LEMMA WritesAt ==
    ASSUME NEW rs \in Seq(CanonicalRecord)
    PROVE  /\ Writes(rs) \in Seq(Files)
           /\ Len(Writes(rs)) = (6 + 2 * Len(rs)) + 2
           /\ \A k \in 1..6 : Writes(rs)[k] = Required(BeforeExecutions[k])
           /\ \A k \in 1..(2 * Len(rs)) : \E i \in 1..Len(rs) :
                 /\ Writes(rs)[6 + k].name \in PerExecution
                 /\ Writes(rs)[6 + k].run = rs[i].run
           /\ \A k \in 1..2 :
                 Writes(rs)[(6 + 2 * Len(rs)) + k] = Required(AfterExecutions[k])
<1> DEFINE n == Len(rs)
           before == [i \in DOMAIN BeforeExecutions |-> Required(BeforeExecutions[i])]
           of == PerExecutionFiles(rs)
           after == [i \in DOMAIN AfterExecutions |-> Required(AfterExecutions[i])]
<1>1. n \in Nat /\ \A i \in 1..n : rs[i] \in CanonicalRecord
  OBVIOUS
<1>2. DOMAIN BeforeExecutions = 1..6 /\ \A i \in 1..6 : BeforeExecutions[i] \in RequiredFiles
  BY DEF BeforeExecutions, RequiredFiles, ToSet
<1>3. DOMAIN AfterExecutions = 1..2 /\ \A i \in 1..2 : AfterExecutions[i] \in RequiredFiles
  BY DEF AfterExecutions, RequiredFiles, ToSet
<1>4. before \in Seq(Files) /\ Len(before) = 6 /\ \A k \in 1..6 : before[k] = Required(BeforeExecutions[k])
  <2>1. before \in [1..6 -> Files]
    BY <1>2 DEF Files
  <2> QED  BY <1>2, <2>1
<1>5. after \in Seq(Files) /\ Len(after) = 2 /\ \A k \in 1..2 : after[k] = Required(AfterExecutions[k])
  <2>1. after \in [1..2 -> Files]
    BY <1>3 DEF Files
  <2> QED  BY <1>3, <2>1
<1>6. \A k \in 1..(2 * n) : \E i \in 1..n :
          of[k].name \in PerExecution /\ of[k].run = rs[i].run /\ of[k] \in Files
  <2> TAKE k \in 1..(2 * n)
  <2>1. (k + 1) \div 2 \in 1..n
    BY <1>1
  <2>2. rs[(k + 1) \div 2].run \in RunIds
    BY <1>1, <2>1 DEF CanonicalRecord
  <2>3. of[k] = [name |-> IF k % 2 = 1 THEN "q_and_a" ELSE "traces",
                 run  |-> rs[(k + 1) \div 2].run]
    BY DEF PerExecutionFiles
  <2>4. of[k].name \in PerExecution /\ of[k].run = rs[(k + 1) \div 2].run
    BY <2>3 DEF PerExecution
  <2>5. of[k] \in Files
    BY <2>2, <2>3 DEF Files, PerExecution
  <2> QED  BY <2>1, <2>4, <2>5
<1>7. of \in Seq(Files) /\ Len(of) = 2 * n
  <2>1. of \in [1..(2 * n) -> Files]
    <3>1. DOMAIN of = 1..(2 * n) /\ of = [k \in 1..(2 * n) |-> of[k]]
      BY DEF PerExecutionFiles
    <3> HIDE DEF of
    <3> QED  BY <1>6, <3>1
  <2> HIDE DEF of
  <2> QED  BY <1>1, <2>1
<1> HIDE DEF before, of, after
<1>8. /\ before \o of \in Seq(Files) /\ Len(before \o of) = 6 + 2 * n
      /\ \A k \in 1..6 : (before \o of)[k] = before[k]
      /\ \A k \in 1..(2 * n) : (before \o of)[6 + k] = of[k]
  <2>1. /\ before \o of \in Seq(Files) /\ Len(before \o of) = Len(before) + Len(of)
        /\ \A k \in 1..Len(before) : (before \o of)[k] = before[k]
        /\ \A k \in 1..Len(of) : (before \o of)[Len(before) + k] = of[k]
    <3>1. before \in Seq(Files) /\ of \in Seq(Files)
      BY <1>4, <1>7
    <3> QED  BY <3>1, Joined
  <2> QED  BY <1>1, <1>4, <1>7, <2>1
<1> DEFINE most == before \o of
<1>9. Writes(rs) = most \o after
  BY DEF Writes, before, of, after
<1>a. most \in Seq(Files) /\ Len(most) = 6 + 2 * n
  BY <1>8
<1>b. \A k \in 1..6 : most[k] = Required(BeforeExecutions[k])
  BY <1>4, <1>8
<1>c. \A k \in 1..(2 * n) : most[6 + k] = of[k]
  BY <1>8
<1> HIDE DEF most
<1>10. /\ Writes(rs) \in Seq(Files) /\ Len(Writes(rs)) = (6 + 2 * n) + 2
       /\ \A k \in 1..(6 + 2 * n) : Writes(rs)[k] = most[k]
       /\ \A k \in 1..2 : Writes(rs)[(6 + 2 * n) + k] = after[k]
  <2>1. /\ most \o after \in Seq(Files) /\ Len(most \o after) = Len(most) + Len(after)
        /\ \A k \in 1..Len(most) : (most \o after)[k] = most[k]
        /\ \A k \in 1..Len(after) : (most \o after)[Len(most) + k] = after[k]
    <3>1. most \in Seq(Files) /\ after \in Seq(Files)
      BY <1>5, <1>a
    <3> QED  BY <3>1, Joined
  <2> QED  BY <1>5, <1>9, <1>a, <2>1
<1>11. \A k \in 1..6 : Writes(rs)[k] = Required(BeforeExecutions[k])
  BY <1>1, <1>10, <1>b
<1>12. \A k \in 1..(2 * n) : Writes(rs)[6 + k] = of[k]
  BY <1>1, <1>10, <1>c
<1>13. \A k \in 1..2 : Writes(rs)[(6 + 2 * n) + k] = Required(AfterExecutions[k])
  BY <1>5, <1>10
<1>14. \A k \in 1..(2 * n) : \E i \in 1..n :
          Writes(rs)[6 + k].name \in PerExecution /\ Writes(rs)[6 + k].run = rs[i].run
  BY <1>6, <1>12
<1> QED  BY <1>1, <1>10, <1>11, <1>13, <1>14

(* What the next write of a process is, and puts there.                    *)
NextFile(p) == Writes(rows[p])[written[p] + 1]

(* Every write of a file, and every kill within one, leaves it typed.      *)
LEMMA NextFileTypes ==
    ASSUME ExportTypes, NEW p \in Invokers, written[p] < Len(Writes(rows[p]))
    PROVE  /\ NextFile(p) \in Files
           /\ NextFile(p).name \in PerExecution =>
                 \E x \in ToSet(rows[p]) : /\ x.run = NextFile(p).run
                                           /\ ContentOf(NextFile(p), rows[p]) = <<x>>
           /\ ContentOf(NextFile(p), rows[p]) \in Seq(CanonicalRecord)
<1> DEFINE rs == rows[p]
           k == written[p] + 1
           f == NextFile(p)
<1>1. rs \in Seq(CanonicalRecord) /\ written[p] \in Nat
  BY DEF ExportTypes
<1>2. Writes(rs) \in Seq(Files) /\ Len(Writes(rs)) = (6 + 2 * Len(rs)) + 2 /\ Len(rs) \in Nat
  BY <1>1, WritesAt
<1>3. k \in 1..Len(Writes(rs))
  BY <1>1, <1>2
<1>4. f \in Files
  BY <1>2, <1>3 DEF NextFile
<1>5. \A x \in ToSet(rs) : x \in CanonicalRecord
  BY <1>1 DEF ToSet
<1>6. ASSUME f.name \in PerExecution PROVE \E x \in ToSet(rs) : x.run = f.run
  <2>1. \A n \in RequiredFiles : Required(n).name \notin PerExecution
    BY DEF RequiredFiles, Required, PerExecution, ToSet, BeforeExecutions, AfterExecutions
  <2>2. CASE k <= 6
    <3>1. k \in 1..6
      BY <1>1, <2>2
    <3>2. f = Required(BeforeExecutions[k])
      BY <1>1, <3>1, WritesAt DEF NextFile
    <3>3. BeforeExecutions[k] \in RequiredFiles
      BY <3>1 DEF RequiredFiles, ToSet, BeforeExecutions
    <3> QED  BY <1>6, <2>1, <3>2, <3>3
  <2>3. CASE k > 6 /\ k <= 6 + 2 * Len(rs)
    <3> DEFINE j == k - 6
    <3>1. j \in 1..(2 * Len(rs)) /\ 6 + j = k
      BY <1>1, <1>2, <2>3
    <3>2. \E i \in 1..Len(rs) : Writes(rs)[6 + j].run = rs[i].run
      <4> HIDE DEF j
      <4> QED  BY <1>1, <3>1, WritesAt
    <3>3. PICK i \in 1..Len(rs) : f.run = rs[i].run
      BY <3>1, <3>2 DEF NextFile
    <3>4. rs[i] \in ToSet(rs)
      BY <1>1 DEF ToSet
    <3> QED  BY <3>3, <3>4
  <2>4. CASE k > 6 + 2 * Len(rs)
    <3> DEFINE j == k - (6 + 2 * Len(rs))
    <3>1. j \in 1..2 /\ (6 + 2 * Len(rs)) + j = k
      BY <1>1, <1>2, <1>3, <2>4
    <3>2. Writes(rs)[(6 + 2 * Len(rs)) + j] = Required(AfterExecutions[j])
      <4> HIDE DEF j
      <4> QED  BY <1>1, <3>1, WritesAt
    <3>3. f = Required(AfterExecutions[j])
      BY <3>1, <3>2 DEF NextFile
    <3>4. AfterExecutions[j] \in RequiredFiles
      BY <3>1 DEF RequiredFiles, ToSet, AfterExecutions
    <3> QED  BY <1>6, <2>1, <3>3, <3>4
  <2> QED  BY <1>1, <1>2, <2>2, <2>3, <2>4
<1> HIDE DEF f
<1>7. ASSUME f.name \in PerExecution
      PROVE  \E x \in ToSet(rs) : x.run = f.run /\ ContentOf(f, rs) = <<x>>
  <2> DEFINE x == CHOOSE y \in ToSet(rs) : y.run = f.run
  <2>1. x \in ToSet(rs) /\ x.run = f.run
    BY <1>6, <1>7
  <2>2. ContentOf(f, rs) = <<x>>
    BY <1>7 DEF ContentOf
  <2> QED  BY <2>1, <2>2
<1>8. ContentOf(f, rs) \in Seq(CanonicalRecord)
  <2>1. CASE f.name \in PerExecution
    <3>1. PICK x \in ToSet(rs) : ContentOf(f, rs) = <<x>>
      BY <1>7, <2>1
    <3>2. x \in CanonicalRecord
      BY <1>5
    <3> QED  BY <3>1, <3>2
  <2>2. CASE f.name \notin PerExecution
    BY <1>1, <2>2 DEF ContentOf
  <2> QED  BY <2>1, <2>2
<1> QED  BY <1>4, <1>7, <1>8 DEF f

(* At first nothing is exported and no command is under way.               *)
LEMMA InitExportTypes == ExportInit => ExportTypes
<1> SUFFICES ASSUME ExportInit PROVE ExportTypes
  OBVIOUS
<1>1. Absent \in Content
  BY DEF Absent, Content
<1>2. tree \in [Campaigns -> [Files -> Content]]
  BY <1>1 DEF ExportInit
<1> QED  BY <1>2 DEF ExportInit, ExportTypes, Stages

(* What a campaign's records are exported as.                              *)
LEMMA RowTypes ==
    ASSUME TypeOK, NEW runs \in Seq(RunIds)
    PROVE  [i \in DOMAIN runs |-> BuildCanonicalRecord(runs[i])] \in Seq(CanonicalRecord)
<1>1. \A r \in RunIds : BuildCanonicalRecord(r) \in CanonicalRecord
  BY DEF BuildCanonicalRecord, CanonicalRecord, TypeOK, StoreTypeOK, File
<1>2. \A i \in 1..Len(runs) : runs[i] \in RunIds
  OBVIOUS
<1>3. [i \in 1..Len(runs) |-> BuildCanonicalRecord(runs[i])] \in [1..Len(runs) -> CanonicalRecord]
  BY <1>1, <1>2
<1>4. Len(runs) \in Nat /\ DOMAIN runs = 1..Len(runs)
  OBVIOUS
<1> QED  BY <1>3, <1>4

(* One file of a tree is replaced.                                         *)
LEMMA TreeChange ==
    ASSUME NEW t \in [Campaigns -> [Files -> Content]], NEW c, NEW f, NEW new \in Content
    PROVE  [t EXCEPT ![c][f] = new] \in [Campaigns -> [Files -> Content]]
<1>1. CASE c \in Campaigns
  <2>1. t[c] \in [Files -> Content]
    BY <1>1
  <2>2. [t[c] EXCEPT ![f] = new] \in [Files -> Content]
    BY <2>1
  <2> QED  BY <2>2
<1>2. CASE c \notin Campaigns
  BY <1>2
<1> QED  BY <1>1, <1>2

(* ExportTypes is inductive: one step per action.                          *)
LEMMA NextExportTypes == TypeOK /\ ExportTypes /\ [ExportNext]_allVars => ExportTypes'
<1> SUFFICES ASSUME TypeOK, ExportTypes, [ExportNext]_allVars PROVE ExportTypes'
  OBVIOUS
<1>1. CASE UNCHANGED allVars
  BY <1>1 DEF allVars, exportVars, ExportTypes
<1>2. ASSUME NEW p \in Invokers, NEW c \in Campaigns, NEW m \in Modes,
             StartCommand(p, c, m)
      PROVE  ExportTypes'
  BY <1>2 DEF StartCommand, Enter, ExportTypes, Stages
<1>3. ASSUME NEW p \in Invokers, CampaignStep(p) PROVE ExportTypes'
  BY <1>3 DEF CampaignStep, exportVars, ExportTypes
<1>4. ASSUME NEW p \in Invokers,
             LeaveCampaign(p) \/ FinishWrite(p) \/ FinishCommand(p) \/ CheckOnly(p)
      PROVE  ExportTypes'
  BY <1>4 DEF LeaveCampaign, FinishWrite, FinishCommand, CheckOnly, Enter,
     ExportTypes, Stages
<1>5. ASSUME NEW p \in Invokers, LoadRecords(p) PROVE ExportTypes'
  <2> DEFINE runs == Sorted(Plan[campaign[p]])
             built == [i \in DOMAIN runs |-> BuildCanonicalRecord(runs[i])]
  <2>1. runs \in Seq(RunIds)
    <3>1. Plan[campaign[p]] \in Seq(RunIds)
      BY CampaignAssumption DEF TypeOK
    <3> QED  BY <3>1, SortedRuns
  <2>2. built \in Seq(CanonicalRecord)
    <3> HIDE DEF runs
    <3> QED  BY <2>1, RowTypes
  <2>3. rows' = [rows EXCEPT ![p] = built] \/ rows' = rows
    BY <1>5 DEF LoadRecords
  <2> HIDE DEF built
  <2>4. rows' \in [Invokers -> Seq(CanonicalRecord)]
    BY <2>2, <2>3 DEF ExportTypes
  <2> QED  BY <1>5, <2>4 DEF LoadRecords, LoadErrors, Enter, ExportTypes, Stages
<1>6. ASSUME NEW p \in Invokers, WriteFile(p) PROVE ExportTypes'
  <2> DEFINE new == Whole(ContentOf(NextFile(p), rows[p]))
  <2>1. new \in Content
    BY <1>6, NextFileTypes DEF WriteFile, Whole, Content
  <2>2. tree' = tree \/ tree' = [tree EXCEPT ![campaign[p]][NextFile(p)] = new]
    BY <1>6 DEF WriteFile, NextFile
  <2> HIDE DEF new
  <2>3. tree' \in [Campaigns -> [Files -> Content]]
    <3>1. tree \in [Campaigns -> [Files -> Content]]
      BY DEF ExportTypes
    <3>2. [tree EXCEPT ![campaign[p]][NextFile(p)] = new] \in [Campaigns -> [Files -> Content]]
      BY <2>1, <3>1, TreeChange
    <3> QED  BY <2>2, <3>1, <3>2
  <2>4. written' \in [Invokers -> Nat]
    BY <1>6 DEF WriteFile, ExportTypes
  <2> QED  BY <1>6, <2>3, <2>4 DEF WriteFile, ExportTypes
<1>7. ASSUME NEW p \in Invokers, ValidateExport(p) PROVE ExportTypes'
  BY <1>7 DEF ValidateExport, Enter, ExportTypes, Stages
<1>8. ASSUME NEW p \in Invokers, CrashCommand(p) PROVE ExportTypes'
  BY <1>8 DEF CrashCommand, Enter, ExportTypes, Stages
<1>9. ASSUME NEW p \in Invokers, CrashWriting(p) PROVE ExportTypes'
  <2>1. Torn \in Content
    BY DEF Torn, Content
  <2>2. tree' = [tree EXCEPT ![campaign[p]][NextFile(p)] = Torn]
    BY <1>9 DEF CrashWriting, NextFile
  <2>3. tree' \in [Campaigns -> [Files -> Content]]
    BY <2>1, <2>2, TreeChange DEF ExportTypes
  <2> QED  BY <1>9, <2>3 DEF CrashWriting, Enter, ExportTypes, Stages
<1> QED  BY <1>1, <1>2, <1>3, <1>4, <1>5, <1>6, <1>7, <1>8, <1>9 DEF ExportNext, CommandStep

(* Types of the campaign and of the commands around it, together.          *)
LEMMA SpecExportTypes == ExportSpec => [](TypeOK /\ ExportTypes)
BY InitExportTypes, NextExportTypes, CommandsRunCampaigns, TypeCorrect, PTL DEF ExportSpec

(* Every export tree holds files of rows of its own level's records, each  *)
(* absent, torn or whole, whatever invocations wrote it and died over it.  *)
THEOREM ExportTypeCorrect == ExportSpec => []ExportTypeOK
<1>1. TypeOK /\ ExportTypes => ExportTypeOK
  BY DEF ExportTypes, ExportTypeOK, Content
<1> QED  BY <1>1, SpecExportTypes, PTL

(* A file of one execution, once it is whole, is never changed again, by   *)
(* whatever later or concurrent invocations, forced reruns and crashes     *)
(* come after it; nor is it removed.                                       *)
THEOREM PerExecutionFilesKept == ExportSpec => ExportedOnce
<1> DEFINE Kept == \A c \in Campaigns, f \in [name : PerExecution, run : RunIds] :
                      tree[c][f].state = "whole" => tree'[c][f] = tree[c][f]
<1>1. ExportTypes /\ [ExportNext]_allVars => [Kept]_allVars
  <2> SUFFICES ASSUME ExportTypes, ExportNext,
                      NEW c \in Campaigns, NEW f \in [name : PerExecution, run : RunIds],
                      tree[c][f].state = "whole"
               PROVE  tree'[c][f] = tree[c][f]
    OBVIOUS
  <2>1. f.name \in PerExecution /\ ~(tree[c][f].state = "absent")
    OBVIOUS
  <2>2. PICK p \in Invokers :
          \/ tree' = tree
          \/ \E new : /\ ~Keeps(campaign[p], NextFile(p))
                      /\ tree' = [tree EXCEPT ![campaign[p]][NextFile(p)] = new]
    BY DEF ExportNext, CommandStep, StartCommand, CampaignStep, LeaveCampaign,
       LoadRecords, WriteFile, FinishWrite, ValidateExport, FinishCommand, CheckOnly,
       CrashCommand, CrashWriting, NextFile, exportVars
  <2>3. ASSUME NEW new, ~Keeps(campaign[p], NextFile(p)),
               tree' = [tree EXCEPT ![campaign[p]][NextFile(p)] = new]
        PROVE  tree'[c][f] = tree[c][f]
    <3>1. ~(c = campaign[p] /\ f = NextFile(p))
      BY <2>1, <2>3 DEF Keeps
    <3> QED  BY <2>3, <3>1 DEF ExportTypes
  <2> QED  BY <2>2, <2>3
<1> QED  BY <1>1, SpecExportTypes, PTL DEF ExportSpec, ExportedOnce

-----------------------------------------------------------------------------
(***************************************************************************)
(* One command at a time: between the report of a campaign and the exit    *)
(* code nothing else touches the store or the tree.                        *)
(***************************************************************************)
LEMMA StepRuns ==
    ASSUME NEW p \in Invokers, Step(p) \/ Crash(p)
    PROVE  pc[p] \in Running
BY DEF Step, Crash, CheckNoExistingCampaign, RefuseForeignLevel, SkipRecorded,
   BeginExecution, EndExecution, Save, OpenRaw, WriteRaw, OpenTrace, WriteTrace,
   OpenEvaluation, WriteEvaluation, SaveStep, FinishLoops, ListRecords, LoadNext,
   OpenManifest, WriteManifest, Running, Saving

(* With one process, while its campaign rests, only a start moves it.      *)
LEMMA RestingStep ==
    ASSUME OneInvoker, NEW p \in Invokers, pc[p] \in Ended, [Next]_vars
    PROVE  UNCHANGED vars \/ \E c \in Campaigns, m \in Modes : Start(p, c, m)
<1>1. \A q \in Invokers : q = p
  BY DEF OneInvoker
<1>2. pc[p] \notin Running
  BY DEF Ended, Running, Saving
<1> QED  BY <1>1, <1>2, StepRuns DEF Next

(* What an invocation counted stays what the store holds of its plan.      *)
DoneInv == \A p \in Invokers : pc[p] = "done" => CountedOne(p) /\ ~HasNext(p)

(* DoneInv is inductive, while one command runs at a time.                 *)
LEMMA NextDoneInv ==
    ASSUME OneInvoker, TypeInv, CountInv, DoneInv, [Next]_vars
    PROVE  DoneInv'
<1> SUFFICES ASSUME NEW p \in Invokers, pc'[p] = "done"
             PROVE  CountedOne(p)' /\ ~HasNext(p)'
  BY DEF DoneInv
<1>1. CASE pc[p] = "done"
  <2>1. CountedOne(p) /\ ~HasNext(p)
    BY <1>1 DEF DoneInv
  <2>2. UNCHANGED vars \/ \E c \in Campaigns, m \in Modes : Start(p, c, m)
    BY <1>1, RestingStep DEF Ended
  <2>3. ASSUME NEW c \in Campaigns, NEW m \in Modes, Start(p, c, m) PROVE FALSE
    BY <2>3 DEF Start, Goto, TypeInv, TypeOK
  <2>4. UNCHANGED vars
    BY <2>2, <2>3
  <2> QED  BY <2>1, <2>4 DEF vars, storeVars, invokerVars, CountedOne, Behind, With,
              Positions, Recorded, HasNext
<1>2. CASE pc[p] # "done"
  <2>1. pc[p] \in Running /\ ~HasNext(p) /\ UNCHANGED <<raw, campaign, next, tally>>
    BY <1>2, ReportStep DEF OneInvoker
  <2>2. CountedOne(p)
    BY <2>1 DEF CountInv, Counted
  <2> QED  BY <2>1, <2>2 DEF CountedOne, Behind, With, Positions, Recorded, HasNext
<1> QED  BY <1>1, <1>2

(* DoneInv holds of every behaviour with one command at a time.            *)
LEMMA SpecDoneInv ==
    OneInvoker /\ DistinctPlans => (ExportSpec => [](TypeInv /\ DoneInv))
<1> SUFFICES ASSUME OneInvoker, DistinctPlans PROVE ExportSpec => [](TypeInv /\ DoneInv)
  OBVIOUS
<1>1. Init => DoneInv
  BY DEF Init, DoneInv
<1>2. TypeInv /\ CountInv /\ DoneInv /\ [Next]_vars => DoneInv'
  BY NextDoneInv
<1>3. ProtectInv => TypeInv
  BY DEF ProtectInv
<1> QED  BY <1>1, <1>2, <1>3, SpecCountInv, CommandsRunCampaigns, PTL DEF Spec

(* A finished invocation without a failed run has COMPLETED all of them.   *)
LEMMA NoneFailed ==
    ASSUME TypeInv, DoneInv, NEW p \in Invokers, pc[p] = "done", ~(tally[p].failed > 0)
    PROVE  \A r \in Planned(campaign[p]) : raw[r].status = "COMPLETED"
<1> DEFINE c == campaign[p]
<1>0. TypeOK
  BY DEF TypeInv
<1>1. CountedOne(p) /\ ~HasNext(p)
  BY DEF DoneInv
<1>2. Behind(p) = 1..Len(Plan[c])
  BY <1>0, <1>1, CountersOfPlan
<1>3. IsFiniteSet(With(p, "FAILED"))
  <2>1. With(p, "FAILED") \in SUBSET Positions(p)
    BY DEF With, Behind
  <2> QED  BY <1>0, <2>1, PositionsFinite
<1>4. tally[p].failed = 0
  BY <1>0 DEF TypeOK
<1>5. With(p, "FAILED") = {}
  BY <1>1, <1>3, <1>4, FS_EmptySet DEF CountedOne
<1>6. Plan[c] \in Seq(RunIds)
  BY <1>0, PositionsFinite
<1>7. ASSUME NEW i \in 1..Len(Plan[c]) PROVE raw[Plan[c][i]].status = "COMPLETED"
  <2>1. raw[Plan[c][i]].status \in Status
    <3>1. Plan[c][i] \in RunIds
      BY <1>6
    <3> QED  BY <1>0, <3>1 DEF TypeOK, StoreTypeOK, File
  <2>2. raw[Plan[c][i]].status # "FAILED"
    BY <1>2, <1>5 DEF With
  <2> QED  BY <2>1, <2>2 DEF Status
<1> QED  BY <1>7 DEF Planned

(* A command reaches its exit code with the store as its campaign left it. *)
LEMMA NextExitZero ==
    ASSUME OneInvoker, TypeInv, ExportTypes, DoneInv, ExitZeroMeansCompleted,
           [ExportNext]_allVars
    PROVE  ExitZeroMeansCompleted'
<1> SUFFICES ASSUME NEW p \in Invokers, stage'[p] = "idle", pc'[p] = "done", exit'[p] = "0"
             PROVE  \/ (\A r \in Planned(campaign[p]) : raw[r].status = "COMPLETED")'
                    \/ IsComplete(Foreign)'
  BY DEF ExitZeroMeansCompleted
<1> USE DEF ExportTypes
<1>0. \A q \in Invokers : q = p
  BY DEF OneInvoker
<1>1. ASSUME UNCHANGED <<raw, campaign>>,
             \/ \A r \in Planned(campaign[p]) : raw[r].status = "COMPLETED"
             \/ IsComplete(Foreign)
      PROVE  \/ (\A r \in Planned(campaign[p]) : raw[r].status = "COMPLETED")'
             \/ IsComplete(Foreign)'
  BY <1>1 DEF Planned, IsComplete, LevelIssues, ListRunIds, Exists, DuplicateRepetitions,
     RepetitionsCompleted, Successful, RecordsOf
<1>2. CASE UNCHANGED allVars
  BY <1>1, <1>2 DEF allVars, vars, storeVars, invokerVars, exportVars,
     ExitZeroMeansCompleted
<1>3. CASE FinishCommand(p)
  <2>1. pc[p] = "done" /\ UNCHANGED <<raw, campaign>> /\ ~(tally[p].failed > 0)
    BY <1>3 DEF FinishCommand, vars, storeVars, invokerVars
  <2> QED  BY <1>1, <2>1, NoneFailed
<1>4. CASE CheckOnly(p)
  BY <1>1, <1>4 DEF CheckOnly, vars, storeVars, invokerVars
<1>5. ASSUME \/ \E c \in Campaigns, m \in Modes : StartCommand(p, c, m)
             \/ CampaignStep(p) \/ LeaveCampaign(p) \/ LoadRecords(p) \/ WriteFile(p)
             \/ FinishWrite(p) \/ ValidateExport(p) \/ CrashCommand(p) \/ CrashWriting(p)
      PROVE  stage'[p] # "idle" \/ exit'[p] # "0"
  BY <1>5 DEF StartCommand, CampaignStep, LeaveCampaign, LoadRecords, WriteFile,
     FinishWrite, ValidateExport, CrashCommand, CrashWriting, Enter, LoadErrors,
     exportVars
<1> QED  BY <1>0, <1>2, <1>3, <1>4, <1>5 DEF ExportNext, CommandStep

(* With one command at a time and plans that name each run once: exit code *)
(* 0 of a command that reported a campaign is never given while a planned  *)
(* run is not COMPLETED, unless the whole level is complete.               *)
THEOREM ExitZeroTrue ==
    OneInvoker /\ DistinctPlans => (ExportSpec => []ExitZeroMeansCompleted)
<1> SUFFICES ASSUME OneInvoker, DistinctPlans
             PROVE  ExportSpec => []ExitZeroMeansCompleted
  OBVIOUS
<1>1. ExportInit => ExitZeroMeansCompleted
  BY DEF ExportInit, Init, ExitZeroMeansCompleted
<1>2. TypeInv /\ ExportTypes /\ DoneInv /\ ExitZeroMeansCompleted /\ [ExportNext]_allVars
        => ExitZeroMeansCompleted'
  BY NextExitZero
<1> QED  BY <1>1, <1>2, SpecExportTypes, SpecDoneInv, PTL DEF ExportSpec

-----------------------------------------------------------------------------
(***************************************************************************)
(* What the one command at work exports is the store, row by row.          *)
(***************************************************************************)
RowsOfPlan(p) ==
    LET plan == Plan[campaign[p]] IN
    /\ Len(rows[p]) = Len(plan)
    /\ \A i \in 1..Len(plan) : Recorded(plan[i])
    /\ \E f \in Bijection(1..Len(plan), 1..Len(plan)) :
          \A i \in 1..Len(plan) : rows[p][i] = BuildCanonicalRecord(plan[f[i]])

Exporting(p) == \/ stage[p] \in {"write", "validate"}
                \/ stage[p] = "completeness" /\ pc[p] = "done"

Complete(p, f) == f.name \in PerExecution \/ tree[campaign[p]][f] = Whole(rows[p])

TreeInv == \A p \in Invokers :
    /\ stage[p] = "load" \/ Exporting(p) => pc[p] = "done"
    /\ Exporting(p) => RowsOfPlan(p)
    /\ stage[p] = "write" =>
          /\ written[p] <= Len(Writes(rows[p]))
          /\ \A k \in 1..written[p] : Complete(p, Writes(rows[p])[k])
    /\ Exporting(p) /\ stage[p] # "write" =>
          \A k \in 1..Len(Writes(rows[p])) : Complete(p, Writes(rows[p])[k])
    /\ stage[p] = "completeness" /\ pc[p] = "done" /\ verdict[campaign[p]] = "OK" =>
          ExportIssues(campaign[p]) = {}

(* Nothing moves the store under an export.                                *)
LEMMA StoreRests ==
    ASSUME NEW p \in Invokers,
           LeaveCampaign(p) \/ LoadRecords(p) \/ WriteFile(p) \/ FinishWrite(p)
             \/ ValidateExport(p)
    PROVE  UNCHANGED <<raw, trace, evaluation, pc, campaign>>
BY DEF LeaveCampaign, LoadRecords, WriteFile, FinishWrite, ValidateExport,
       vars, storeVars, invokerVars

(* Loading takes one row for each planned run, from its own record.        *)
LEMMA LoadedRows ==
    ASSUME TypeOK, ExportTypes, NEW p \in Invokers, LoadRecords(p), stage'[p] # "idle"
    PROVE  stage'[p] = "write" /\ written'[p] = 0 /\ stage[p] = "load" /\ RowsOfPlan(p)'
<1> DEFINE plan == Plan[campaign[p]]
           n == Len(plan)
           runs == Sorted(plan)
           built == [i \in DOMAIN runs |-> BuildCanonicalRecord(runs[i])]
<1>0. plan \in Seq(RunIds) /\ n \in Nat
  BY CampaignAssumption DEF TypeOK
<1>1. /\ \A r \in ToSet(runs) : Readable(r)
      /\ rows' = [rows EXCEPT ![p] = built]
      /\ stage' = [stage EXCEPT ![p] = "write"]
      /\ stage[p] = "load" /\ written' = [written EXCEPT ![p] = 0]
  BY DEF LoadRecords, Enter, ExportTypes
<1>2. UNCHANGED <<raw, trace, evaluation, campaign>>
  BY StoreRests
<1>3. runs \in Seq(RunIds) /\ Len(runs) = n
  BY <1>0, SortedRuns
<1>4. PICK f \in Bijection(1..n, 1..n) : \A i \in 1..n : runs[i] = plan[f[i]]
  BY <1>0, SortedRuns
<1> HIDE DEF runs
<1>5. DOMAIN runs = 1..n
  BY <1>0, <1>3
<1>6. \A i \in 1..n : built[i] = BuildCanonicalRecord(plan[f[i]])
  BY <1>4, <1>5
<1>7. built \in Seq(CanonicalRecord) /\ Len(built) = n
  <2>1. built \in Seq(CanonicalRecord)
    BY <1>3, RowTypes
  <2>2. DOMAIN built = 1..n
    BY <1>5
  <2> HIDE DEF built
  <2> QED  BY <1>0, <2>1, <2>2
<1>8. \A i \in 1..n : Recorded(plan[i])
  <2> TAKE i \in 1..n
  <2>1. PICK j \in 1..n : f[j] = i
    BY <1>4 DEF Bijection, Surjection
  <2>2. plan[i] \in ToSet(runs)
    BY <1>4, <1>5, <2>1 DEF ToSet
  <2> QED  BY <1>1, <2>2 DEF Readable, Loadable, Recorded
<1> HIDE DEF built
<1>9. rows'[p] = built
  BY <1>1 DEF ExportTypes
<1>10. \A r : BuildCanonicalRecord(r)' = BuildCanonicalRecord(r) /\ Recorded(r)' = Recorded(r)
  BY <1>2 DEF BuildCanonicalRecord, Recorded
<1>11. campaign'[p] = campaign[p]
  BY <1>2
<1>12. RowsOfPlan(p)'
  BY <1>4, <1>6, <1>7, <1>8, <1>9, <1>10, <1>11 DEF RowsOfPlan
<1>13. stage'[p] = "write" /\ written'[p] = 0
  BY <1>1 DEF ExportTypes
<1> QED  BY <1>1, <1>12, <1>13

(* A write makes its own file complete and leaves the others so.           *)
LEMMA WriteCompletes ==
    ASSUME TypeOK, ExportTypes, NEW p \in Invokers, WriteFile(p)
    PROVE  \A f \in Files : f = NextFile(p) \/ Complete(p, f) => Complete(p, f)'
<1> DEFINE c == campaign[p]
           g == NextFile(p)
           new == Whole(ContentOf(g, rows[p]))
<1>0. c \in Campaigns /\ g \in Files /\ tree \in [Campaigns -> [Files -> Content]]
  BY NextFileTypes DEF TypeOK, ExportTypes, WriteFile
<1>1. /\ UNCHANGED <<rows, campaign>>
      /\ tree' = IF Keeps(c, g) THEN tree ELSE [tree EXCEPT ![c][g] = new]
  BY DEF WriteFile, NextFile, vars, invokerVars
<1>2. g.name \notin PerExecution => new = Whole(rows[p]) /\ ~Keeps(c, g)
  BY DEF ContentOf, Keeps
<1> HIDE DEF g, new
<1>3. g.name \notin PerExecution => tree'[c][g] = Whole(rows[p])
  BY <1>0, <1>1, <1>2
<1>4. \A f \in Files : f # g => tree'[c][f] = tree[c][f]
  BY <1>0, <1>1
<1>5. ASSUME NEW f \in Files, f = g \/ Complete(p, f) PROVE f.name \in PerExecution \/ tree'[c][f] = Whole(rows[p])
  BY <1>3, <1>4, <1>5 DEF Complete
<1>6. \A f : Complete(p, f)' <=> f.name \in PerExecution \/ tree'[c][f] = Whole(rows[p])
  BY <1>1 DEF Complete, Whole
<1> QED  BY <1>5, <1>6 DEF g

(* TreeInv is inductive: one step per action.                              *)
LEMMA NextTreeInv ==
    ASSUME OneInvoker, TypeOK, ExportTypes, TreeInv, [ExportNext]_allVars
    PROVE  TreeInv'
<1> SUFFICES ASSUME NEW p \in Invokers
             PROVE  (/\ stage[p] = "load" \/ Exporting(p) => pc[p] = "done"
                     /\ Exporting(p) => RowsOfPlan(p)
                     /\ stage[p] = "write" =>
                           /\ written[p] <= Len(Writes(rows[p]))
                           /\ \A k \in 1..written[p] : Complete(p, Writes(rows[p])[k])
                     /\ Exporting(p) /\ stage[p] # "write" =>
                           \A k \in 1..Len(Writes(rows[p])) : Complete(p, Writes(rows[p])[k])
                     /\ stage[p] = "completeness" /\ pc[p] = "done"
                          /\ verdict[campaign[p]] = "OK" => ExportIssues(campaign[p]) = {})'
  BY DEF TreeInv
<1>0. \A q \in Invokers : q = p
  BY DEF OneInvoker
<1>a. ASSUME UNCHANGED <<raw, trace, evaluation, pc, campaign, rows>>
      PROVE  RowsOfPlan(p)' = RowsOfPlan(p)
  BY <1>a DEF RowsOfPlan, BuildCanonicalRecord, Recorded
<1>b. ASSUME UNCHANGED <<tree, campaign, rows>>
      PROVE  \A f : Complete(p, f)' = Complete(p, f)
  BY <1>b DEF Complete, Whole
<1>c. ASSUME UNCHANGED <<tree, campaign>>
      PROVE  ExportIssues(campaign[p])' = ExportIssues(campaign[p])
  BY <1>c DEF ExportIssues
<1>d. rows[p] \in Seq(CanonicalRecord) /\ written[p] \in Nat /\ campaign[p] \in Campaigns
  BY DEF ExportTypes, TypeOK
<1>e. Writes(rows[p]) \in Seq(Files) /\ Len(Writes(rows[p])) \in Nat
  BY <1>d, WritesAt
<1>1. CASE UNCHANGED allVars
  <2>1. UNCHANGED <<raw, trace, evaluation, pc, campaign, rows, tree, stage, written, verdict>>
    BY <1>1 DEF allVars, exportVars, vars, storeVars, invokerVars
  <2>2. /\ RowsOfPlan(p)' = RowsOfPlan(p) /\ \A f : Complete(p, f)' = Complete(p, f)
        /\ ExportIssues(campaign[p])' = ExportIssues(campaign[p])
    BY <1>a, <1>b, <1>c, <2>1
  <2> QED  BY <2>1, <2>2 DEF TreeInv, Exporting
<1>2. ASSUME \/ \E c \in Campaigns, m \in Modes : StartCommand(p, c, m)
             \/ CampaignStep(p) \/ CheckOnly(p) \/ CrashCommand(p) \/ CrashWriting(p)
             \/ FinishCommand(p)
      PROVE  stage'[p] \in {"campaign", "idle"}
  BY <1>2 DEF StartCommand, CampaignStep, CheckOnly, CrashCommand, CrashWriting,
     FinishCommand, Enter, exportVars, ExportTypes
<1>3. CASE LeaveCampaign(p)
  <2>1. UNCHANGED pc
    BY <1>3, StoreRests
  <2>2. \/ pc[p] = "done" /\ stage'[p] = "load"
        \/ pc[p] \in {"refused", "aborted"} /\ stage'[p] = "completeness"
    BY <1>3 DEF LeaveCampaign, Enter, ExportTypes
  <2> QED  BY <2>1, <2>2 DEF Exporting
<1>4. CASE LoadRecords(p)
  <2>1. CASE stage'[p] = "idle"
    BY <2>1 DEF Exporting
  <2>2. CASE stage'[p] # "idle"
    <3>1. stage'[p] = "write" /\ written'[p] = 0 /\ stage[p] = "load" /\ RowsOfPlan(p)'
      BY <1>4, <2>2, LoadedRows
    <3>2. pc'[p] = "done"
      BY <1>4, <3>1, StoreRests DEF TreeInv
    <3>3. Len(Writes(rows[p]))' \in Nat
      <4>1. rows'[p] \in Seq(CanonicalRecord)
        BY NextExportTypes DEF ExportTypes
      <4> QED  BY <4>1, WritesAt
    <3> QED  BY <3>1, <3>2, <3>3 DEF Exporting
  <2> QED  BY <2>1, <2>2
<1>5. CASE WriteFile(p)
  <2>1. /\ stage[p] = "write" /\ written[p] < Len(Writes(rows[p]))
        /\ stage'[p] = "write" /\ written'[p] = written[p] + 1 /\ UNCHANGED rows
    BY <1>5 DEF WriteFile, ExportTypes
  <2>2. pc'[p] = "done" /\ RowsOfPlan(p)'
    <3>1. pc[p] = "done" /\ RowsOfPlan(p)
      BY <2>1 DEF TreeInv, Exporting
    <3> QED  BY <1>5, <1>a, <2>1, <3>1, StoreRests
  <2>3. ASSUME NEW k \in 1..(written[p] + 1) PROVE Complete(p, Writes(rows[p])[k])'
    <3>1. PICK f \in Files : f = Writes(rows[p])[k]
      BY <1>d, <1>e, <2>1
    <3>2. f = NextFile(p) \/ Complete(p, f)
      <4>1. CASE k = written[p] + 1
        BY <3>1, <4>1 DEF NextFile
      <4>2. CASE k # written[p] + 1
        <5>1. k \in 1..written[p]
          BY <1>d, <4>2
        <5> QED  BY <2>1, <3>1, <5>1 DEF TreeInv
      <4> QED  BY <4>1, <4>2
    <3>3. Complete(p, f)'
      BY <1>5, <3>2, WriteCompletes
    <3>4. Writes(rows[p])[k]' = f
      BY <2>1, <3>1 DEF Writes, PerExecutionFiles
    <3> QED  BY <3>3, <3>4
  <2>4. Len(Writes(rows[p]))' = Len(Writes(rows[p])) /\ written[p] + 1 <= Len(Writes(rows[p]))
    BY <1>d, <1>e, <2>1 DEF Writes, PerExecutionFiles
  <2> QED  BY <2>1, <2>2, <2>3, <2>4 DEF Exporting
<1>6. CASE FinishWrite(p)
  <2>1. /\ stage[p] = "write" /\ written[p] = Len(Writes(rows[p]))
        /\ stage'[p] = "validate" /\ UNCHANGED <<rows, tree>>
    BY <1>6 DEF FinishWrite, Enter, ExportTypes
  <2>2. UNCHANGED <<raw, trace, evaluation, pc, campaign>>
    BY <1>6, StoreRests
  <2>3. RowsOfPlan(p)' /\ pc'[p] = "done"
    BY <1>a, <2>1, <2>2 DEF TreeInv, Exporting
  <2>4. (\A k \in 1..Len(Writes(rows[p])) : Complete(p, Writes(rows[p])[k]))'
    <3>1. \A k \in 1..Len(Writes(rows[p])) : Complete(p, Writes(rows[p])[k])
      BY <2>1 DEF TreeInv
    <3> QED  BY <2>1, <2>2, <3>1 DEF Complete, Whole, Writes, PerExecutionFiles
  <2> QED  BY <2>1, <2>3, <2>4 DEF Exporting
<1>7. CASE ValidateExport(p)
  <2>1. /\ stage[p] = "validate" /\ stage'[p] = "completeness"
        /\ verdict'[campaign[p]] = IF ExportIssues(campaign[p]) = {} THEN "OK" ELSE "ISSUES"
        /\ UNCHANGED <<rows, tree>>
    BY <1>7, <1>d DEF ValidateExport, Enter, ExportTypes
  <2>2. UNCHANGED <<raw, trace, evaluation, pc, campaign>>
    BY <1>7, StoreRests
  <2>3. RowsOfPlan(p)' /\ pc'[p] = "done"
    BY <1>a, <2>1, <2>2 DEF TreeInv, Exporting
  <2>4. (\A k \in 1..Len(Writes(rows[p])) : Complete(p, Writes(rows[p])[k]))'
    <3>1. \A k \in 1..Len(Writes(rows[p])) : Complete(p, Writes(rows[p])[k])
      BY <2>1 DEF TreeInv, Exporting
    <3> QED  BY <2>1, <2>2, <3>1 DEF Complete, Whole, Writes, PerExecutionFiles
  <2>5. verdict'[campaign'[p]] = "OK" => ExportIssues(campaign[p])' = {}
    BY <1>c, <2>1, <2>2
  <2> QED  BY <2>1, <2>3, <2>4, <2>5 DEF Exporting
<1>8. CASE stage'[p] \in {"campaign", "idle"}
  BY <1>8 DEF Exporting
<1> QED  BY <1>0, <1>1, <1>2, <1>3, <1>4, <1>5, <1>6, <1>7, <1>8 DEF ExportNext, CommandStep

(* TreeInv holds of every behaviour with one command at a time.            *)
LEMMA SpecTreeInv ==
    OneInvoker => (ExportSpec => [](TypeOK /\ ExportTypes /\ TreeInv))
<1> SUFFICES ASSUME OneInvoker PROVE ExportSpec => [](TypeOK /\ ExportTypes /\ TreeInv)
  OBVIOUS
<1>1. ExportInit => TreeInv
  BY DEF ExportInit, TreeInv, Exporting
<1>2. TypeOK /\ ExportTypes /\ TreeInv /\ [ExportNext]_allVars => TreeInv'
  BY NextTreeInv
<1> QED  BY <1>1, <1>2, SpecExportTypes, PTL DEF ExportSpec

(* When an export has been written, every aggregate file has its rows.     *)
LEMMA AggregatesWritten ==
    ASSUME ExportTypes, TreeInv, NEW p \in Invokers, Exporting(p), stage[p] # "write"
    PROVE  \A n \in RequiredFiles : tree[campaign[p]][Required(n)] = Whole(rows[p])
<1> DEFINE rs == rows[p]
<1>1. rs \in Seq(CanonicalRecord) /\ Len(rs) \in Nat
  BY DEF ExportTypes
<1>2. \A k \in 1..Len(Writes(rs)) : Complete(p, Writes(rs)[k])
  BY DEF TreeInv
<1> SUFFICES ASSUME NEW n \in RequiredFiles
             PROVE  tree[campaign[p]][Required(n)] = Whole(rows[p])
  OBVIOUS
<1>3. Required(n).name \notin PerExecution
  BY DEF RequiredFiles, Required, PerExecution, ToSet, BeforeExecutions, AfterExecutions
<1>4. CASE n \in ToSet(BeforeExecutions)
  <2>1. PICK k \in 1..6 : n = BeforeExecutions[k]
    BY <1>4 DEF ToSet, BeforeExecutions
  <2>2. k \in 1..Len(Writes(rs)) /\ Writes(rs)[k] = Required(n)
    BY <1>1, <2>1, WritesAt
  <2> QED  BY <1>2, <1>3, <2>2 DEF Complete
<1>5. CASE n \in ToSet(AfterExecutions)
  <2>1. PICK k \in 1..2 : n = AfterExecutions[k]
    BY <1>5 DEF ToSet, AfterExecutions
  <2> DEFINE j == (6 + 2 * Len(rs)) + k
  <2>2. Len(Writes(rs)) = (6 + 2 * Len(rs)) + 2 /\ Writes(rs)[j] = Required(n)
    BY <1>1, <2>1, WritesAt
  <2>3. j \in 1..Len(Writes(rs))
    <3> HIDE DEF rs
    <3> QED  BY <1>1, <2>2
  <2> HIDE DEF j
  <2> QED  BY <1>2, <1>3, <2>2, <2>3 DEF Complete
<1> QED  BY <1>4, <1>5 DEF RequiredFiles

(* A bijection counts the same on both sides.                              *)
LEMMA SameCount ==
    ASSUME NEW n \in Nat, NEW f \in Bijection(1..n, 1..n), NEW I \in SUBSET (1..n)
    PROVE  Cardinality({i \in 1..n : f[i] \in I}) = Cardinality(I)
<1> DEFINE J == {i \in 1..n : f[i] \in I}
           g == [i \in J |-> f[i]]
<1>1. g \in [J -> I] /\ \A a, b \in J : g[a] = g[b] => a = b
  BY DEF Bijection, Injection, IsInjective
<1>2. \A t \in I : \E a \in J : g[a] = t
  BY DEF Bijection, Surjection
<1>3. IsFiniteSet(J)
  <2>1. IsFiniteSet(1..n)
    BY FS_Interval
  <2>2. J \in SUBSET (1..n)
    OBVIOUS
  <2> QED  BY <2>1, <2>2, FS_Subset
<1> HIDE DEF J, g
<1>4. g \in Bijection(J, I)
  BY <1>1, <1>2, Fun_IsBij
<1>5. Cardinality(J) = Cardinality(I)
  BY <1>3, <1>4, FS_Bijection DEF ExistsBijection
<1> QED  BY <1>5 DEF J

(* The rows say of the runs what the campaign counted.                     *)
LEMMA RowsAreCounted ==
    ASSUME TypeOK, NEW p \in Invokers, RowsOfPlan(p), CountedOne(p), ~HasNext(p)
    PROVE  LET m == BuildCampaignMetrics(rows[p]) IN
           m.completed = tally[p].successful /\ m.failed = tally[p].failed
<1> DEFINE plan == Plan[campaign[p]]
           n == Len(plan)
           Got(s) == {i \in 1..n : raw[plan[i]].status = s}
<1>1. n \in Nat /\ \A i \in 1..n : plan[i] \in RunIds
  BY PositionsFinite
<1>2. PICK f \in Bijection(1..n, 1..n) :
         \A i \in 1..n : rows[p][i] = BuildCanonicalRecord(plan[f[i]])
  BY DEF RowsOfPlan
<1>3. \A i \in 1..n : f[i] \in 1..n
  BY <1>2 DEF Bijection, Injection
<1>4. DOMAIN rows[p] = 1..n
  <2>1. Len(rows[p]) = n
    BY DEF RowsOfPlan
  <2>2. \A i \in 1..n : plan[i] \in RunIds
    BY <1>1
  <2> QED  BY <1>1, <2>1
<1>5. \A i \in 1..n : rows[p][i].success <=> raw[plan[f[i]]].status = "COMPLETED"
  <2> TAKE i \in 1..n
  <2>1. \A r : BuildCanonicalRecord(r).success = (raw[r].status = "COMPLETED")
    BY DEF BuildCanonicalRecord
  <2>2. rows[p][i] = BuildCanonicalRecord(plan[f[i]])
    BY <1>2
  <2>3. rows[p][i].success = (raw[plan[f[i]]].status = "COMPLETED")
    BY <2>1, <2>2, Zenon
  <2> QED  BY <2>3, Zenon
<1>6. \A i \in 1..n : raw[plan[i]].status \in {"COMPLETED", "FAILED"}
  BY <1>1 DEF TypeOK, StoreTypeOK, File, Status
<1>7. {i \in DOMAIN rows[p] : rows[p][i].success} = {i \in 1..n : f[i] \in Got("COMPLETED")}
  BY <1>3, <1>4, <1>5
<1>8. {i \in DOMAIN rows[p] : ~rows[p][i].success} = {i \in 1..n : f[i] \in Got("FAILED")}
  BY <1>3, <1>4, <1>5, <1>6
<1>9. \A s : Got(s) = With(p, s)
  BY CountersOfPlan DEF With
<1>10. \A s : Cardinality({i \in 1..n : f[i] \in Got(s)}) = Cardinality(Got(s))
  <2>1. \A s : Got(s) \in SUBSET (1..n)
    OBVIOUS
  <2> HIDE DEF Got
  <2> QED  BY <1>1, <2>1, SameCount
<1> HIDE DEF Got
<1> QED  BY <1>7, <1>8, <1>9, <1>10 DEF BuildCampaignMetrics, CountedOne

(* With one command at a time: the aggregate files of a finished export    *)
(* were made from the same rows, and the metrics in them are the numbers   *)
(* the campaign reported, whatever half-written exports came before.       *)
THEOREM AggregatesTrue ==
    OneInvoker /\ DistinctPlans => (ExportSpec => []AggregatesAgree)
<1> SUFFICES ASSUME OneInvoker, DistinctPlans PROVE ExportSpec => []AggregatesAgree
  OBVIOUS
<1>1. TypeOK /\ ExportTypes /\ TreeInv /\ DoneInv => AggregatesAgree
  <2> SUFFICES ASSUME TypeOK, ExportTypes, TreeInv, DoneInv,
                      NEW p \in Invokers, stage[p] = "completeness", pc[p] = "done"
               PROVE  LET c == campaign[p]
                          m == BuildCampaignMetrics(Rows(c, "metrics.json"))
                      IN  /\ \A n \in RequiredFiles :
                                tree[c][Required(n)] = Whole(rows[p])
                          /\ m.completed = tally[p].successful
                          /\ m.failed = tally[p].failed
    BY DEF AggregatesAgree
  <2>1. Exporting(p) /\ stage[p] # "write" /\ RowsOfPlan(p)
    BY DEF Exporting, TreeInv
  <2>2. \A n \in RequiredFiles : tree[campaign[p]][Required(n)] = Whole(rows[p])
    BY <2>1, AggregatesWritten
  <2>3. Rows(campaign[p], "metrics.json") = rows[p]
    <3>1. "metrics.json" \in RequiredFiles
      BY DEF RequiredFiles, ToSet, BeforeExecutions
    <3> QED  BY <2>2, <3>1 DEF Rows, Whole
  <2>4. CountedOne(p) /\ ~HasNext(p)
    BY DEF DoneInv
  <2> QED  BY <2>1, <2>2, <2>3, <2>4, RowsAreCounted
<1> QED  BY <1>1, SpecTreeInv, SpecDoneInv, PTL

-----------------------------------------------------------------------------
(***************************************************************************)
(* What validation accepts.  The store's records and the executions that   *)
(* made them; then the files of single executions, which are never written *)
(* again and so may be older than the record, never newer.                 *)
(***************************************************************************)
Busy == {"executing"} \cup Saving

ExecKnown ==
    /\ \A r \in RunIds : raw[r].exec <= executions[r]
    /\ \A p \in Invokers : pc[p] \in Busy => record[p].exec = executions[Current(p)]

(* The steps into and within the execution of a run.                       *)
LEMMA IntoBusy ==
    ASSUME TypeInv, NEW p \in Invokers, Step(p), pc'[p] \in Busy
    PROVE  /\ UNCHANGED <<campaign, next>>
           /\ \/ BeginExecution(p)
              \/ /\ pc[p] \in Busy /\ UNCHANGED executions
                 /\ record'[p].exec = record[p].exec
<1> USE DEF TypeInv, TypeOK, Busy, Saving
<1>1. CASE CheckNoExistingCampaign(p) \/ RefuseForeignLevel(p) \/ BeginExecution(p)
           \/ OpenManifest(p) \/ WriteManifest(p)
  BY <1>1 DEF CheckNoExistingCampaign, RefuseForeignLevel, BeginExecution,
        OpenManifest, WriteManifest, Goto
<1>2. CASE FinishLoops(p) \/ ListRecords(p)
  BY <1>2 DEF FinishLoops, ListRecords, Goto
<1>3. CASE SkipRecorded(p)
  BY <1>3 DEF SkipRecorded, Skips, Goto
<1>4. CASE \E s \in Status : EndExecution(p, s)
  <2>1. PICK s \in Status : EndExecution(p, s)
    BY <1>4
  <2>2. record' = [record EXCEPT ![p].status = s] /\ pc[p] = "executing"
        /\ UNCHANGED <<campaign, next, executions>>
    BY <2>1 DEF EndExecution
  <2>3. record[p] \in Record /\ record \in [Invokers -> Record]
    OBVIOUS
  <2>4. record'[p] = [record[p] EXCEPT !.status = s]
    BY <2>2, <2>3
  <2>5. record'[p].exec = record[p].exec
    BY <2>3, <2>4 DEF Record
  <2> QED  BY <2>2, <2>5
<1>5. CASE OpenRaw(p) \/ WriteRaw(p)
  BY <1>5 DEF OpenRaw, WriteRaw, SaveStep, Goto
<1>6. CASE OpenTrace(p) \/ OpenEvaluation(p)
  BY <1>6 DEF OpenTrace, OpenEvaluation, SaveStep, Goto
<1>7. CASE WriteTrace(p) \/ WriteEvaluation(p)
  BY <1>7 DEF WriteTrace, WriteEvaluation, SaveStep, Goto
<1>8. CASE \E r \in RunIds : LoadNext(p, r)
  BY <1>8 DEF LoadNext, Goto
<1> QED  BY <1>1, <1>2, <1>3, <1>4, <1>5, <1>6, <1>7, <1>8 DEF Step, Save

(* Only the start of an execution counts one more.                         *)
LEMMA ExecutionsCounted ==
    ASSUME [Next]_vars
    PROVE  UNCHANGED executions \/ \E p \in Invokers : BeginExecution(p)
BY DEF Next, Step, Save, Start, CheckNoExistingCampaign, RefuseForeignLevel,
   SkipRecorded, EndExecution, OpenRaw, WriteRaw, OpenTrace, WriteTrace,
   OpenEvaluation, WriteEvaluation, SaveStep, FinishLoops, ListRecords, LoadNext,
   OpenManifest, WriteManifest, Crash, vars

(* No record is of an execution that has not begun yet.                    *)
LEMMA NextExecKnown ==
    ASSUME OneInvoker, TypeInv, ExecKnown, [Next]_vars
    PROVE  /\ ExecKnown'
           /\ \A r \in RunIds : executions[r] <= executions'[r]
           /\ \A r \in RunIds : raw'[r].state = "whole" =>
                 raw'[r] = raw[r] \/ raw'[r].exec = executions[r]
<1> USE DEF TypeInv
<1>0. /\ \A r \in RunIds : raw[r] \in File /\ raw[r].exec \in Nat /\ executions[r] \in Nat
      /\ executions \in [RunIds -> Nat] /\ raw \in [RunIds -> File]
      /\ \A p \in Invokers : campaign[p] \in Campaigns
  BY DEF TypeOK, StoreTypeOK, File
<1>1. \A r \in RunIds : executions[r] <= executions'[r]
  <2>1. CASE UNCHANGED executions
    BY <1>0, <2>1
  <2>2. ASSUME NEW p \in Invokers, BeginExecution(p)
        PROVE  \A r \in RunIds : executions[r] <= executions'[r]
    BY <1>0, <2>2 DEF BeginExecution
  <2> QED  BY <2>1, <2>2, ExecutionsCounted
<1>2. \A r \in RunIds :
         \/ raw'[r] = raw[r] \/ raw'[r] = TornFile
         \/ raw'[r].state = "whole" /\ raw'[r].exec = executions[r]
  <2>1. CASE UNCHANGED raw
    BY <2>1
  <2>2. ASSUME NEW p \in Invokers, OpenRaw(p)
        PROVE  \A r \in RunIds : raw'[r] = raw[r] \/ raw'[r] = TornFile
    BY <1>0, <2>2 DEF OpenRaw, TruncateRaw
  <2>3. ASSUME NEW p \in Invokers, WriteRaw(p)
        PROVE  \A r \in RunIds : \/ raw'[r] = raw[r]
                                 \/ raw'[r].state = "whole" /\ raw'[r].exec = executions[r]
    <3>1. record[p].exec = executions[Current(p)]
      BY <2>3 DEF WriteRaw, SaveStep, ExecKnown, Busy, Saving
    <3>2. raw' = [raw EXCEPT ![Current(p)] = FileOf(record[p])]
      BY <2>3 DEF WriteRaw, FillRaw
    <3>3. FileOf(record[p]).state = "whole" /\ FileOf(record[p]).exec = record[p].exec
      BY DEF FileOf
    <3> QED  BY <1>0, <3>1, <3>2, <3>3
  <2>4. UNCHANGED storeVars => UNCHANGED raw
    BY DEF storeVars
  <2>5. ASSUME NEW p \in Invokers, \/ OpenTrace(p) \/ WriteTrace(p) \/ OpenEvaluation(p)
                                   \/ WriteEvaluation(p)
        PROVE  UNCHANGED raw
    BY <2>5 DEF OpenTrace, WriteTrace, OpenEvaluation, WriteEvaluation, TruncateTrace,
       FillTrace, TruncateEvaluation, FillEvaluation
  <2> QED  BY <2>1, <2>2, <2>3, <2>4, <2>5, StoreChanges
<1>3. \A r \in RunIds : raw'[r].exec <= executions'[r]
  <2> TAKE r \in RunIds
  <2>1. executions'[r] \in Nat
    BY NextTypeInv DEF TypeOK
  <2>2. TornFile.exec = 0 /\ raw[r].exec <= executions[r]
    BY DEF TornFile, ExecKnown
  <2>3. executions[r] <= executions'[r]
    BY <1>1
  <2>4. raw'[r].exec \in {raw[r].exec, 0, executions[r]}
    BY <1>2, <2>2
  <2> QED  BY <1>0, <2>1, <2>2, <2>3, <2>4
<1>4. ASSUME NEW p \in Invokers, pc'[p] \in Busy
      PROVE  record'[p].exec = executions'[Current(p)']
  <2>0. \A q \in Invokers : q = p
    BY DEF OneInvoker
  <2>1. CASE UNCHANGED vars
    BY <1>4, <2>1 DEF vars, invokerVars, ExecKnown, Current
  <2>2. CASE Step(p)
    <3>1. UNCHANGED <<campaign, next>>
      BY <1>4, <2>2, IntoBusy
    <3>2. CASE BeginExecution(p)
      <4>1. Current(p) \in RunIds
        BY <3>2, CurrentInRunIds DEF BeginExecution
      <4>2. /\ executions'[Current(p)] = executions[Current(p)] + 1
            /\ record'[p].exec = executions[Current(p)] + 1
        BY <3>2, <4>1 DEF BeginExecution, TypeOK, NoRecord
      <4> QED  BY <3>1, <4>2 DEF Current
    <3>3. CASE pc[p] \in Busy /\ UNCHANGED executions /\ record'[p].exec = record[p].exec
      BY <3>1, <3>3 DEF ExecKnown, Current
    <3> QED  BY <1>4, <2>2, <3>2, <3>3, IntoBusy
  <2>3. CASE Crash(p) \/ \E c \in Campaigns, m \in Modes : Start(p, c, m)
    BY <1>4, <2>3 DEF Crash, Start, Goto, TypeOK, Busy, Saving
  <2> QED  BY <2>0, <2>1, <2>2, <2>3 DEF Next
<1> QED  BY <1>1, <1>2, <1>3, <1>4 DEF ExecKnown, TornFile

(* A whole file of one execution holds one row, of its own run, and of an  *)
(* execution that has been made, not a later one than the store's record.  *)
Older(x, r) == x.exec <= executions[r] /\ (Recorded(r) => x.exec <= raw[r].exec)

OneRow(c, f) == \E x \in CanonicalRecord :
    tree[c][f].rows = <<x>> /\ x.run = f.run /\ Older(x, f.run)

FilesOld == \A c \in Campaigns, f \in [name : PerExecution, run : RunIds] :
    tree[c][f].state = "whole" => OneRow(c, f)

ExecInv == ExecKnown /\ FilesOld

(* Runs go on: what was older stays older.                                 *)
LEMMA OlderKept ==
    ASSUME OneInvoker, TypeInv, ExecKnown, [Next]_vars,
           NEW x \in CanonicalRecord, NEW r \in RunIds, Older(x, r)
    PROVE  Older(x, r)'
<1>1. /\ executions[r] <= executions'[r]
      /\ raw'[r].state = "whole" => raw'[r] = raw[r] \/ raw'[r].exec = executions[r]
  BY NextExecKnown
<1>2. x.exec \in Nat /\ executions[r] \in Nat /\ executions'[r] \in Nat
  BY NextTypeInv DEF CanonicalRecord, TypeInv, TypeOK
<1>3. x.exec <= executions'[r]
  BY <1>1, <1>2 DEF Older
<1>4. raw'[r].state = "whole" => x.exec <= raw'[r].exec
  BY <1>1 DEF Older, Recorded
<1> QED  BY <1>3, <1>4 DEF Older, Recorded

(* A file an export writes holds the row of the store's record.            *)
LEMMA WritesRow ==
    ASSUME OneInvoker, TypeInv, ExportTypes, TreeInv, ExecKnown,
           NEW p \in Invokers, WriteFile(p), NextFile(p).name \in PerExecution
    PROVE  \E x \in CanonicalRecord :
              /\ ContentOf(NextFile(p), rows[p]) = <<x>>
              /\ x.run = NextFile(p).run
              /\ Older(x, NextFile(p).run)
<1> DEFINE plan == Plan[campaign[p]]
           n == Len(plan)
<1>1. stage[p] = "write" /\ written[p] < Len(Writes(rows[p]))
  BY DEF WriteFile
<1>2. PICK x \in ToSet(rows[p]) : /\ x.run = NextFile(p).run
                                  /\ ContentOf(NextFile(p), rows[p]) = <<x>>
  BY <1>1, NextFileTypes
<1>3. RowsOfPlan(p)
  BY <1>1 DEF TreeInv, Exporting
<1>4. rows[p] \in Seq(CanonicalRecord) /\ n \in Nat /\ \A i \in 1..n : plan[i] \in RunIds
  BY PositionsFinite DEF ExportTypes, TypeInv
<1>5. PICK i \in 1..n : rows[p][i] = x
  <2>1. Len(rows[p]) = n
    BY <1>3 DEF RowsOfPlan
  <2> QED  BY <1>2, <1>4, <2>1 DEF ToSet
<1>6. x \in CanonicalRecord
  <2>1. Len(rows[p]) = n
    BY <1>3 DEF RowsOfPlan
  <2> QED  BY <1>4, <1>5, <2>1
<1>7. PICK r \in RunIds : x = BuildCanonicalRecord(r)
  <2>1. PICK f \in Bijection(1..n, 1..n) :
           \A j \in 1..n : rows[p][j] = BuildCanonicalRecord(plan[f[j]])
    BY <1>3 DEF RowsOfPlan
  <2>2. f[i] \in 1..n
    BY <2>1 DEF Bijection, Injection
  <2> QED  BY <1>4, <1>5, <2>1, <2>2
<1>8. x.run = r /\ x.exec = raw[r].exec
  BY <1>7 DEF BuildCanonicalRecord
<1>9. raw[r].exec \in Nat /\ raw[r].exec <= executions[r]
  BY DEF ExecKnown, TypeInv, TypeOK, StoreTypeOK, File
<1> QED  BY <1>2, <1>6, <1>8, <1>9 DEF Older

(* ExecInv is inductive: one step per action.                              *)
LEMMA NextExecInv ==
    ASSUME OneInvoker, TypeInv, ExportTypes, TreeInv, ExecInv, [ExportNext]_allVars
    PROVE  ExecInv'
<1>0. [Next]_vars
  BY CampaignUnderneath
<1>1. ExecKnown'
  BY <1>0, NextExecKnown DEF ExecInv
<1> SUFFICES ASSUME NEW c \in Campaigns, NEW f \in [name : PerExecution, run : RunIds],
                    tree'[c][f].state = "whole"
             PROVE  OneRow(c, f)'
  BY <1>1 DEF ExecInv, FilesOld
<1>2. f \in Files /\ f.run \in RunIds /\ f.name \in PerExecution
  BY DEF Files
<1>3. CASE tree'[c][f] = tree[c][f]
  <2>1. PICK x \in CanonicalRecord :
           tree[c][f].rows = <<x>> /\ x.run = f.run /\ Older(x, f.run)
    BY <1>3 DEF ExecInv, FilesOld, OneRow
  <2> DEFINE r == f.run
  <2>2. r \in RunIds /\ Older(x, r)
    BY <1>2, <2>1
  <2> HIDE DEF r
  <2>3. Older(x, r)'
    BY <1>0, <2>2, OlderKept DEF ExecInv
  <2>4. Older(x, f.run)'
    BY <2>3 DEF r, Older, Recorded
  <2>5. tree'[c][f].rows = <<x>> /\ x.run = f.run
    BY <1>3, <2>1
  <2> QED  BY <2>4, <2>5 DEF OneRow
<1>4. CASE tree'[c][f] # tree[c][f]
  <2>1. tree' # tree
    BY <1>4
  <2>2. PICK p \in Invokers :
           \/ WriteFile(p) /\ ~Keeps(campaign[p], NextFile(p))
           \/ tree' = [tree EXCEPT ![campaign[p]][NextFile(p)] = Torn]
    BY <2>1 DEF ExportNext, CommandStep, StartCommand, CampaignStep, LeaveCampaign,
       LoadRecords, WriteFile, FinishWrite, ValidateExport, FinishCommand, CheckOnly,
       CrashCommand, CrashWriting, NextFile, exportVars, allVars
  <2>3. ~(tree' = [tree EXCEPT ![campaign[p]][NextFile(p)] = Torn])
    <3>1. ASSUME tree' = [tree EXCEPT ![campaign[p]][NextFile(p)] = Torn] PROVE FALSE
      <4>1. Torn.state = "torn"
        BY DEF Torn
      <4> HIDE DEF Torn
      <4>2. tree'[c][f] = tree[c][f] \/ tree'[c][f] = Torn
        BY <1>2, <3>1 DEF ExportTypes
      <4> QED  BY <1>4, <4>1, <4>2
    <3> QED  BY <3>1
  <2> DEFINE new == Whole(ContentOf(NextFile(p), rows[p]))
  <2>4. tree' = [tree EXCEPT ![campaign[p]][NextFile(p)] = new]
    BY <2>2, <2>3 DEF WriteFile, NextFile
  <2>5. UNCHANGED vars
    BY <2>2, <2>3 DEF WriteFile
  <2>6. c = campaign[p] /\ f = NextFile(p) /\ tree'[c][f] = new
    <3> HIDE DEF new
    <3> QED  BY <1>2, <1>4, <2>4 DEF ExportTypes
  <2>7. PICK x \in CanonicalRecord :
           /\ ContentOf(NextFile(p), rows[p]) = <<x>>
           /\ x.run = NextFile(p).run
           /\ Older(x, NextFile(p).run)
    BY <1>2, <2>2, <2>3, <2>6, WritesRow DEF ExecInv
  <2>8. tree'[c][f].rows = <<x>> /\ x.run = f.run
    BY <2>6, <2>7 DEF Whole
  <2>9. Older(x, f.run)'
    BY <2>5, <2>6, <2>7 DEF Older, Recorded, vars, storeVars
  <2> QED  BY <2>8, <2>9 DEF OneRow
<1> QED  BY <1>3, <1>4

(* ExecInv holds of every behaviour with one command at a time.            *)
LEMMA SpecExecInv ==
    OneInvoker => (ExportSpec => [](TypeOK /\ ExportTypes /\ TreeInv /\ ExecInv))
<1> SUFFICES ASSUME OneInvoker
             PROVE  ExportSpec => [](TypeOK /\ ExportTypes /\ TreeInv /\ ExecInv)
  OBVIOUS
<1>1. ExportInit => ExecInv
  <2> SUFFICES ASSUME ExportInit PROVE ExecInv
    OBVIOUS
  <2>1. ExecKnown
    BY DEF ExportInit, Init, StoreInit, NoFile, ExecKnown, Busy, Saving
  <2>2. FilesOld
    BY DEF ExportInit, FilesOld, Files, Absent
  <2> QED  BY <2>1, <2>2 DEF ExecInv
<1>2. TypeInv /\ ExportTypes /\ TreeInv /\ ExecInv /\ [ExportNext]_allVars => ExecInv'
  BY NextExecInv
<1>3. Init /\ [][Next]_vars => []TypeInv
  BY InitTypeInv, NextTypeInv, PTL
<1> QED  BY <1>1, <1>2, <1>3, SpecTreeInv, CommandsRunCampaigns, PTL DEF ExportSpec, Spec

(* Rows that validation finds no duplicate in name each run once.          *)
LEMMA RowsNameRuns ==
    ASSUME TypeOK, NEW p \in Invokers, RowsOfPlan(p),
           \A i, j \in DOMAIN rows[p] : rows[p][i].run = rows[p][j].run => i = j
    PROVE  /\ {x.run : x \in ToSet(rows[p])} = Planned(campaign[p])
           /\ Len(rows[p]) = Cardinality(Planned(campaign[p]))
<1> DEFINE plan == Plan[campaign[p]]
           n == Len(plan)
           P == Planned(campaign[p])
           g == [i \in 1..n |-> rows[p][i].run]
<1>1. n \in Nat /\ Len(rows[p]) = n /\ P = {plan[i] : i \in 1..n}
  BY PositionsFinite DEF RowsOfPlan, Planned
<1>2. PICK f \in Bijection(1..n, 1..n) :
         \A i \in 1..n : rows[p][i] = BuildCanonicalRecord(plan[f[i]])
  BY DEF RowsOfPlan
<1>3. \A i \in 1..n : rows[p][i].run = plan[f[i]] /\ f[i] \in 1..n
  <2> TAKE i \in 1..n
  <2>1. \A r : BuildCanonicalRecord(r).run = r
    BY DEF BuildCanonicalRecord
  <2>2. f[i] \in 1..n
    BY <1>2 DEF Bijection, Injection
  <2> QED  BY <1>2, <2>1, <2>2
<1>4. \A k \in 1..n : \E i \in 1..n : f[i] = k
  BY <1>2 DEF Bijection, Surjection
<1>d. DOMAIN rows[p] = 1..n
  BY <1>1
<1>5. {x.run : x \in ToSet(rows[p])} = {rows[p][i].run : i \in 1..n}
  BY <1>d DEF ToSet
<1>6. {rows[p][i].run : i \in 1..n} = P
  <2>1. \A i \in 1..n : rows[p][i].run \in P
    BY <1>1, <1>3
  <2>3. ASSUME NEW t \in P PROVE \E i \in 1..n : t = rows[p][i].run
    <3>1. PICK k \in 1..n : t = plan[k]
      BY <1>1
    <3>2. PICK i \in 1..n : f[i] = k
      BY <1>4
    <3> QED  BY <1>3, <3>1, <3>2, Zenon
  <2> HIDE DEF P
  <2> QED  BY <2>1, <2>3
<1>7. Cardinality(P) = n
  <2>1. g \in [1..n -> P]
    BY <1>6
  <2>2. \A a, b \in 1..n : g[a] = g[b] => a = b
    BY <1>d
  <2>3. \A t \in P : \E a \in 1..n : g[a] = t
    BY <1>6
  <2> HIDE DEF g, P
  <2>4. g \in Bijection(1..n, P)
    BY <2>1, <2>2, <2>3, Fun_IsBij
  <2>5. IsFiniteSet(1..n) /\ Cardinality(1..n) = n
    <3> HIDE DEF n
    <3>1. n \in Nat /\ n \in Int /\ 1 \in Int
      BY <1>1
    <3>2. IsFiniteSet(1..n)
      BY <3>1, FS_Interval
    <3>3. Cardinality(1..n) = IF 1 > n THEN 0 ELSE n - 1 + 1
      BY <3>1, FS_Interval
    <3> QED  BY <3>1, <3>2, <3>3
  <2>6. Cardinality(P) = Cardinality(1..n)
    BY <2>4, <2>5, FS_Bijection DEF ExistsBijection
  <2> QED  BY <2>5, <2>6
<1> QED  BY <1>1, <1>5, <1>6, <1>7

(* With one command at a time: an export that validation accepted names    *)
(* each planned run once, and beside each row stand both files of the run; *)
(* what is whole of them holds one row, of that very run and of an         *)
(* execution not later than the row's, although validation never looks     *)
(* into those files.  A file that a crash cut short may be among them.     *)
THEOREM AcceptedExportTrue ==
    OneInvoker => (ExportSpec => []AcceptedExportCoversPlan)
<1> SUFFICES ASSUME OneInvoker PROVE ExportSpec => []AcceptedExportCoversPlan
  OBVIOUS
<1>1. TypeOK /\ ExportTypes /\ TreeInv /\ ExecInv => AcceptedExportCoversPlan
  <2> SUFFICES ASSUME TypeOK, ExportTypes, TreeInv, ExecInv,
                      NEW p \in Invokers, stage[p] = "completeness", pc[p] = "done",
                      verdict[campaign[p]] = "OK"
               PROVE  LET c == campaign[p]
                          rs == Rows(c, "executions.jsonl")
                      IN  /\ {x.run : x \in ToSet(rs)} = Planned(c)
                          /\ Len(rs) = Cardinality(Planned(c))
                          /\ \A x \in ToSet(rs) : \A n \in PerExecution :
                                LET f == tree[c][[name |-> n, run |-> x.run]] IN
                                f.state # "absent"
                                /\ f.state = "whole" => /\ Len(f.rows) = 1
                                                        /\ f.rows[1].run = x.run
                                                        /\ f.rows[1].exec <= x.exec
    BY DEF AcceptedExportCoversPlan
  <2> DEFINE c == campaign[p]
             rs == rows[p]
  <2>1. Exporting(p) /\ RowsOfPlan(p) /\ ExportIssues(c) = {}
    BY DEF Exporting, TreeInv
  <2>2. \A n \in RequiredFiles : tree[c][Required(n)] = Whole(rs)
    BY <2>1, AggregatesWritten
  <2>3. Rows(c, "executions.jsonl") = rs
    <3>1. "executions.jsonl" \in RequiredFiles
      BY DEF RequiredFiles, ToSet, BeforeExecutions
    <3> QED  BY <2>2, <3>1 DEF Rows, Whole
  <2>4. /\ {"duplicate" : i \in {i \in DOMAIN rs : \E j \in DOMAIN rs \ {i} :
               <<QuestionOf[rs[i].run], RepetitionOf[rs[i].run]>>
                 = <<QuestionOf[rs[j].run], RepetitionOf[rs[j].run]>>}} = {}
        /\ {n \in PerExecution : \E i \in DOMAIN rs :
               tree[c][[name |-> n, run |-> rs[i].run]].state = "absent"} = {}
    <3>1. {n \in RequiredFiles : tree[c][Required(n)].state = "absent"} = {}
      BY <2>2 DEF Whole
    <3>2. tree[c][Required("executions.jsonl")].rows = rs
      BY <2>3 DEF Rows
    <3> QED  BY <2>1, <3>1, <3>2 DEF ExportIssues
  <2>5. \A i, j \in DOMAIN rs : rs[i].run = rs[j].run => i = j
    BY <2>4
  <2>6. {x.run : x \in ToSet(rs)} = Planned(c) /\ Len(rs) = Cardinality(Planned(c))
    BY <2>1, <2>5, RowsNameRuns
  <2>7. ASSUME NEW x \in ToSet(rs), NEW n \in PerExecution
        PROVE  LET f == tree[c][[name |-> n, run |-> x.run]] IN
               f.state # "absent"
               /\ f.state = "whole" => /\ Len(f.rows) = 1
                                       /\ f.rows[1].run = x.run
                                       /\ f.rows[1].exec <= x.exec
    <3> DEFINE k == [name |-> n, run |-> x.run]
               f == tree[c][k]
    <3>1. PICK i \in DOMAIN rs : rs[i] = x
      BY DEF ToSet
    <3>2. f.state # "absent"
      BY <2>4, <3>1
    <3>3. PICK r \in RunIds : x = BuildCanonicalRecord(r) /\ Recorded(r)
      <4> DEFINE plan == Plan[campaign[p]]
                 m == Len(plan)
      <4>1. PICK g \in Bijection(1..m, 1..m) :
               \A j \in 1..m : rs[j] = BuildCanonicalRecord(plan[g[j]])
        BY <2>1 DEF RowsOfPlan
      <4>2. m \in Nat /\ Len(rs) = m /\ \A j \in 1..m : plan[j] \in RunIds /\ Recorded(plan[j])
        BY <2>1, PositionsFinite DEF RowsOfPlan
      <4>3. i \in 1..m
        BY <3>1, <4>2
      <4>4. g[i] \in 1..m
        BY <4>1, <4>3 DEF Bijection, Injection
      <4> QED  BY <3>1, <4>1, <4>2, <4>3, <4>4
    <3>4. x.run = r /\ x.exec = raw[r].exec
      BY <3>3 DEF BuildCanonicalRecord
    <3>5. ASSUME f.state = "whole"
          PROVE  Len(f.rows) = 1 /\ f.rows[1].run = x.run /\ f.rows[1].exec <= x.exec
      <4>1. k \in [name : PerExecution, run : RunIds] /\ c \in Campaigns
        BY <3>4 DEF TypeOK
      <4>2. PICK y \in CanonicalRecord :
               tree[c][k].rows = <<y>> /\ y.run = k.run /\ Older(y, k.run)
        <5> HIDE DEF k, c
        <5> QED  BY <3>5, <4>1 DEF ExecInv, FilesOld, OneRow
      <4>3. y.exec <= raw[r].exec
        BY <3>3, <3>4, <4>2 DEF Older
      <4>4. Len(f.rows) = 1 /\ f.rows[1] = y
        BY <4>2
      <4>5. y.run = x.run
        BY <4>2
      <4> QED  BY <3>4, <4>3, <4>4, <4>5
    <3> QED  BY <3>2, <3>5
  <2> QED  BY <2>3, <2>6, <2>7
<1> QED  BY <1>1, SpecExecInv, PTL
=============================================================================
