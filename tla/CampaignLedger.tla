--------------------------- MODULE CampaignLedger ---------------------------
(***************************************************************************)
(* What a level's benchmark campaigns promise of their results, with no    *)
(* files, processes or crashes: a ledger in which each run id is recorded  *)
(* at most once and never changed, and reports that only ever describe     *)
(* campaigns all of whose planned runs are in the ledger.                  *)
(***************************************************************************)
EXTENDS Naturals, Sequences, FiniteSets

CONSTANTS RunIds, Campaigns, Plan

VARIABLES
    ledger,            \* ledger[r]: the status recorded for r, or "none"
    reports            \* the reports given so far

vars == <<ledger, reports>>

Init ==
    /\ ledger = [r \in RunIds |-> "none"]
    /\ reports = {}

RecordRun(r, status) ==
    /\ ledger[r] = "none"
    /\ ledger' = [ledger EXCEPT ![r] = status]
    /\ UNCHANGED reports

CountOf(c, status) ==
    Cardinality({i \in 1..Len(Plan[c]) : ledger[Plan[c][i]] = status})

ReportCampaign(c) ==
    /\ \A i \in 1..Len(Plan[c]) : ledger[Plan[c][i]] # "none"
    /\ reports' = reports \cup {[campaign |-> c,
                                 successful |-> CountOf(c, "COMPLETED"),
                                 failed |-> CountOf(c, "FAILED")]}
    /\ UNCHANGED ledger

Next ==
    \/ \E r \in RunIds, status \in {"COMPLETED", "FAILED"} : RecordRun(r, status)
    \/ \E c \in Campaigns : ReportCampaign(c)

Spec == Init /\ [][Next]_vars
=============================================================================
