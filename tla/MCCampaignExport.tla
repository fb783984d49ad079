-------------------------- MODULE MCCampaignExport --------------------------
(***************************************************************************)
(* Instances of CampaignExport over the campaigns of MCQuestionCampaign.   *)
(* The bank has the questions "a" and "b", one repetition each: pilot asks *)
(* both, pilot-2 asks "a" again with the same instance.                    *)
(***************************************************************************)
EXTENDS CampaignExport

MCPlan == [c \in Campaigns |->
    CASE c = "pilot"   -> <<3, 1>>
      [] c = "pilot-2" -> <<2>>
      [] c = "mixed"   -> <<4>>]

MCMatches == [c \in Campaigns |->
    CASE c = "pilot"   -> {1, 2, 3}
      [] c = "pilot-2" -> {2}
      [] c = "mixed"   -> {4}]

MCQuestionOf   == [r \in RunIds |-> IF r = 3 THEN "b" ELSE "a"]
MCRepetitionOf == [r \in RunIds |-> 1]
MCInstanceOf   == MCQuestionOf

AllModes == Mode
Fresh    == {[force |-> FALSE, resume |-> FALSE]}

One == {"p1"}
=============================================================================
