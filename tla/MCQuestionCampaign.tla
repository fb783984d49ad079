------------------------ MODULE MCQuestionCampaign ------------------------
(***************************************************************************)
(* Instances of QuestionCampaign.  The campaigns "pilot" and "pilot-2"     *)
(* have names the collision glob confuses: pilot-*.json also finds the     *)
(* files of pilot-2.  "mixed" plans a run of another ISA-95 level.         *)
(***************************************************************************)
EXTENDS QuestionCampaign

MCPlan == [c \in Campaigns |->
    CASE c = "pilot"   -> <<1, 3>>
      [] c = "pilot-2" -> <<2>>
      [] c = "mixed"   -> <<4, 5>>]

MCMatches == [c \in Campaigns |->
    CASE c = "pilot"   -> {1, 2, 3}
      [] c = "pilot-2" -> {2}
      [] c = "mixed"   -> {4, 5}]

Fresh  == [force |-> FALSE, resume |-> FALSE]
Resume == [force |-> FALSE, resume |-> TRUE]
NoForce == {Fresh, Resume}

(* One operator, or two processes at once.                                 *)
One == {"p1"}
Two == {"p1", "p2"}
=============================================================================
