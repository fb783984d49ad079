------------------------ MODULE MCInvestigationAgent ------------------------
(***************************************************************************)
(* Small instances of InvestigationAgent for TLC.                          *)
(***************************************************************************)
EXTENDS InvestigationAgent

(* Two turns; each budget once small enough to be hit, and once absent.    *)
MCBudgets ==
    {[steps |-> 2, toolCalls |-> {}, tokens |-> {}, wallTime |-> {}],
     [steps |-> 2, toolCalls |-> {2}, tokens |-> {3}, wallTime |-> {}],
     [steps |-> 2, toolCalls |-> {3}, tokens |-> {}, wallTime |-> {2}]}

(* A read with a target, a browse without one, and the submission.         *)
MCToolCalls ==
    {[name |-> "get_current_value", target |-> "reactor_pressure"],
     [name |-> "browse_uns", target |-> None],
     [name |-> "submit_investigation", target |-> None]}

(* The historian alone: browse_uns is an unknown tool to the agent.        *)
MCGrants == {{"get_current_value"}}

=============================================================================
