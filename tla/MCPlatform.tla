----------------------------- MODULE MCPlatform -----------------------------
(***************************************************************************)
(* Two calls by the gateway and one from inside, on workflows of two       *)
(* steps.                                                                  *)
(***************************************************************************)
EXTENDS Platform

CONSTANTS a, b

MCStepIds == {a, b}

MCRuns == Calls \cup Insiders \cup (1 .. MaxExecutions) \X MCStepIds

S(id, deps, gated) == [step_id |-> id, depends_on |-> deps, requires_approval |-> gated]

\* A chain, and a gate before a step.
MCDefinitions ==
    {<<S(a, {}, FALSE), S(b, {a}, FALSE)>>,
     <<S(a, {}, TRUE), S(b, {a}, FALSE)>>}

\* A task that asks for an approval; and one of five steps, which completes or,
\* under LangGraph's recursion limit, raises.
Escalates == [role |-> "receptionist", intents |-> {"call"}]
FiveSteps == [role |-> "sales", intents |-> {"email"}]

MCInputs == {Escalates, FiveSteps}

MCInputOf == [s \in MCStepIds |-> IF s = a THEN Escalates ELSE FiveSteps]

MCBudgets == {DefaultBudget}
=============================================================================
