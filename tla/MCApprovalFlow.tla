--------------------------- MODULE MCApprovalFlow ---------------------------
(***************************************************************************)
(* One workflow through all services: a step whose task asks for an        *)
(* approval, a step that depends on it, a gate behind both; and a client   *)
(* that retries a task.  Nobody decides an approval.                       *)
(***************************************************************************)
EXTENDS Platform

CONSTANTS a, b, c

MCStepIds == {a, b, c}

MCRuns == Calls \cup Insiders \cup (1 .. MaxExecutions) \X MCStepIds

S(id, deps, gated) == [step_id |-> id, depends_on |-> deps, requires_approval |-> gated]

MCDefinitions == {<<S(a, {}, FALSE), S(b, {a}, FALSE), S(c, {b}, TRUE)>>}

Escalates == [role |-> "receptionist", intents |-> {"call"}]
Completes == [role |-> "scheduling", intents |-> {}]

MCInputs == {Escalates, Completes}

MCInputOf == [s \in MCStepIds |-> IF s = a THEN Escalates ELSE Completes]

MCBudgets == {DefaultBudget}
=============================================================================
