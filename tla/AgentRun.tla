----------------------------- MODULE AgentRun -----------------------------
(***************************************************************************)
(* What a call of run_agent promises, without nodes, plans or observations:*)
(* a run begins with its input and ends, in one step, as its input says.   *)
(* AgentLoop implements it.                                                *)
(***************************************************************************)
EXTENDS AgentTasks

VARIABLES
    library,   \* whether LangGraph could be imported
    task,      \* the input of each run
    outcome    \* how each run ended, and the steps it reports

runVars == <<library, task, outcome>>

NoTask  == [role |-> "other", intents |-> {}, budget |-> 0]
Ends    == {"idle", "running", "completed", "escalated", "exceeded", "raised"}
Idle    == [end |-> "idle", steps |-> 0]
Running == [end |-> "running", steps |-> 0]
Raised  == [end |-> "raised", steps |-> 0]

---------------------------------------------------------------------------

\* A call is asked for, and no booking: the booking would come first.
AsksForCall(t) == "call" \in t.intents /\ "book" \notin t.intents

PlanLength(t) == Len(PlanFor(t.role, ProcedureFor(t.role)))

\* The steps a run executes when nothing interrupts it.  The budget is
\* looked at after a step: one step is executed even when it is 0.
StepsNeeded(t) ==
    IF AsksForCall(t) \/ t.budget = 0 THEN 1
    ELSE IF t.budget < PlanLength(t) THEN t.budget
    ELSE PlanLength(t)

\* A plan as long as the budget is reported as exceeding it: the budget is
\* tested before the success of the last step.
Verdict(t) ==
    [end   |-> IF AsksForCall(t) THEN "escalated"
               ELSE IF t.budget <= PlanLength(t) THEN "exceeded"
               ELSE "completed",
     steps |-> StepsNeeded(t)]

\* Three nodes prepare a run and five more execute a step.
Supersteps(t) == 3 + 5 * StepsNeeded(t)

Promise(t) ==
    IF library /\ Supersteps(t) > RecursionLimit THEN Raised ELSE Verdict(t)

---------------------------------------------------------------------------

Init ==
    /\ library \in BOOLEAN
    /\ task = [r \in Runs |-> NoTask]
    /\ outcome = [r \in Runs |-> Idle]

Begin(r, t) ==
    /\ outcome[r] = Idle
    /\ task' = [task EXCEPT ![r] = t]
    /\ outcome' = [outcome EXCEPT ![r] = Running]
    /\ UNCHANGED library

End(r) ==
    /\ outcome[r] = Running
    /\ outcome' = [outcome EXCEPT ![r] = Promise(task[r])]
    /\ UNCHANGED <<library, task>>

Next == \E r \in Runs : End(r) \/ \E t \in Tasks : Begin(r, t)

SafetySpec == Init /\ [][Next]_runVars

\* A run is a loop without waiting: it ends.
Spec == SafetySpec /\ \A r \in Runs : WF_runVars(End(r))
===========================================================================
