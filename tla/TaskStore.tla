----------------------------- MODULE TaskStore -----------------------------
(***************************************************************************)
(* The agent runtime's _tasks, and the handlers that fill it.  They are    *)
(* plain functions: FastAPI runs each request on a worker thread, so two   *)
(* of them interleave anywhere.  A run of the agent is the abstract one of *)
(* AgentRun, which the loop implements.                                    *)
(*                                                                         *)
(* A request and the run it makes have one name, and a task has the name   *)
(* of the request that executed it.  No handler passes max_steps on: every *)
(* run has the default budget.                                             *)
(***************************************************************************)
EXTENDS AgentTasks

CONSTANT Inputs   \* the inputs clients send, as far as the agent looks

ASSUME InputsAssumption ==
    Inputs \subseteq [role : Roles, intents : SUBSET Intents]

VARIABLES
    library, task, outcome,   \* the runs, see AgentRun
    tasks,                    \* _tasks
    requests                  \* where each request is

Agent == INSTANCE AgentRun

agentVars == <<library, task, outcome>>
storeVars == <<library, task, outcome, tasks, requests>>

DefaultBudget == 20

ASSUME DefaultAssumption == DefaultBudget \in Budgets

\* A record of _tasks; "result" stands for the text that tells how it ended.
Record == [input        : [role : Roles, intents : SUBSET Intents],
           status       : {"absent", "completed", "escalated", "failed"},
           result       : Agent!Ends,
           steps        : Nat,
           completed_at : BOOLEAN]

Absent == [input |-> [role |-> "other", intents |-> {}], status |-> "absent",
           result |-> "idle", steps |-> 0, completed_at |-> FALSE]

\* What run_agent is given for an input.
TaskOf(input) == [role |-> input.role, intents |-> input.intents,
                  budget |-> DefaultBudget]

\* A request; "of" is the task it executes or resumes.
Request == [kind : {"none", "execute", "resume", "simulate"}, of : Runs,
            at : {"new", "running", "status", "result", "steps", "answered",
                  "error"}]

At(kind, of, at) == [kind |-> kind, of |-> of, at |-> at]

Init ==
    /\ Agent!Init
    /\ tasks = [r \in Runs |-> Absent]
    /\ requests = [r \in Runs |-> At("none", r, "new")]

---------------------------------------------------------------------------
(***************************************************************************)
(* The handlers                                                            *)
(***************************************************************************)

\* run_agent is called with an input, for a request of some kind.
RunFor(r, kind, of, input) ==
    /\ requests[r].at = "new"
    /\ Agent!Begin(r, TaskOf(input))
    /\ requests' = [requests EXCEPT ![r] = At(kind, of, "running")]
    /\ UNCHANGED tasks

\* The run of a request of this kind has returned.
Returned(r, kind) ==
    /\ requests[r].kind = kind
    /\ requests[r].at = "running"
    /\ outcome[r].end \in {"completed", "escalated", "exceeded"}

\* Slip: a run that did not complete blocks its task.
StatusBlocked(end) == IF end = "completed" THEN end ELSE "blocked"

\* TaskStatus as the handlers derive it from the state of the run.
StatusOf(end) == IF end = "exceeded" THEN "failed" ELSE end

Execute(r, input) == RunFor(r, "execute", r, input)

\* The record is inserted whole.
ExecuteEnd(r) ==
    /\ Returned(r, "execute")
    /\ tasks' = [tasks EXCEPT ![r] =
                   [input        |-> [role    |-> task[r].role,
                                      intents |-> task[r].intents],
                    status       |-> StatusOf(outcome[r].end),
                    result       |-> outcome[r].end,
                    steps        |-> outcome[r].steps,
                    completed_at |-> outcome[r].end = "completed"]]
    /\ requests' = [requests EXCEPT ![r].at = "answered"]
    /\ UNCHANGED agentVars

\* Slip: the input of the task is not kept for the new run.
ResumeInputLost(r, id) ==
    /\ tasks[id].status \in {"failed", "escalated"}
    /\ RunFor(r, "resume", id, [role |-> tasks[id].input.role, intents |-> {}])

\* The test of the status, then the run from the original parameters.
Resume(r, id) ==
    /\ tasks[id].status \in {"failed", "escalated"}
    /\ RunFor(r, "resume", id, tasks[id].input)

ResumeStatus(r) ==
    /\ Returned(r, "resume")
    /\ tasks' = [tasks EXCEPT ![requests[r].of].status =
                   StatusOf(outcome[r].end)]
    /\ requests' = [requests EXCEPT ![r].at = "status"]
    /\ UNCHANGED agentVars

\* The result; the plan, which depends on the role alone, goes with it.
ResumeResult(r) ==
    /\ requests[r].at = "status"
    /\ tasks' = [tasks EXCEPT ![requests[r].of].result = outcome[r].end]
    /\ requests' = [requests EXCEPT ![r].at = "result"]
    /\ UNCHANGED agentVars

ResumeSteps(r) ==
    /\ requests[r].at = "result"
    /\ tasks' = [tasks EXCEPT ![requests[r].of].steps = outcome[r].steps]
    /\ requests' = [requests EXCEPT ![r].at = "steps"]
    /\ UNCHANGED agentVars

\* Slip: the stamp does not depend on how the run ended.
ResumeStampAlways(r) ==
    /\ requests[r].at = "steps"
    /\ tasks' = [tasks EXCEPT ![requests[r].of].completed_at = TRUE]
    /\ requests' = [requests EXCEPT ![r].at = "answered"]
    /\ UNCHANGED agentVars

ResumeStamp(r) ==
    /\ requests[r].at = "steps"
    /\ tasks' = [tasks EXCEPT ![requests[r].of].completed_at =
                                @ \/ outcome[r].end = "completed"]
    /\ requests' = [requests EXCEPT ![r].at = "answered"]
    /\ UNCHANGED agentVars

Simulate(r, input) == RunFor(r, "simulate", r, input)

\* Slip: a simulation is kept like an execution.
SimulateEndKept(r) ==
    /\ Returned(r, "simulate")
    /\ tasks' = [tasks EXCEPT ![r].status = StatusOf(outcome[r].end)]
    /\ requests' = [requests EXCEPT ![r].at = "answered"]
    /\ UNCHANGED agentVars

\* A simulation answers and keeps nothing.
SimulateEnd(r) ==
    /\ Returned(r, "simulate")
    /\ requests' = [requests EXCEPT ![r].at = "answered"]
    /\ UNCHANGED <<agentVars, tasks>>

\* Slip: only an execution is answered when its run raises.
ErrorOfExecution(r) ==
    /\ requests[r].kind = "execute"
    /\ requests[r].at = "running"
    /\ outcome[r].end = "raised"
    /\ requests' = [requests EXCEPT ![r].at = "error"]
    /\ UNCHANGED <<agentVars, tasks>>

\* An exception of run_agent passes through every handler: the answer is 500.
Error(r) ==
    /\ requests[r].at = "running"
    /\ outcome[r].end = "raised"
    /\ requests' = [requests EXCEPT ![r].at = "error"]
    /\ UNCHANGED <<agentVars, tasks>>

RunStep(r) == Agent!End(r) /\ UNCHANGED <<tasks, requests>>

HandlerStep(r) ==
    \/ RunStep(r) \/ ExecuteEnd(r) \/ ResumeStatus(r) \/ ResumeResult(r)
    \/ ResumeSteps(r) \/ ResumeStamp(r) \/ SimulateEnd(r) \/ Error(r)

ClientStep(r) ==
    \/ \E input \in Inputs : Execute(r, input) \/ Simulate(r, input)
    \/ \E id \in Runs : Resume(r, id)

Next == \E r \in Runs : HandlerStep(r) \/ ClientStep(r)

SafetySpec == Init /\ [][Next]_storeVars

\* A thread that runs a handler is scheduled.
Spec == SafetySpec /\ \A r \in Runs : WF_storeVars(HandlerStep(r))

---------------------------------------------------------------------------
(***************************************************************************)
(* Properties                                                              *)
(***************************************************************************)

\* The type of the store.
StoreTypeOK ==
    /\ tasks \in [Runs -> Record]
    /\ requests \in [Runs -> Request]
    /\ \A r \in Runs : outcome[r].end \in Agent!Ends

\* What an input lets expect of a record: how the run ends and its steps.
Expected(input) == Agent!Promise(TaskOf(input))

\* A record is that of one run at every moment, though a resumption assigns
\* its fields one by one and two resumptions interleave: status, result, steps
\* and stamp agree with the input and so with each other (resume_task's
\* assignments without a lock).
RecordIsOneRun ==
    \A id \in Runs : tasks[id].status # "absent" =>
        LET end == Expected(tasks[id].input)
        IN  /\ tasks[id].status = StatusOf(end.end)
            /\ tasks[id].result = end.end
            /\ tasks[id].steps = end.steps
            /\ tasks[id].completed_at <=> end.end = "completed"

\* No step changes the status of a task that is stored, by however many
\* resumptions: a completed task stays completed, and an escalated one escalated.
\* An approval would not change it either: resume_task runs the task from its
\* beginning and does not look at approvals, although it says "from the last
\* checkpoint" (main.py:122); see CompletedIsDoneOrApproved in Platform.
EscalationStands ==
    [][\A id \in Runs : tasks[id].status # "absent" =>
          tasks'[id].status = tasks[id].status]_storeVars

\* There is one record for each execute request that was answered, and none
\* for simulations, resumptions and errors (execute_task, simulate_agent).
OneRecordPerExecution ==
    \A r \in Runs : tasks[r].status # "absent" <=>
        requests[r].kind = "execute" /\ requests[r].at = "answered"

\* Every request is answered, if only with an error: there are finitely many, and
\* an answer is never taken back (execute_task, resume_task, simulate_agent).
EveryRequestAnswered ==
    []<>(\A r \in Runs : requests[r].at \in {"new", "answered", "error"})
===========================================================================
