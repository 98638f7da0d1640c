--------------------------- MODULE WorkflowEngine ---------------------------
(***************************************************************************)
(* The workflow engine (src/apps/workflow_engine/app/main.py): a store of  *)
(* workflow definitions, their executions, and the DAG walker that         *)
(* dispatches ready steps to the agent runtime, pauses at gated steps and  *)
(* resumes after POST .../advance.                                         *)
(*                                                                         *)
(* execute_workflow and advance_workflow are coroutines: a walk runs on    *)
(* the event loop and gives it up only while it awaits the agent runtime.  *)
(* "loop" is the request that holds the event loop, so that what the walk  *)
(* does between two awaits excludes every other walk.  cancel_workflow and *)
(* decide_approval are plain "def" endpoints: they run on worker threads   *)
(* and interleave with the steps of a walk.  A segment of a walk is        *)
(* therefore split wherever a thread can observe, or undo, half of it.     *)
(*                                                                         *)
(* Identifiers are ordinals in creation order.  The maximal numbers of     *)
(* workflows, executions and approvals are bounds on what clients create.  *)
(* Time stamps, names and payloads are left out.                           *)
(***************************************************************************)
EXTENDS Approvals, Sequences

CONSTANTS
    MaxWorkflows,   \* bound on the number of workflows
    MaxExecutions,  \* bound on the number of executions
    Requests,       \* slots for in-flight execute and advance requests
    NoRequest,      \* the event loop is free
    Cancellers,     \* worker threads that may be inside cancel_workflow
    Definitions     \* the "steps" lists clients post

\* A step of a WorkflowCreate, as far as the walker looks at it.
Step ==
    [step_id : StepIds, depends_on : SUBSET StepIds, requires_approval : BOOLEAN]

ASSUME EngineConstants ==
    /\ MaxWorkflows \in Nat
    /\ MaxExecutions \in Nat
    /\ NoRequest \notin Requests
    /\ Definitions \subseteq Seq(Step)

VARIABLES
    workflows,      \* _workflows
    executions,     \* _executions
    walks,          \* the local state of each request inside _walk_dag
    loop,           \* the request holding the event loop, or NoRequest
    cancellers,     \* the cancel_workflow call each worker thread is in
    posted          \* executions -> steps -> POSTs sent for it, up to 2

engineVars == <<workflows, executions, walks, loop, cancellers, posted>>
vars == <<engineVars, approvalVars>>

WorkflowIds == 1..MaxWorkflows
ExecutionIds == 1..MaxExecutions

\* WorkflowStatus; an execution never has the status "pending".
WorkflowState == {"absent", "pending", "running", "paused", "completed", "failed"}
ExecutionState == WorkflowState \ {"pending"}

\* The "status" of a step result; "none" when step_results has no such key.
\* "escalated" and "completed" come from the agent runtime, "approved" from
\* advance_workflow, "failed" from either side of the HTTP call; "unreadable" is
\* an answer that is JSON and no object, so that it has no status.
Outcome == {"completed", "escalated", "failed"}
Result == Outcome \cup {"none", "approved", "unreadable"}

Workflow == [status : WorkflowState, steps : Definitions \cup {<<>>}]

Execution ==
    [workflow_id : WorkflowIds \cup {0},
     status : ExecutionState,
     current_step : StepIds \cup {NoStep},
     step_results : [StepIds -> Result]]

\* A walk: its place in the code, its execution, its two local sets, and the
\* positions of the steps of the current batch that are still to be handled.
\*   advancing  advance_workflow found the execution paused
\*   walking    in the loops of _walk_dag
\*   posting    awaiting the agent runtime
\*   pausing    the execution is paused, the workflow not yet
\*   finishing  the execution has its verdict, the workflow not yet
Walk ==
    [pc : {"idle", "advancing", "walking", "posting", "pausing", "finishing"},
     execution : ExecutionIds \cup {0},
     completed : SUBSET StepIds,
     failed : SUBSET StepIds,
     ready : SUBSET Nat]

\* A call of cancel_workflow: the executions that existed when its iteration
\* began, the position of the iteration, and whether the test just succeeded.
CancelCall ==
    [pc : {"idle", "scan", "write"},
     workflow : WorkflowIds \cup {0},
     keys : SUBSET ExecutionIds,
     index : Nat]

\* Type invariant of the engine.
TypeOK ==
    /\ ApprovalsTypeOK
    /\ workflows \in [WorkflowIds -> Workflow]
    /\ executions \in [ExecutionIds -> Execution]
    /\ walks \in [Requests -> Walk]
    /\ loop \in Requests \cup {NoRequest}
    /\ cancellers \in [Cancellers -> CancelCall]
    /\ posted \in [ExecutionIds -> [StepIds -> 0..2]]

NoResults == [s \in StepIds |-> "none"]

NoExecution ==
    [workflow_id |-> 0, status |-> "absent", current_step |-> NoStep,
     step_results |-> NoResults]

\* The record execute_workflow creates.
NewExecution(w) ==
    [workflow_id |-> w, status |-> "running", current_step |-> NoStep,
     step_results |-> NoResults]

\* Slip: a status that WorkflowStatus does not have.
WaitingAt(execution, s) ==
    [workflow_id |-> execution.workflow_id, status |-> "waiting", current_step |-> s,
     step_results |-> execution.step_results]

\* Slip: the pause comes before current_step is set.
PausedBefore(execution, s) ==
    [workflow_id |-> execution.workflow_id, status |-> "paused",
     current_step |-> execution.current_step, step_results |-> execution.step_results]

\* The record of an execution paused at step s.
PausedAt(execution, s) ==
    [workflow_id |-> execution.workflow_id, status |-> "paused", current_step |-> s,
     step_results |-> execution.step_results]

\* Slip: the execution goes on and is still paused for others.
ResumedStillPaused(execution, results) ==
    [execution EXCEPT !.step_results = results]

\* The record of an execution that runs again with the results so far.
ResumedWith(execution, results) ==
    [workflow_id |-> execution.workflow_id, status |-> "running",
     current_step |-> execution.current_step, step_results |-> results]

\* A walk at place pc of the code, with empty local sets.
NewWalk(pc, e) ==
    [pc |-> pc, execution |-> e, completed |-> {}, failed |-> {}, ready |-> {}]

NoWalk == NewWalk("idle", 0)

NoCancel == [pc |-> "idle", workflow |-> 0, keys |-> {}, index |-> 1]

Init ==
    /\ ApprovalsInit
    /\ workflows = [w \in WorkflowIds |-> [status |-> "absent", steps |-> <<>>]]
    /\ executions = [e \in ExecutionIds |-> NoExecution]
    /\ walks = [r \in Requests |-> NoWalk]
    /\ loop = NoRequest
    /\ cancellers = [t \in Cancellers |-> NoCancel]
    /\ posted = [e \in ExecutionIds |-> [s \in StepIds |-> 0]]

-----------------------------------------------------------------------------

FreshWorkflow(w) ==
    /\ workflows[w].status = "absent"
    /\ \A v \in WorkflowIds : v < w => workflows[v].status # "absent"

Existing == {e \in ExecutionIds : executions[e].status # "absent"}

FreshExecution(e) ==
    /\ e \notin Existing
    /\ \A f \in ExecutionIds : f < e => f \in Existing

\* The execution advance_workflow finds: the first one inserted for w.
FirstExecution(w, e) ==
    /\ executions[e].workflow_id = w
    /\ \A f \in ExecutionIds : f < e => executions[f].workflow_id # w

Steps(e) == workflows[executions[e].workflow_id].steps

\* Slip: _resolve_ready_steps looks at the completed set only.
ReadyStepsRetrying(steps, completed, failed) ==
    {i \in DOMAIN steps :
        /\ steps[i].step_id \notin completed
        /\ steps[i].depends_on \subseteq completed}

\* Slip: _resolve_ready_steps takes a dependency that failed for one that is done.
ReadyStepsAfterFailure(steps, completed, failed) ==
    {i \in DOMAIN steps :
        /\ steps[i].step_id \notin completed \cup failed
        /\ steps[i].depends_on \subseteq completed \cup failed}

\* _resolve_ready_steps, as the set of the positions of the ready steps.
ReadySteps(steps, completed, failed) ==
    {i \in DOMAIN steps :
        /\ steps[i].step_id \notin completed \cup failed
        /\ steps[i].depends_on \subseteq completed
        /\ steps[i].depends_on \cap failed = {}}

\* The sets _walk_dag derives from the results an execution already has; one
\* with an unreadable result is never walked again (StrandedByAnswer).
CompletedIn(results) == {s \in StepIds : results[s] \notin {"none", "failed"}}
FailedIn(results) == {s \in StepIds : results[s] = "failed"}

\* r has the event loop and is at place pc of the code.
On(r, pc) == loop = r /\ walks[r].pc = pc

\* A coroutine may go on, or begin, only when no other one is inside a segment.
MayEnter(r) == loop = NoRequest

\* Slip: nothing is written to the workflow.
SetWorkflowForgotten(w, status) == UNCHANGED workflows

SetWorkflow(w, status) == workflows' = [workflows EXCEPT ![w].status = status]

\* Slip: every step is sent, gated or not.
AnyStep(step) == TRUE

\* The walker sends the steps that require no approval.
Ungated(step) == ~step.requires_approval

\* i is the position of the step that _walk_dag handles next, or awaits.
Handling(r, i) == i \in walks[r].ready /\ \A j \in walks[r].ready : i <= j

-----------------------------------------------------------------------------
(* create_workflow, execute_workflow and the walk of the DAG.              *)

\* create_workflow
CreateWorkflow(w, d) ==
    /\ FreshWorkflow(w)
    /\ workflows' = [workflows EXCEPT ![w] = [status |-> "pending", steps |-> d]]
    /\ UNCHANGED <<executions, walks, loop, cancellers, posted, approvalVars>>

\* execute_workflow creates an execution and enters _walk_dag, whose two local
\* sets are empty.  It neither reads nor writes the status of the workflow.
Execute(r, w, e) ==
    /\ MayEnter(r)
    /\ walks[r].pc = "idle"
    /\ workflows[w].status # "absent"
    /\ FreshExecution(e)
    /\ executions' = [executions EXCEPT ![e] = NewExecution(w)]
    /\ walks' = [walks EXCEPT ![r] = NewWalk("walking", e)]
    /\ loop' = r
    /\ UNCHANGED <<workflows, cancellers, posted, approvalVars>>

\* The walker resolves the steps that are ready; there are some.
NextBatch(r) ==
    LET e == walks[r].execution
        batch == ReadySteps(Steps(e), walks[r].completed, walks[r].failed)
    IN  /\ On(r, "walking")
        /\ walks[r].ready = {}
        /\ batch # {}
        /\ walks' = [walks EXCEPT ![r].ready = batch]
        /\ UNCHANGED <<workflows, executions, loop, cancellers, posted, approvalVars>>

\* The walker comes to a gated step: it asks for an approval and pauses the
\* execution.
Gate(r, a, i) ==
    LET e == walks[r].execution
        s == Steps(e)[i].step_id
    IN  /\ On(r, "walking")
        /\ Handling(r, i)
        /\ Steps(e)[i].requires_approval
        /\ FreshApproval(a)
        /\ approvals' = [approvals EXCEPT ![a] = NewApproval(s)]
        /\ executions' = [executions EXCEPT ![e] = PausedAt(@, s)]
        /\ walks' = [walks EXCEPT ![r].pc = "pausing"]
        /\ UNCHANGED <<workflows, loop, cancellers, posted, deciders>>

\* The walker pauses the workflow too, and the request returns.
PauseWorkflow(r) ==
    LET w == executions[walks[r].execution].workflow_id IN
    /\ On(r, "pausing")
    /\ SetWorkflow(w, "paused")
    /\ walks' = [walks EXCEPT ![r] = NoWalk]
    /\ loop' = NoRequest
    /\ UNCHANGED <<executions, cancellers, posted, approvalVars>>

\* The walker posts an ungated step to the agent runtime and awaits it.
Post(r, i) ==
    LET e == walks[r].execution
        s == Steps(e)[i].step_id
    IN  /\ On(r, "walking")
        /\ Handling(r, i)
        /\ Ungated(Steps(e)[i])
        /\ executions' = [executions EXCEPT ![e].current_step = s]
        /\ posted' = [posted EXCEPT ![e][s] = IF @ = 2 THEN 2 ELSE @ + 1]
        /\ walks' = [walks EXCEPT ![r].pc = "posting"]
        /\ loop' = NoRequest
        /\ UNCHANGED <<workflows, cancellers, approvalVars>>

\* Slip: the failure of a step is recorded in neither of the local sets.
RecordedDone(walk, i, done, failing) ==
    [pc |-> "walking", execution |-> walk.execution, ready |-> walk.ready \ {i},
     completed |-> walk.completed \cup done, failed |-> walk.failed]

\* The walk when the step at position i has its result: back in the loop, with
\* the step added to one of its local sets.
Recorded(walk, i, done, failing) ==
    [pc |-> "walking", execution |-> walk.execution, ready |-> walk.ready \ {i},
     completed |-> walk.completed \cup done, failed |-> walk.failed \cup failing]

\* The await ends and the walker records the result.  "failed" is the answer of
\* the runtime as well as any httpx.HTTPError: refused, 4xx, 5xx, 60s timeout.
Answer(r, i, o) ==
    LET e == walks[r].execution
        s == Steps(e)[i].step_id
    IN  /\ MayEnter(r)
        /\ walks[r].pc = "posting"
        /\ Handling(r, i)
        /\ executions' = [executions EXCEPT ![e].step_results[s] = o]
        /\ walks' = [walks EXCEPT ![r] =
               IF o = "failed" THEN Recorded(walks[r], i, {}, {s})
                               ELSE Recorded(walks[r], i, {s}, {})]
        /\ loop' = r
        /\ UNCHANGED <<workflows, cancellers, posted, approvalVars>>

\* The answer is a 200 whose body is not JSON: resp.json() raises what the
\* walker does not catch, and its request ends as a 500.
AnswerRaises(r) ==
    /\ MayEnter(r)
    /\ walks[r].pc = "posting"
    /\ walks' = [walks EXCEPT ![r] = NoWalk]
    /\ UNCHANGED <<workflows, executions, loop, cancellers, posted, approvalVars>>

\* The answer is JSON and no object: it is recorded, and result.get raises.
AnswerMisread(r, i) ==
    LET e == walks[r].execution
        s == Steps(e)[i].step_id
    IN  /\ MayEnter(r)
        /\ walks[r].pc = "posting"
        /\ Handling(r, i)
        /\ executions' = [executions EXCEPT ![e].step_results[s] = "unreadable"]
        /\ walks' = [walks EXCEPT ![r] = NoWalk]
        /\ UNCHANGED <<workflows, loop, cancellers, posted, approvalVars>>

\* Slip: no verdict on a walk without failures that did not reach every step.
FinalStatusOpen(steps, completed, failed) ==
    IF failed # {} THEN "failed"
    ELSE IF Cardinality(completed) = Len(steps) THEN "completed" ELSE "running"

\* Slip: a walk without failures is a success, however many steps it did.
FinalStatusOptimistic(steps, completed, failed) ==
    IF failed = {} THEN "completed" ELSE "failed"

\* The verdict on an execution with nothing left to do.
FinalStatus(steps, completed, failed) ==
    IF failed = {} /\ Cardinality(completed) = Len(steps) THEN "completed" ELSE "failed"

\* Nothing is ready: the walker writes the verdict to the execution.
Verdict(r) ==
    LET e == walks[r].execution
        steps == Steps(e)
        completed == walks[r].completed
        failed == walks[r].failed
    IN  /\ On(r, "walking")
        /\ walks[r].ready = {}
        /\ ReadySteps(steps, completed, failed) = {}
        /\ executions' =
               [executions EXCEPT ![e].status = FinalStatus(steps, completed, failed)]
        /\ walks' = [walks EXCEPT ![r].pc = "finishing"]
        /\ UNCHANGED <<workflows, loop, cancellers, posted, approvalVars>>

\* The walker copies the status of the execution, read again, to the workflow,
\* and the request returns.
FinishWalk(r) ==
    LET e == walks[r].execution IN
    /\ On(r, "finishing")
    /\ SetWorkflow(executions[e].workflow_id, executions[e].status)
    /\ walks' = [walks EXCEPT ![r] = NoWalk]
    /\ loop' = NoRequest
    /\ UNCHANGED <<executions, cancellers, posted, approvalVars>>

-----------------------------------------------------------------------------
(* advance_workflow                                                        *)

\* advance_workflow finds the first execution of w, and finds it paused.
AdvanceBegin(r, w, e) ==
    /\ MayEnter(r)
    /\ walks[r].pc = "idle"
    /\ workflows[w].status # "absent"
    /\ FirstExecution(w, e)
    /\ executions[e].status = "paused"
    /\ walks' = [walks EXCEPT ![r] = NewWalk("advancing", e)]
    /\ loop' = r
    /\ UNCHANGED <<workflows, executions, cancellers, posted, approvalVars>>

\* Slip: the gated step is not marked before the walk goes on.
ApprovedResultsUnmarked(results, s) == results

\* The step the execution was paused at counts as approved from now on.
ApprovedResults(results, s) ==
    IF s # NoStep /\ results[s] = "none" THEN [results EXCEPT ![s] = "approved"] ELSE results

\* The execution runs again, the step it was paused at is marked, and
\* _walk_dag starts from the results so far.
AdvanceResume(r) ==
    LET e == walks[r].execution
        results == ApprovedResults(executions[e].step_results, executions[e].current_step)
    IN  /\ On(r, "advancing")
        /\ executions' =
               [executions EXCEPT ![e] = ResumedWith(@, results)]
        /\ walks' = [walks EXCEPT ![r] =
               [pc |-> "walking", execution |-> e, ready |-> {},
                completed |-> CompletedIn(results), failed |-> FailedIn(results)]]
        /\ UNCHANGED <<workflows, loop, cancellers, posted, approvalVars>>

-----------------------------------------------------------------------------
(* cancel_workflow, on a worker thread                                     *)

\* The workflow fails, and the iteration over _executions begins.
CancelBegin(t, w) ==
    /\ cancellers[t].pc = "idle"
    /\ workflows[w].status # "absent"
    /\ SetWorkflow(w, "failed")
    /\ cancellers' = [cancellers EXCEPT ![t] =
           [pc |-> "scan", workflow |-> w, keys |-> Existing, index |-> 1]]
    /\ UNCHANGED <<executions, walks, loop, posted, approvalVars>>

\* _executions grew: the iteration raises RuntimeError and the call ends.
CancelInterrupted(t) ==
    /\ cancellers[t].pc = "scan"
    /\ cancellers[t].keys # Existing
    /\ cancellers' = [cancellers EXCEPT ![t] = NoCancel]
    /\ UNCHANGED <<workflows, executions, walks, loop, posted, approvalVars>>

\* The next execution of the iteration is an active one of this workflow.
CancelTest(t) ==
    LET e == cancellers[t].index IN
    /\ cancellers[t].pc = "scan"
    /\ cancellers[t].keys = Existing
    /\ e \in Existing
    /\ executions[e].workflow_id = cancellers[t].workflow
    /\ executions[e].status \in {"running", "paused"}
    /\ cancellers' = [cancellers EXCEPT ![t].pc = "write"]
    /\ UNCHANGED <<workflows, executions, walks, loop, posted, approvalVars>>

\* The next execution of the iteration is left alone.
CancelSkip(t) ==
    LET e == cancellers[t].index IN
    /\ cancellers[t].pc = "scan"
    /\ cancellers[t].keys = Existing
    /\ e \in Existing
    /\ \/ executions[e].workflow_id # cancellers[t].workflow
       \/ executions[e].status \notin {"running", "paused"}
    /\ cancellers' = [cancellers EXCEPT ![t].index = @ + 1]
    /\ UNCHANGED <<workflows, executions, walks, loop, posted, approvalVars>>

\* The execution that passed the test fails, whatever its status is by now.
CancelWrite(t) ==
    /\ cancellers[t].pc = "write"
    /\ executions' = [executions EXCEPT ![cancellers[t].index].status = "failed"]
    /\ cancellers' = [cancellers EXCEPT ![t] =
           [pc |-> "scan", workflow |-> @.workflow, keys |-> @.keys, index |-> @.index + 1]]
    /\ UNCHANGED <<workflows, walks, loop, posted, approvalVars>>

\* The iteration is over and the call returns.
CancelDone(t) ==
    /\ cancellers[t].pc = "scan"
    /\ cancellers[t].keys = Existing
    /\ cancellers[t].index \notin Existing
    /\ cancellers' = [cancellers EXCEPT ![t] = NoCancel]
    /\ UNCHANGED <<workflows, executions, walks, loop, posted, approvalVars>>

-----------------------------------------------------------------------------

\* A step of the coroutine that has the event loop.
LoopStep(r) ==
    \/ NextBatch(r)
    \/ Verdict(r)
    \/ FinishWalk(r)
    \/ PauseWorkflow(r)
    \/ AdvanceResume(r)
    \/ \E i \in walks[r].ready : Post(r, i)
    \/ \E i \in walks[r].ready, a \in ApprovalIds : Gate(r, a, i)

\* The agent runtime answers, or the call of it fails.
Answered(r) ==
    \/ \E i \in walks[r].ready, o \in Outcome : Answer(r, i, o)
    \/ AnswerRaises(r)
    \/ \E i \in walks[r].ready : AnswerMisread(r, i)

\* A step of a thread inside cancel_workflow.
CancelStep(t) ==
    \/ CancelInterrupted(t)
    \/ CancelTest(t)
    \/ CancelSkip(t)
    \/ CancelWrite(t)
    \/ CancelDone(t)

\* A client's request reaches the engine.
ClientStep ==
    \/ \E w \in WorkflowIds, d \in Definitions : CreateWorkflow(w, d)
    \/ \E r \in Requests, w \in WorkflowIds, e \in ExecutionIds :
           Execute(r, w, e) \/ AdvanceBegin(r, w, e)
    \/ \E t \in Cancellers, w \in WorkflowIds : CancelBegin(t, w)

Next ==
    \/ ClientStep
    \/ \E r \in Requests : LoopStep(r) \/ Answered(r)
    \/ \E t \in Cancellers : CancelStep(t)
    \/ ApprovalsNext /\ UNCHANGED engineVars

\* asyncio runs a coroutine that is ready and serves its ready queue in order;
\* the call of the runtime ends after at most 60 seconds; worker threads run.
\* Nothing obliges a client to send a request.
Fairness ==
    /\ \A r \in Requests : WF_vars(LoopStep(r)) /\ SF_vars(Answered(r))
    /\ \A t \in Cancellers : WF_vars(CancelStep(t))

SafetySpec == Init /\ [][Next]_vars

Spec == SafetySpec /\ Fairness

-----------------------------------------------------------------------------
(* Properties                                                              *)

\* create_workflow accepts any list of steps; several properties hold only of
\* the workflows whose step identifiers are distinct.
UniqueIds(steps) ==
    \A i, j \in DOMAIN steps : steps[i].step_id = steps[j].step_id => i = j

WellFormed(e) == e \in Existing /\ UniqueIds(Steps(e))

\* The walks in progress on e.
WalksOn(e) == {r \in Requests : walks[r].pc # "idle" /\ walks[r].execution = e}

\* The step with identifier s among the steps of e.
StepOf(e, s) == {Steps(e)[i] : i \in {j \in DOMAIN Steps(e) : Steps(e)[j].step_id = s}}

\* No two requests walk the same execution: a retried execute starts another
\* one, and advance_workflow tests and sets "paused" without an await.
SingleWalker ==
    \A r1, r2 \in Requests :
        /\ walks[r1].pc # "idle"
        /\ walks[r2].pc # "idle"
        /\ walks[r1].execution = walks[r2].execution
        => r1 = r2

\* A step is sent to the agent runtime at most once per execution, over any
\* number of pauses, resumptions and failures (_walk_dag).
AtMostOncePost ==
    \A e \in ExecutionIds :
        WellFormed(e) => \A s \in StepIds : posted[e][s] <= 1

\* A step is sent only after each of its dependencies was recorded as done or
\* approved, and no recorded failure lies below it (_resolve_ready_steps).
DependenciesRespected ==
    \A e \in ExecutionIds :
        WellFormed(e) =>
            \A s \in StepIds : posted[e][s] > 0 =>
                \A step \in StepOf(e, s) :
                    step.depends_on \subseteq CompletedIn(executions[e].step_results)

\* A gated step is never sent to the agent runtime: _walk_dag pauses at it, and
\* advance_workflow records the approval in its place.  The sequence diagram has
\* it sent, approved and resumed: see CompletedIsDoneOrApproved in Platform.
GateHolds ==
    \A e \in ExecutionIds :
        WellFormed(e) =>
            \A s \in StepIds : posted[e][s] > 0 =>
                \A step \in StepOf(e, s) : ~step.requires_approval

\* The local sets of a walk, which the recorded results never correct, agree
\* with those results, whether the walk is fresh or resumed (_walk_dag).
LocalSetsMatchResults ==
    \A r \in Requests :
        LET e == walks[r].execution IN
        walks[r].pc \in {"walking", "posting", "finishing"} /\ WellFormed(e) =>
            /\ walks[r].completed = CompletedIn(executions[e].step_results)
            /\ walks[r].failed = FailedIn(executions[e].step_results)

\* An execution is completed only when each step of its workflow has a result
\* and none failed (_walk_dag's verdict), cyclic and unknown dependencies
\* included.
CompletedMeansAll ==
    \A e \in ExecutionIds :
        executions[e].status = "completed" =>
            \A i \in DOMAIN Steps(e) :
                executions[e].step_results[Steps(e)[i].step_id]
                    \notin {"none", "failed", "unreadable"}

\* A paused execution waits at a gated step that has no result yet, whose
\* dependencies are done, and for which an approval was requested: what
\* advance_workflow marks is the gate, never another step.
PausedAwaitsGate ==
    \A e \in ExecutionIds :
        executions[e].status = "paused" /\ WellFormed(e) =>
            LET s == executions[e].current_step IN
            /\ s # NoStep
            /\ executions[e].step_results[s] = "none"
            /\ \E step \in StepOf(e, s) :
                  /\ step.requires_approval
                  /\ step.depends_on \subseteq CompletedIn(executions[e].step_results)
            /\ \E a \in ApprovalIds : approvals[a].task_id = s

\* A gate asks for one approval per execution: a resumed walk does not
\* encounter again the gate it was paused at (comment in advance_workflow).
GateAskedOnce ==
    \A s \in StepIds :
        (\A w \in WorkflowIds : UniqueIds(workflows[w].steps)) =>
            Cardinality({a \in ApprovalIds : approvals[a].task_id = s})
                <= Cardinality(Existing) + MaxRequested

\* The execution is "running" and no request walks it.  Nothing resumes it, as
\* it is not paused.
Stranded(e) == executions[e].status = "running" /\ WalksOn(e) = {}

\* Only an answer that the walker cannot read strands an execution (the except
\* clause of _walk_dag catches httpx.HTTPError alone): it was sent the step it
\* is at, and has no result of it that says anything.  And an execution that
\* recorded such an answer is never walked, paused or completed afterwards.
StrandedByAnswer ==
    \A e \in Existing :
        LET s       == executions[e].current_step
            results == executions[e].step_results
        IN  /\ Stranded(e) =>
                  /\ s # NoStep
                  /\ posted[e][s] > 0
                  /\ WellFormed(e) => results[s] \in {"none", "unreadable"}
            /\ (\E z \in StepIds : results[z] = "unreadable") =>
                  WalksOn(e) = {} /\ executions[e].status \in {"running", "failed"}

\* While nobody cancels, a workflow with executions, none of them walked and none
\* stranded, has the status of one of its executions.
StatusesAgree ==
    \A w \in WorkflowIds :
        LET runs == {e \in Existing : executions[e].workflow_id = w} IN
        runs # {} /\ (\A e \in runs : WalksOn(e) = {} /\ ~Stranded(e)) =>
            \E e \in runs : workflows[w].status = executions[e].status

\* A recorded result is never replaced, by a late answer, a resumption or
\* another walk (_walk_dag, advance_workflow).
ResultsAreFinal ==
    [][\A e \in ExecutionIds, s \in StepIds :
          WellFormed(e) /\ executions[e].step_results[s] # "none" =>
              executions'[e].step_results[s] = executions[e].step_results[s]]_vars

\* Every execution that runs is eventually paused, completed or failed, or its
\* request has ended as an error (StrandedByAnswer says by which): the walk ends
\* on every definition, whatever the runtime answers.
RunningSettles ==
    \A e \in ExecutionIds :
        executions[e].status = "running" ~> executions[e].status # "running" \/ Stranded(e)

-----------------------------------------------------------------------------
(* What the documentation says and the code does not do.                   *)

\* cancel_workflow: "Cancel a running or paused workflow" and "Also cancel any
\* active executions": an execution that was made to fail does not run on,
\* pause or complete afterwards.
CancelIsFinal ==
    [][\A e \in ExecutionIds :
          executions[e].status = "failed" => executions'[e].status = "failed"]_vars

\* advance_workflow: "Advance a paused or waiting workflow to the next step":
\* the execution it finds is the paused one.
AdvanceFindsPaused ==
    \A e \in ExecutionIds :
        executions[e].status = "paused" => FirstExecution(executions[e].workflow_id, e)
=============================================================================
