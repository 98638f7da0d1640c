------------------------------ MODULE Platform ------------------------------
(***************************************************************************)
(* A client's call across the services: the gateway or the Ordibl adapter  *)
(* passes it on to the workflow engine or to the agent runtime; the engine *)
(* walks the DAG and posts each step to the runtime, which makes a task of *)
(* it.  Each of the three waits for the next at most 60 seconds, and what  *)
(* it then takes for a failure goes on behind its back.                    *)
(*                                                                         *)
(* A call is also the engine's request and the runtime's run that serve    *)
(* it; the run for step s of execution e is <<e, s>>.  Insiders call the   *)
(* services directly, for what the gateway does not offer: advance,        *)
(* simulate.  Nobody cancels, and approvals are requested by the engine    *)
(* alone.                                                                  *)
(***************************************************************************)
EXTENDS TaskStore, Proxies

CONSTANTS
    StepIds, NoStep, MaxApprovals, MaxRequested, Deciders, Users, NoUser,
    MaxWorkflows, MaxExecutions, NoRequest, Definitions,   \* the engine
    Insiders,   \* callers of the services that do not come by the gateway
    InputOf     \* steps -> the input that the engine posts for them

VARIABLES
    approvals, deciders, workflows, executions, walks, loop, cancellers, posted,
    replies     \* calls -> the execution a call began, and its status in the answer

Engine == INSTANCE WorkflowEngine WITH Requests <- Calls \cup Insiders, Cancellers <- {}

\* The bounds and names of the engine; each run has a name of its own, and
\* workflows have distinct step identifiers.
ASSUME PlatformAssumption ==
    /\ {MaxApprovals, MaxRequested, MaxWorkflows, MaxExecutions} \subseteq Nat
    /\ NoStep \notin StepIds /\ NoUser \notin Users
    /\ NoRequest \notin Calls \cup Insiders
    /\ Calls \cup Insiders \subseteq Runs
    /\ Engine!ExecutionIds \X StepIds \subseteq Runs
    /\ Calls \cap Insiders = {}
    /\ (Calls \cup Insiders) \cap (Engine!ExecutionIds \X StepIds) = {}
    /\ InputOf \in [StepIds -> Inputs]
    /\ Definitions \subseteq Seq(Engine!Step)
    /\ \A d \in Definitions : Engine!UniqueIds(d)

workflowVars ==
    <<approvals, deciders, workflows, executions, walks, loop, cancellers, posted>>

platformVars == <<storeVars, calls, workflowVars, replies>>

PlatformInit ==
    /\ Init
    /\ ProxiesInit
    /\ Engine!Init
    /\ replies = [c \in Calls |-> [execution |-> 0, status |-> "none"]]

EngineIdle == UNCHANGED <<workflowVars, replies>>
StoreIdle  == UNCHANGED storeVars
CallsIdle  == UNCHANGED calls

For(c, endpoint) == calls[c].to.endpoint = endpoint

\* The calls that are followed to the service they are for.
Followed == {to \in TaskEndpoints \cup WorkflowEndpoints \cup {Transcript} :
                to.endpoint \in {"execute_task", "retry_task", "execute_workflow",
                                 "transcript_webhook"}}

-----------------------------------------------------------------------------
(* The gateway and the adapter                                             *)

ClientCalls(c) ==
    /\ \E to \in Followed : Receive(c, to)
    /\ StoreIdle /\ EngineIdle

TellClient(c) == Tell(c) /\ StoreIdle /\ EngineIdle

GatewayFails(c) == (Unreachable(c) \/ GiveUp(c)) /\ StoreIdle /\ EngineIdle

-----------------------------------------------------------------------------
(* The agent runtime                                                       *)

\* A task is executed for a client, or for an utterance of a caller.
ServeTask(c) ==
    /\ For(c, "execute_task") \/ For(c, "transcript_webhook")
    /\ Arrive(c)
    /\ \E input \in Inputs : Execute(c, input)
    /\ EngineIdle

\* A task is resumed for a client who asks for a retry.
ServeRetry(c) ==
    /\ For(c, "retry_task")
    /\ Arrive(c)
    /\ \E id \in Runs : Resume(c, id)
    /\ EngineIdle

\* There is no such task, or it is completed.
RefuseRetry(c) ==
    /\ For(c, "retry_task")
    /\ AnswerAtOnce(c, "4xx")
    /\ StoreIdle /\ EngineIdle

\* The handler returns, or its run has raised.
ServedByRuntime(c) ==
    /\ \/ requests[c].at = "answered" /\ Finish(c, "200")
       \/ requests[c].at = "error" /\ Finish(c, "500")
    /\ StoreIdle /\ EngineIdle

\* The engine's POST of step s arrives, in time or after the engine gave up.
Deliver(e, s) ==
    /\ posted[e][s] > 0
    /\ Execute(<<e, s>>, InputOf[s])
    /\ CallsIdle /\ EngineIdle

RuntimeStep(r) == HandlerStep(r) /\ CallsIdle /\ EngineIdle

-----------------------------------------------------------------------------
(* The workflow engine                                                     *)

ServeWorkflow(c) ==
    /\ For(c, "execute_workflow")
    /\ Arrive(c)
    /\ \E w \in Engine!WorkflowIds, e \in Engine!ExecutionIds :
           /\ Engine!Execute(c, w, e)
           /\ replies' = [replies EXCEPT ![c].execution = e]
    /\ StoreIdle

\* There is no such workflow.
RefuseWorkflow(c) ==
    /\ For(c, "execute_workflow")
    /\ AnswerAtOnce(c, "4xx")
    /\ StoreIdle /\ EngineIdle

\* A step of a walk; with the last one the request returns the execution.
EngineStep(r) ==
    /\ Engine!LoopStep(r)
    /\ IF r \in Calls /\ walks'[r].pc = "idle"
       THEN /\ Finish(r, "200")
            /\ replies' = [replies EXCEPT ![r].status =
                              executions'[walks[r].execution].status]
       ELSE UNCHANGED <<calls, replies>>
    /\ StoreIdle

\* The runtime's answer to a POST: the status of its task, or a 500 if it raised.
OutcomeOf(run) ==
    IF requests[run].at = "error" THEN "failed" ELSE StatusOf(outcome[run].end)

\* The step whose answer r awaits, at position i.
Awaited(r, i) ==
    <<walks[r].execution, Engine!Steps(walks[r].execution)[i].step_id>>

\* The engine has the answer of the runtime, which is a task response or a 500:
\* with this runtime there is no other, so that the engine's AnswerRaises and
\* AnswerMisread are not taken here.
EngineAnswered(r) ==
    /\ walks[r].pc = "posting"
    /\ \E i \in walks[r].ready :
           /\ requests[Awaited(r, i)].at \in {"answered", "error"}
           /\ Engine!Answer(r, i, OutcomeOf(Awaited(r, i)))
    /\ UNCHANGED replies
    /\ StoreIdle /\ CallsIdle

\* Slip: a step that was not answered in time counts as completed.
EngineGivesUpAsDone(r) ==
    /\ \E i \in walks[r].ready : Engine!Answer(r, i, "completed")
    /\ UNCHANGED replies
    /\ StoreIdle /\ CallsIdle

\* The runtime cannot be reached, or has not answered in 60 seconds.
EngineGivesUp(r) ==
    /\ \E i \in walks[r].ready : Engine!Answer(r, i, "failed")
    /\ UNCHANGED replies
    /\ StoreIdle /\ CallsIdle

-----------------------------------------------------------------------------

\* Requests that do not come by the gateway, and the creation of workflows,
\* which the gateway passes on like any other call.
InsiderStep(x) ==
    \/ /\ \/ \E input \in Inputs : Simulate(x, input)
          \/ \E id \in Runs : Resume(x, id)
       /\ CallsIdle /\ EngineIdle
    \/ /\ \E w \in Engine!WorkflowIds, e \in Engine!ExecutionIds :
              Engine!AdvanceBegin(x, w, e)
       /\ StoreIdle /\ CallsIdle /\ UNCHANGED replies

NewWorkflow ==
    /\ \E w \in Engine!WorkflowIds, d \in Definitions : Engine!CreateWorkflow(w, d)
    /\ StoreIdle /\ CallsIdle /\ UNCHANGED replies

\* What a service does with a call that has been passed on to it.
ServiceStep(c) ==
    \/ ServeTask(c) \/ ServeRetry(c) \/ RefuseRetry(c) \/ ServedByRuntime(c)
    \/ ServeWorkflow(c) \/ RefuseWorkflow(c)

\* Something goes on in one of the services or in a handler of the gateway.
WorkStep ==
    \/ \E c \in Calls : ServiceStep(c) \/ TellClient(c)
    \/ \E r \in Runs : RuntimeStep(r)
    \/ \E e \in Engine!ExecutionIds, s \in StepIds : Deliver(e, s)
    \/ \E r \in Calls \cup Insiders : EngineStep(r) \/ EngineAnswered(r)

\* A timer fires, or a service cannot be reached.
FailureStep ==
    \/ \E c \in Calls : GatewayFails(c)
    \/ \E r \in Calls \cup Insiders : EngineGivesUp(r)

PlatformNext ==
    \/ NewWorkflow
    \/ \E c \in Calls : ClientCalls(c)
    \/ \E x \in Insiders : InsiderStep(x)
    \/ WorkStep
    \/ FailureStep

PlatformSafety == PlatformInit /\ [][PlatformNext]_platformVars

\* The services do not all stop while there is work for one of them: what is sent
\* arrives, threads and coroutines run.  No timer needs to fire, and none of the
\* services is promised a turn of its own, as there is only so much work.
PlatformSpec == PlatformSafety /\ WF_platformVars(WorkStep)

-----------------------------------------------------------------------------
(* Properties                                                              *)

\* A step of e is handled: its gate is approved, or there is a task of it in the
\* runtime that was worked on and did not fail.  An escalated task counts, as it
\* does in _walk_dag, although whoever is to approve it has not been asked.
StepHandled(e, step) ==
    IF step.requires_approval
    THEN executions[e].step_results[step.step_id] = "approved"
    ELSE tasks[<<e, step.step_id>>].status \in {"completed", "escalated"}

\* The runtime works on a step only when the steps that it depends on are handled,
\* and never on a gated one: also on a POST that arrives after the engine gave it
\* up, and when the engine takes for failed what the runtime completed
\* (_walk_dag's results against the runtime's _tasks).  What the diagrams say of
\* an escalated task is in CompletedIsDoneOrApproved.
TasksFollowTheDag ==
    \A e \in Engine!Existing, s \in StepIds :
        requests[<<e, s>>].at # "new" =>
            \A step \in Engine!StepOf(e, s) :
                /\ ~step.requires_approval
                /\ \A d \in step.depends_on : \A before \in Engine!StepOf(e, d) :
                      StepHandled(e, before)

\* What a client is told of was handled, through all services: a task that it had
\* executed is stored, and of a workflow that it is told to be completed each step
\* is handled, whatever any of them gave up (the answers of execute_task and
\* execute_workflow, passed on by the gateway).  An escalated task is not yet done:
\* see CompletedIsDoneOrApproved.
ToldMeansHandled ==
    \A c \in Calls : calls[c].told = "200" =>
        /\ For(c, "execute_task") \/ For(c, "transcript_webhook") => tasks[c].status # "absent"
        /\ For(c, "execute_workflow") /\ replies[c].status = "completed" =>
              \A i \in DOMAIN Engine!Steps(replies[c].execution) :
                  StepHandled(replies[c].execution, Engine!Steps(replies[c].execution)[i])

\* A resumption of the task of step s of e was answered.
StepResumed(e, s) ==
    \E r \in Runs :
        /\ requests[r].kind = "resume" /\ requests[r].of = <<e, s>>
        /\ requests[r].at = "answered"

\* Somebody approved the step, in the engine.
StepApproved(s) ==
    \E a \in Engine!ApprovalIds :
        approvals[a].task_id = s /\ approvals[a].status = "approved"

\* What docs/diagrams/sequence-diagrams.md:130-151 draws: a step that needs an
\* approval is sent to the runtime, approved, resumed "from the last checkpoint"
\* (agent_runtime, main.py:122) and completed there before the steps that depend
\* on it are sent and before the execution is completed.  So in an execution that
\* completed, and whose escalated tasks were resumed, the task of each step is
\* completed or, by the comment of the pause (workflow_engine, main.py:244), the
\* step was approved.  The engine takes "escalated" for done, never sends a gated
\* step and never reads its approval, and a resumption starts again: violated.
CompletedIsDoneOrApproved ==
    \A e \in Engine!Existing :
        LET status(s) == tasks[<<e, s>>].status
        IN  /\ executions[e].status = "completed"
            /\ \A s \in StepIds : status(s) = "escalated" => StepResumed(e, s)
            => \A i \in DOMAIN Engine!Steps(e) :
                   LET s == Engine!Steps(e)[i].step_id
                   IN  status(s) = "completed" \/ StepApproved(s)

\* Every call is answered, without need of a timer: nowhere along the services do
\* calls wait for each other (one event loop in the engine, which awaits the
\* runtime while other walks go on).  There are finitely many calls and none is
\* taken back from its client, so each of them is answered.
EveryCallAnswered ==
    []<>(\A c \in Calls : calls[c].at = "unused" \/ calls[c].told # "none")
=============================================================================
