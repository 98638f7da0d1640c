----------------------------- MODULE AgentLoop -----------------------------
(***************************************************************************)
(* The reasoning loop of runtime.py, one action per node of the graph.     *)
(* run_agent either compiles the graph, when LangGraph can be imported, or *)
(* calls the same functions in a loop of its own; the two differ in the    *)
(* limit LangGraph puts on the number of supersteps.                       *)
(*                                                                         *)
(* A run is the state of one call; calls share nothing.  Left out: the     *)
(* phase and the memory entries, which nothing reads; the observations,    *)
(* which repeat step_history; texts, references and time stamps.           *)
(***************************************************************************)
EXTENDS AgentTasks

VARIABLES
    library,      \* StateGraph is not None
    node,         \* the node each run executes next
    supersteps,   \* the nodes executed so far
    task,         \* the input
    procedure,    \* procedures[0]["steps"], or no steps
    plan,
    index,        \* current_step_index
    tool,         \* selected_tool
    toolStatus,   \* tool_result["status"]
    history,      \* step_history; its length is steps_executed
    evaluation    \* evaluation, with completed

inputVars == <<library, task>>
planVars  == <<procedure, plan>>
toolVars  == <<tool, toolStatus>>
loopVars  == <<library, node, supersteps, task, procedure, plan, index, tool,
               toolStatus, history, evaluation>>

Nodes == {"load_context", "retrieve_memory", "build_plan", "choose_action",
          "execute_action", "observe_result", "evaluate_progress",
          "write_memory"}

Entry == [index : Nat, tool : Tools, status : {"success", "pending_approval"}]

Reasons == {"none", "awaiting_human_approval", "budget_exceeded",
            "goal_achieved", "step_completed"}

\* An absent should_continue is false.
Evaluation == [reason : Reasons, should_continue : BOOLEAN, completed : BOOLEAN]

NotEvaluated ==
    [reason |-> "none", should_continue |-> FALSE, completed |-> FALSE]

Init ==
    /\ library \in BOOLEAN
    /\ node = [r \in Runs |-> "idle"]
    /\ supersteps = [r \in Runs |-> 0]
    /\ task = [r \in Runs |-> [role |-> "other", intents |-> {}, budget |-> 0]]
    /\ procedure = [r \in Runs |-> <<>>]
    /\ plan = [r \in Runs |-> <<>>]
    /\ index = [r \in Runs |-> 0]
    /\ tool = [r \in Runs |-> "crm.create_task"]
    /\ toolStatus = [r \in Runs |-> "success"]
    /\ history = [r \in Runs |-> <<>>]
    /\ evaluation = [r \in Runs |-> NotEvaluated]

---------------------------------------------------------------------------
(***************************************************************************)
(* The nodes                                                               *)
(***************************************************************************)

\* Run r goes through one node of the graph, within the limit.
Visit(r, here, next) ==
    /\ node[r] = here
    /\ library => supersteps[r] < RecursionLimit
    /\ node' = [node EXCEPT ![r] = next]
    /\ supersteps' = [supersteps EXCEPT ![r] = @ + 1]

\* run_agent is called.
Begin(r, t) ==
    /\ node[r] = "idle"
    /\ node' = [node EXCEPT ![r] = "load_context"]
    /\ task' = [task EXCEPT ![r] = t]
    /\ UNCHANGED <<library, supersteps, planVars, index, toolVars, history,
                   evaluation>>

LoadContext(r) ==
    /\ Visit(r, "load_context", "retrieve_memory")
    /\ history' = [history EXCEPT ![r] = <<>>]
    /\ UNCHANGED <<inputVars, planVars, index, toolVars, evaluation>>

RetrieveMemory(r) ==
    /\ Visit(r, "retrieve_memory", "build_plan")
    /\ procedure' = [procedure EXCEPT ![r] = ProcedureFor(task[r].role)]
    /\ UNCHANGED <<inputVars, plan, index, toolVars, history, evaluation>>

\* Slip: a plan numbered from one.
BuildPlanFromOne(r) ==
    /\ Visit(r, "build_plan", "choose_action")
    /\ plan' = [plan EXCEPT ![r] = PlanFor(task[r].role, procedure[r])]
    /\ index' = [index EXCEPT ![r] = 1]
    /\ UNCHANGED <<inputVars, procedure, toolVars, history, evaluation>>

BuildPlan(r) ==
    /\ Visit(r, "build_plan", "choose_action")
    /\ plan' = [plan EXCEPT ![r] = PlanFor(task[r].role, procedure[r])]
    /\ index' = [index EXCEPT ![r] = 0]
    /\ UNCHANGED <<inputVars, procedure, toolVars, history, evaluation>>

\* The name of the current step; the plan is numbered from zero.
CurrentStep(r) ==
    IF index[r] < Len(plan[r]) THEN plan[r][index[r] + 1] ELSE "unknown"

ChooseAction(r) ==
    /\ Visit(r, "choose_action", "execute_action")
    /\ tool' = [tool EXCEPT ![r] = ToolFor(task[r].intents, CurrentStep(r))]
    /\ UNCHANGED <<inputVars, planVars, index, toolStatus, history, evaluation>>

ExecuteAction(r) ==
    /\ Visit(r, "execute_action", "observe_result")
    /\ toolStatus' = [toolStatus EXCEPT ![r] =
                        IF RequiresApproval(tool[r]) THEN "pending_approval"
                                                     ELSE "success"]
    /\ UNCHANGED <<inputVars, planVars, index, tool, history, evaluation>>

ObserveResult(r) ==
    /\ Visit(r, "observe_result", "evaluate_progress")
    /\ history' = [history EXCEPT ![r] =
                     Append(@, [index  |-> index[r],
                                tool   |-> tool[r],
                                status |-> toolStatus[r]])]
    /\ UNCHANGED <<inputVars, planVars, index, toolVars, evaluation>>

Stop(reason, completed) ==
    [reason |-> reason, should_continue |-> FALSE, completed |-> completed]

StepCompleted ==
    [reason |-> "step_completed", should_continue |-> TRUE, completed |-> FALSE]

\* Slip: indexes compared with the length.
IsLastStepLate(i, length) == i >= length

\* is_last_step
IsLastStep(i, length) == i + 1 >= length

\* Slip: the budget may be exceeded before it is noticed.
EvaluationLate(status, steps, budget, last) ==
    IF status = "pending_approval" THEN Stop("awaiting_human_approval", FALSE)
    ELSE IF steps > budget THEN Stop("budget_exceeded", FALSE)
    ELSE IF last THEN Stop("goal_achieved", TRUE)
    ELSE StepCompleted

\* Slip: a tool that waits for its approval is a step like another.
EvaluationUnguarded(status, steps, budget, last) ==
    IF steps >= budget THEN Stop("budget_exceeded", FALSE)
    ELSE IF last /\ status = "success" THEN Stop("goal_achieved", TRUE)
    ELSE StepCompleted

\* What evaluate_progress finds, in the order of its tests.
EvaluationOf(status, steps, budget, last) ==
    IF status = "pending_approval" THEN Stop("awaiting_human_approval", FALSE)
    ELSE IF steps >= budget THEN Stop("budget_exceeded", FALSE)
    ELSE IF last /\ status = "success" THEN Stop("goal_achieved", TRUE)
    ELSE StepCompleted

EvaluateProgress(r) ==
    LET found == EvaluationOf(toolStatus[r], Len(history[r]), task[r].budget,
                              IsLastStep(index[r], Len(plan[r])))
    IN  /\ Visit(r, "evaluate_progress", "write_memory")
        /\ evaluation' = [evaluation EXCEPT ![r] = found]
        /\ index' = [index EXCEPT ![r] =
                       IF found.should_continue THEN @ + 1 ELSE @]
        /\ UNCHANGED <<inputVars, planVars, toolVars, history>>

\* should_continue: the edge of the graph and the loop of run_agent agree.
NodeAfter(found) ==
    IF found.should_continue /\ ~found.completed THEN "choose_action"
                                                 ELSE "returned"

WriteMemory(r) ==
    /\ Visit(r, "write_memory", NodeAfter(evaluation[r]))
    /\ UNCHANGED <<inputVars, planVars, index, toolVars, history, evaluation>>

\* LangGraph raises GraphRecursionError, which run_agent passes on.
LimitReached(r) ==
    /\ node[r] \in Nodes
    /\ library
    /\ supersteps[r] >= RecursionLimit
    /\ node' = [node EXCEPT ![r] = "raised"]
    /\ UNCHANGED <<inputVars, supersteps, planVars, index, toolVars, history,
                   evaluation>>

Step(r) ==
    \/ LoadContext(r) \/ RetrieveMemory(r) \/ BuildPlan(r)
    \/ ChooseAction(r) \/ ExecuteAction(r) \/ ObserveResult(r)
    \/ EvaluateProgress(r) \/ WriteMemory(r) \/ LimitReached(r)

Next == \E r \in Runs : Step(r) \/ \E t \in Tasks : Begin(r, t)

SafetySpec == Init /\ [][Next]_loopVars

\* The nodes compute and do not wait: a run that has begun goes on.
Spec == SafetySpec /\ \A r \in Runs : WF_loopVars(Step(r))

---------------------------------------------------------------------------
(***************************************************************************)
(* Properties                                                              *)
(***************************************************************************)

\* The type of the state.  No plan has more than five steps and the current
\* step never leaves the plan, whatever the verdicts (current_step_index).
TypeOK ==
    /\ library \in BOOLEAN
    /\ node \in [Runs -> Nodes \cup {"idle", "returned", "raised"}]
    /\ supersteps \in [Runs -> Nat]
    /\ task \in [Runs -> [role : Roles, intents : SUBSET Intents, budget : Nat]]
    /\ procedure \in [Runs -> Seq(StepNames)]
    /\ plan \in [Runs -> Seq(StepNames)]
    /\ index \in [Runs -> 0 .. 4]
    /\ tool \in [Runs -> Tools]
    /\ toolStatus \in [Runs -> {"success", "pending_approval"}]
    /\ history \in [Runs -> Seq(Entry)]
    /\ evaluation \in [Runs -> Evaluation]

\* The history of a run is its plan so far: each step once and in order, and
\* at most the current one done (observe_result against the index that
\* evaluate_progress advances two nodes later).
HistoryFollowsPlan ==
    \A r \in Runs : node[r] \in Nodes \cup {"returned", "raised"} =>
        /\ Len(history[r]) \in {index[r], index[r] + 1}
        /\ \A i \in 1 .. Len(history[r]) : history[r][i].index = i - 1

\* A tool that waits for its approval ends the run: nothing is executed
\* after it, and the run is neither completed nor out of budget
\* (execute_action against evaluate_progress and should_continue).
NothingAfterPending ==
    \A r \in Runs : \A i \in 1 .. Len(history[r]) :
        history[r][i].status = "pending_approval" =>
            /\ i = Len(history[r])
            /\ node[r] = "returned" =>
                 evaluation[r].reason = "awaiting_human_approval"

\* How a run looks from outside.
OutcomeOf(r) ==
    IF node[r] = "idle" THEN [end |-> "idle", steps |-> 0]
    ELSE IF node[r] = "raised" THEN [end |-> "raised", steps |-> 0]
    ELSE IF node[r] # "returned" THEN [end |-> "running", steps |-> 0]
    ELSE [end   |-> IF evaluation[r].completed THEN "completed"
                    ELSE IF evaluation[r].reason = "awaiting_human_approval"
                    THEN "escalated" ELSE "exceeded",
          steps |-> Len(history[r])]

Contract == INSTANCE AgentRun WITH outcome <- [r \in Runs |-> OutcomeOf(r)]

\* The loop keeps the contract of a run: it always ends, and its verdict and
\* its number of steps are those its input determines (the nine functions and
\* run_agent together).
KeepsContract == Contract!Spec

\* "Uses the compiled LangGraph when available, otherwise falls back to a
\* sequential executor with a manual continue-loop" (runtime.py:537): the two
\* give the same result.
SameAsFallback ==
    \A r \in Runs : node[r] \in {"returned", "raised"} =>
        OutcomeOf(r) = Contract!Verdict(task[r])
===========================================================================
