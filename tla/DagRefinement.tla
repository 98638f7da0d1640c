--------------------------- MODULE DagRefinement ---------------------------
(***************************************************************************)
(* The workflow engine implements DagExecution as long as nobody cancels:  *)
(* cancel_workflow makes an execution fail that the walker goes on with,   *)
(* which no DAG does.  Definitions whose step identifiers are not distinct *)
(* are outside the promise too.                                            *)
(***************************************************************************)
EXTENDS WorkflowEngine

\* An execution without its walker: what the requests hold of it in local sets
\* and batches is in its results already.
AsDag(e) ==
    LET known  == WellFormed(e)
        paused == known /\ executions[e].status = "paused"
    IN  [steps   |-> IF known THEN Steps(e) ELSE <<>>,
         status  |-> IF known THEN IF Stranded(e) THEN "abandoned" ELSE executions[e].status
                              ELSE "absent",
         gate    |-> IF paused THEN executions[e].current_step ELSE NoStep,
         results |-> IF known THEN executions[e].step_results ELSE NoResults]

Dag == INSTANCE DagExecution WITH
           Executions <- ExecutionIds,
           Ids        <- StepIds,
           NoId       <- NoStep,
           Dags       <- {d \in Definitions : UniqueIds(d)},
           dag        <- [e \in ExecutionIds |-> AsDag(e)]

\* Whatever the order of requests, answers and advances, an execution only ever
\* does what its DAG allows, one step of the DAG at a time, and a DAG that can
\* go on does (_walk_dag, advance_workflow).
ImplementsDag == Dag!DagSpec
=============================================================================
