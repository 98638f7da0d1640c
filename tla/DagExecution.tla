---------------------------- MODULE DagExecution ----------------------------
(***************************************************************************)
(* What the workflow engine promises of an execution, without requests,    *)
(* event loop, batches or local sets: the steps of a DAG get one result    *)
(* each, in an order that respects the dependencies; a step that requires  *)
(* an approval gets its result by one, while the execution is paused; and  *)
(* the verdict comes when nothing more can be done.  An execution may be   *)
(* abandoned, for good, at a step that it could do.                        *)
(***************************************************************************)
EXTENDS FiniteSets, Sequences, Naturals

CONSTANTS
    Executions,   \* the executions that may come to be
    Ids,          \* step identifiers
    NoId,         \* no step
    Dags          \* lists of steps with distinct identifiers

VARIABLE dag      \* executions -> steps, status, results, and the open gate

Blank == [steps |-> <<>>, status |-> "absent", gate |-> NoId,
          results |-> [s \in Ids |-> "none"]]

\* The steps with one of these results.
With(e, outcomes) == {s \in Ids : dag[e].results[s] \in outcomes}

Done(e) == With(e, {"completed", "escalated", "approved", "unreadable"})

\* The steps of e that could have a result now.
Ready(e) ==
    {step \in {dag[e].steps[i] : i \in DOMAIN dag[e].steps} :
        /\ dag[e].results[step.step_id] = "none"
        /\ step.depends_on \subseteq Done(e)}

DagInit == dag = [e \in Executions |-> Blank]

Start(e) ==
    /\ dag[e].status = "absent"
    /\ \E steps \in Dags :
           dag' = [dag EXCEPT ![e] = [Blank EXCEPT !.steps = steps, !.status = "running"]]

\* A ready step that needs no approval is done, escalated or has failed.
Record(e) ==
    /\ dag[e].status = "running"
    /\ \E step \in Ready(e), o \in {"completed", "escalated", "failed"} :
           /\ ~step.requires_approval
           /\ dag' = [dag EXCEPT ![e].results[step.step_id] = o]

\* The execution waits at a ready step that needs an approval.
Pause(e) ==
    /\ dag[e].status = "running"
    /\ \E step \in Ready(e) :
           /\ step.requires_approval
           /\ dag' = [dag EXCEPT ![e].status = "paused", ![e].gate = step.step_id]

\* The step waited for is approved, and the execution goes on.
Approve(e) ==
    /\ dag[e].status = "paused"
    /\ dag' = [dag EXCEPT ![e].status = "running", ![e].gate = NoId,
                          ![e].results[dag[e].gate] = "approved"]

\* Nothing is ready: all steps are done, or the execution has failed.
Conclude(e) ==
    /\ dag[e].status = "running"
    /\ Ready(e) = {}
    /\ dag' = [dag EXCEPT ![e].status =
           IF \A i \in DOMAIN dag[e].steps : dag[e].steps[i].step_id \in Done(e)
           THEN "completed" ELSE "failed"]

\* A ready step has an answer that cannot be read, kept or not: the execution
\* neither goes on nor ends.
Abandon(e) ==
    /\ dag[e].status = "running"
    /\ \E step \in Ready(e), o \in {"none", "unreadable"} :
           /\ ~step.requires_approval
           /\ dag' = [dag EXCEPT ![e].status = "abandoned",
                                 ![e].results[step.step_id] = o]

Progress(e) == Record(e) \/ Pause(e) \/ Conclude(e) \/ Abandon(e)

DagNext == \E e \in Executions : Start(e) \/ Progress(e) \/ Approve(e)

DagSafety == DagInit /\ [][DagNext]_dag

\* An execution that runs goes on; nobody is obliged to approve.
DagSpec == DagSafety /\ \A e \in Executions : WF_dag(Progress(e))
=============================================================================
