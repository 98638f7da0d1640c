------------------------ MODULE WorkflowEngineProofs ------------------------
(***************************************************************************)
(* Theorems about WorkflowEngine, for every value of its constants.        *)
(***************************************************************************)
EXTENDS WorkflowEngine, TLAPS

\* The requests that hold the event loop are those inside a segment of a
\* coroutine; the others are idle or await the agent runtime.
LoopHeld ==
    \A r \in Requests :
        loop = r <=> walks[r].pc \in {"advancing", "walking", "pausing", "finishing"}

\* A walk is on an execution that exists.
WalkedExists ==
    \A r \in Requests : walks[r].pc # "idle" => walks[r].execution \in Existing

\* A walk that has begun, and has not paused, is on an execution that is not
\* paused: this is what keeps a second advance_workflow out.
PausedIsIdle ==
    \A r \in Requests :
        walks[r].pc \in {"walking", "posting", "finishing"} =>
            executions[walks[r].execution].status # "paused"

\* An execution belongs to a workflow that exists, whose steps are fixed.
HasWorkflow ==
    \A e \in Existing :
        /\ executions[e].workflow_id \in WorkflowIds
        /\ workflows[executions[e].workflow_id].status # "absent"

\* The batch of a walk consists of positions in the steps of its workflow.
BatchInSteps ==
    \A r \in Requests :
        walks[r].pc # "idle" => walks[r].ready \subseteq DOMAIN Steps(walks[r].execution)

\* cancel_workflow writes to an execution that exists.
CancelExists ==
    \A t \in Cancellers : cancellers[t].pc = "write" => cancellers[t].index \in Existing

\* The inductive invariant behind the type invariant and SingleWalker.
IInv ==
    /\ TypeOK
    /\ LoopHeld
    /\ WalkedExists
    /\ PausedIsIdle
    /\ HasWorkflow
    /\ BatchInSteps
    /\ CancelExists
    /\ SingleWalker

LEMMA InitIInv == Init => IInv
BY EngineConstants, ApprovalConstants DEF Init, ApprovalsInit, IInv, TypeOK, ApprovalsTypeOK, LoopHeld, WalkedExists,
   PausedIsIdle, HasWorkflow, BatchInSteps, CancelExists, SingleWalker, Existing,
   NoExecution, NewWalk, NoWalk, NoCancel, NoResults, NoApproval, NoCall, Approval, DecideCall,
   Workflow, Execution, Walk, CancelCall, WorkflowState, ExecutionState, Result, Outcome,
   Decision, Steps


\* What the steps of a walk rely on: its record, its execution and, when it
\* handles position i, the step there.
LEMMA WalkTypes ==
    ASSUME IInv, NEW r \in Requests, walks[r].pc # "idle"
    PROVE  LET e == walks[r].execution IN
           /\ walks[r] \in Walk
           /\ e \in ExecutionIds
           /\ e \in Existing
           /\ executions[e] \in Execution
           /\ executions[e].workflow_id \in WorkflowIds
           /\ workflows[executions[e].workflow_id] \in Workflow
           /\ workflows[executions[e].workflow_id].status # "absent"
           /\ Steps(e) \in Seq(Step)
           /\ \A i \in walks[r].ready : Steps(e)[i] \in Step
<1> DEFINE e == walks[r].execution
           w == executions[e].workflow_id
<1>1. /\ walks[r] \in Walk /\ e \in Existing
  BY DEF IInv, TypeOK, WalkedExists
<1>2. e \in ExecutionIds /\ executions[e] \in Execution
  BY <1>1 DEF IInv, TypeOK, Existing
<1>3. w \in WorkflowIds /\ workflows[w] \in Workflow /\ workflows[w].status # "absent"
  BY <1>1 DEF IInv, TypeOK, HasWorkflow
<1>4. Steps(e) \in Seq(Step)
  <2>1. workflows[w].steps \in Definitions \cup {<<>>}
    BY <1>3 DEF Workflow
  <2>2. <<>> \in Seq(Step)
    OBVIOUS
  <2>3. QED BY <2>1, <2>2, EngineConstants DEF Steps
<1>5. \A i \in walks[r].ready : Steps(e)[i] \in Step
  BY <1>4 DEF IInv, BatchInSteps
<1>6. QED BY <1>1, <1>2, <1>3, <1>4, <1>5

\* The batches stay within the steps while walks only shrink their batches and
\* the steps of existing workflows stay what they are.
LEMMA BatchFrame ==
    ASSUME IInv,
           \A q \in Requests : walks'[q].pc # "idle" =>
               /\ walks[q].pc # "idle"
               /\ walks'[q].execution = walks[q].execution
               /\ walks'[q].ready \subseteq walks[q].ready,
           \A f \in ExecutionIds : executions'[f].workflow_id = executions[f].workflow_id,
           workflows' = workflows
    PROVE  BatchInSteps'
<1> DEFINE stepsAfter(f) == workflows'[executions'[f].workflow_id].steps
<1> SUFFICES ASSUME NEW q \in Requests, walks'[q].pc # "idle"
             PROVE  walks'[q].ready \subseteq DOMAIN stepsAfter(walks'[q].execution)
  BY DEF BatchInSteps, Steps
<1>1. walks[q].execution \in ExecutionIds
  BY WalkTypes
<1>2. stepsAfter(walks'[q].execution) = Steps(walks[q].execution)
  BY <1>1 DEF Steps
<1>3. QED BY <1>2 DEF IInv, BatchInSteps

LEMMA CreateWorkflowIInv ==
    ASSUME IInv, NEW w \in WorkflowIds, NEW d \in Definitions, CreateWorkflow(w, d)
    PROVE  IInv'
<1> USE DEF IInv, CreateWorkflow
<1>1. TypeOK'
  BY DEF TypeOK, ApprovalsTypeOK, approvalVars, Workflow, WorkflowState
<1>2. Existing' = Existing
  BY DEF Existing
<1>3. \A v \in WorkflowIds : workflows[v].status # "absent" => workflows'[v] = workflows[v]
  BY DEF TypeOK, FreshWorkflow
<1>4. HasWorkflow'
  BY <1>2, <1>3 DEF HasWorkflow
<1>5. BatchInSteps'
  BY <1>3 DEF BatchInSteps, HasWorkflow, WalkedExists, Steps
<1>6. LoopHeld' /\ WalkedExists' /\ PausedIsIdle' /\ CancelExists' /\ SingleWalker'
  BY <1>2 DEF LoopHeld, WalkedExists, PausedIsIdle, CancelExists, SingleWalker
<1>7. QED BY <1>1, <1>4, <1>5, <1>6

LEMMA ExecuteIInv ==
    ASSUME IInv, NEW r \in Requests, NEW w \in WorkflowIds, NEW e \in ExecutionIds,
           Execute(r, w, e)
    PROVE  IInv'
<1> USE DEF Execute, MayEnter, IInv, NewWalk, NewExecution
<1>1. TypeOK'
  BY DEF TypeOK, ApprovalsTypeOK, approvalVars, NoResults, Execution, Walk,
         ExecutionState, WorkflowState, Result, Outcome
<1>2. LoopHeld'
  BY EngineConstants DEF TypeOK, LoopHeld, Walk
<1>3. /\ Existing' = Existing \cup {e}
      /\ e \notin Existing
      /\ \A f \in Existing : executions'[f] = executions[f]
  BY DEF TypeOK, Execution, Existing, FreshExecution
<1>4. WalkedExists'
  BY <1>3 DEF TypeOK, WalkedExists, Walk
<1>5. PausedIsIdle'
  BY <1>3 DEF TypeOK, PausedIsIdle, WalkedExists, Walk, Execution
<1>6. HasWorkflow'
  BY <1>3 DEF TypeOK, HasWorkflow
<1>7. BatchInSteps'
  BY <1>3 DEF TypeOK, BatchInSteps, WalkedExists, Steps
<1>8. CancelExists'
  BY <1>3 DEF CancelExists
<1>9. SingleWalker'
  BY <1>3 DEF TypeOK, SingleWalker, WalkedExists, Walk
<1>10. QED BY <1>1, <1>2, <1>4, <1>5, <1>6, <1>7, <1>8, <1>9

LEMMA AdvanceBeginIInv ==
    ASSUME IInv, NEW r \in Requests, NEW w \in WorkflowIds, NEW e \in ExecutionIds,
           AdvanceBegin(r, w, e)
    PROVE  IInv'
<1> USE DEF AdvanceBegin, MayEnter, IInv, NewWalk
<1>1. TypeOK'
  BY DEF TypeOK, ApprovalsTypeOK, approvalVars, Walk
<1>2. LoopHeld'
  BY EngineConstants DEF TypeOK, LoopHeld, Walk
<1>3. Existing' = Existing /\ e \in Existing
  BY DEF Existing
<1>4. WalkedExists'
  BY <1>3 DEF TypeOK, WalkedExists
<1>5. PausedIsIdle'
  BY DEF TypeOK, PausedIsIdle
<1>6. HasWorkflow' /\ CancelExists'
  BY <1>3 DEF HasWorkflow, CancelExists
<1>7. BatchInSteps'
  BY DEF TypeOK, BatchInSteps, Steps
<1>8. \A q \in Requests : walks[q].pc # "idle" => walks[q].execution # e
  BY EngineConstants DEF TypeOK, LoopHeld, PausedIsIdle, Walk
<1>9. SingleWalker'
  BY <1>8 DEF TypeOK, SingleWalker
<1>10. QED BY <1>1, <1>2, <1>4, <1>5, <1>6, <1>7, <1>9

LEMMA AdvanceResumeIInv ==
    ASSUME IInv, NEW r \in Requests, AdvanceResume(r)
    PROVE  IInv'
<1> DEFINE e == walks[r].execution
           results == ApprovedResults(executions[e].step_results, executions[e].current_step)
<1> USE DEF IInv, On
<1>1. /\ walks[r] \in Walk /\ e \in ExecutionIds /\ e \in Existing
      /\ executions[e] \in Execution
  BY WalkTypes DEF AdvanceResume
<1>2. results \in [StepIds -> Result]
  BY <1>1 DEF ApprovedResults, Execution, Result
<1>3. executions' \in [ExecutionIds -> Execution]
  BY <1>1, <1>2 DEF AdvanceResume, ResumedWith, TypeOK, Execution, ExecutionState, WorkflowState
<1>4. walks' \in [Requests -> Walk]
  BY <1>1 DEF AdvanceResume, TypeOK, Walk, CompletedIn, FailedIn
<1>5. TypeOK'
  BY <1>3, <1>4 DEF AdvanceResume, TypeOK, ApprovalsTypeOK, approvalVars
<1>6. /\ Existing' = Existing
      /\ executions'[e].status = "running"
      /\ \A f \in ExecutionIds : executions'[f].workflow_id = executions[f].workflow_id
      /\ \A f \in ExecutionIds \ {e} : executions'[f] = executions[f]
  BY <1>1 DEF AdvanceResume, ResumedWith, TypeOK, Existing
<1>7. LoopHeld'
  BY <1>1 DEF AdvanceResume, LoopHeld, TypeOK
<1>8. WalkedExists'
  BY <1>1, <1>6 DEF AdvanceResume, WalkedExists, TypeOK
<1>9. PausedIsIdle'
  BY <1>1, <1>6 DEF AdvanceResume, PausedIsIdle, WalkedExists, Existing, TypeOK
<1>10. HasWorkflow'
  BY <1>6 DEF AdvanceResume, HasWorkflow, Existing
<1>11. BatchInSteps'
  BY <1>1, <1>6 DEF AdvanceResume, BatchInSteps, WalkedExists, Existing, Steps, TypeOK
<1>12. CancelExists'
  BY <1>6 DEF AdvanceResume, CancelExists
<1>13. SingleWalker'
  BY <1>1 DEF AdvanceResume, SingleWalker, TypeOK
<1>14. QED BY <1>5, <1>7, <1>8, <1>9, <1>10, <1>11, <1>12, <1>13

LEMMA NextBatchIInv ==
    ASSUME IInv, NEW r \in Requests, NextBatch(r)
    PROVE  IInv'
<1> DEFINE e == walks[r].execution
           batch == ReadySteps(Steps(e), walks[r].completed, walks[r].failed)
<1> USE DEF IInv, On, NextBatch
<1>1. walks[r] \in Walk /\ Steps(e) \in Seq(Step)
  BY WalkTypes
<1>2. batch \in SUBSET Nat /\ batch \subseteq DOMAIN Steps(e)
  BY <1>1 DEF ReadySteps
<1>3. TypeOK'
  BY <1>1, <1>2 DEF TypeOK, ApprovalsTypeOK, approvalVars, Walk
<1>4. /\ \A q \in Requests : walks'[q].pc = walks[q].pc
      /\ \A q \in Requests : walks'[q].execution = walks[q].execution
      /\ \A q \in Requests \ {r} : walks'[q] = walks[q]
      /\ walks'[r].ready = batch
  BY DEF TypeOK, Walk
<1>5. BatchInSteps'
  BY <1>2, <1>4 DEF BatchInSteps, Steps
<1>6. LoopHeld' /\ WalkedExists' /\ PausedIsIdle' /\ SingleWalker'
  BY <1>4 DEF LoopHeld, WalkedExists, PausedIsIdle, SingleWalker, Existing
<1>7. HasWorkflow' /\ CancelExists'
  BY DEF HasWorkflow, CancelExists, Existing
<1>8. QED BY <1>3, <1>5, <1>6, <1>7

LEMMA GateIInv ==
    ASSUME IInv, NEW r \in Requests, NEW i \in walks[r].ready, NEW a \in ApprovalIds,
           Gate(r, a, i)
    PROVE  IInv'
<1> DEFINE e == walks[r].execution
           s == Steps(e)[i].step_id
<1> USE DEF IInv, On
<1>1. /\ walks[r] \in Walk /\ e \in ExecutionIds /\ e \in Existing
      /\ executions[e] \in Execution /\ s \in StepIds
  BY WalkTypes DEF Gate, Step
<1>2. executions' \in [ExecutionIds -> Execution]
  BY <1>1 DEF Gate, PausedAt, TypeOK, Execution, ExecutionState, WorkflowState
<1>3. walks' \in [Requests -> Walk]
  BY <1>1 DEF Gate, TypeOK, Walk
<1>4. approvals' \in [ApprovalIds -> Approval]
  BY <1>1 DEF Gate, NewApproval, TypeOK, ApprovalsTypeOK, Approval, Decision
<1>5. TypeOK'
  BY <1>2, <1>3, <1>4 DEF Gate, TypeOK, ApprovalsTypeOK
<1>6. /\ Existing' = Existing
      /\ \A f \in ExecutionIds : executions'[f].workflow_id = executions[f].workflow_id
      /\ \A f \in ExecutionIds \ {e} : executions'[f] = executions[f]
  BY <1>1 DEF Gate, PausedAt, TypeOK, Existing
<1>7. LoopHeld'
  BY <1>1 DEF Gate, LoopHeld, TypeOK
<1>8. WalkedExists'
  BY <1>1, <1>6 DEF Gate, WalkedExists, TypeOK
<1>9. PausedIsIdle'
  <2> SUFFICES ASSUME NEW q \in Requests,
                      walks'[q].pc \in {"walking", "posting", "finishing"}
               PROVE  executions'[walks'[q].execution].status # "paused"
    BY DEF PausedIsIdle
  <2>1. q # r /\ walks'[q] = walks[q]
    BY <1>1 DEF Gate, TypeOK
  <2>2. walks[q].execution \in ExecutionIds \ {e}
    BY <2>1, <1>1 DEF Gate, SingleWalker, WalkedExists, Existing
  <2>3. QED BY <2>1, <2>2, <1>6 DEF PausedIsIdle
<1>10. HasWorkflow'
  BY <1>6 DEF Gate, HasWorkflow, Existing
<1>11. BatchInSteps'
  <2>1. \A q \in Requests :
            /\ walks'[q].execution = walks[q].execution
            /\ walks'[q].ready = walks[q].ready
            /\ walks'[q].pc # "idle" => walks[q].pc # "idle"
    BY <1>1 DEF Gate, TypeOK, Walk
  <2>2. QED BY <2>1, <1>6, BatchFrame DEF Gate
<1>12. CancelExists'
  BY <1>6 DEF Gate, CancelExists
<1>13. SingleWalker'
  BY <1>1 DEF Gate, SingleWalker, TypeOK
<1>14. QED BY <1>5, <1>7, <1>8, <1>9, <1>10, <1>11, <1>12, <1>13

LEMMA PostIInv ==
    ASSUME IInv, NEW r \in Requests, NEW i \in walks[r].ready, Post(r, i)
    PROVE  IInv'
<1> DEFINE e == walks[r].execution
           s == Steps(e)[i].step_id
<1> USE DEF IInv, On
<1>1. /\ walks[r] \in Walk /\ e \in ExecutionIds /\ e \in Existing
      /\ executions[e] \in Execution /\ s \in StepIds
  BY WalkTypes DEF Post, Step
<1>2. executions' \in [ExecutionIds -> Execution]
  BY <1>1 DEF Post, TypeOK, Execution
<1>3. walks' \in [Requests -> Walk]
  BY <1>1 DEF Post, TypeOK, Walk
<1>4. posted' \in [ExecutionIds -> [StepIds -> 0..2]]
  BY <1>1 DEF Post, TypeOK
<1>5. TypeOK'
  BY <1>2, <1>3, <1>4 DEF Post, TypeOK, ApprovalsTypeOK, approvalVars
<1>6. /\ Existing' = Existing
      /\ \A f \in ExecutionIds : executions'[f].workflow_id = executions[f].workflow_id
      /\ \A f \in ExecutionIds : executions'[f].status = executions[f].status
  BY <1>1 DEF Post, TypeOK, Existing, Execution
<1>7. /\ \A q \in Requests \ {r} : walks'[q] = walks[q]
      /\ walks'[r].pc = "posting" /\ walks'[r].execution = e
      /\ walks'[r].ready = walks[r].ready
      /\ walks[r].pc = "walking" /\ loop = r /\ loop' = NoRequest
  BY <1>1 DEF Post, TypeOK, Walk
<1>8. LoopHeld'
  BY <1>7, EngineConstants DEF LoopHeld
<1>9. WalkedExists' /\ SingleWalker'
  BY <1>1, <1>6, <1>7 DEF WalkedExists, SingleWalker
<1>10. PausedIsIdle'
  BY <1>1, <1>6, <1>7 DEF PausedIsIdle, WalkedExists, Existing
<1>11. HasWorkflow'
  BY <1>6 DEF Post, HasWorkflow, Existing
<1>12. BatchInSteps'
  BY <1>1, <1>6, <1>7, BatchFrame DEF Post
<1>13. CancelExists'
  BY <1>6 DEF Post, CancelExists
<1>14. QED BY <1>5, <1>8, <1>9, <1>10, <1>11, <1>12, <1>13

LEMMA AnswerIInv ==
    ASSUME IInv, NEW r \in Requests, NEW i \in walks[r].ready, NEW o \in Outcome,
           Answer(r, i, o)
    PROVE  IInv'
<1> DEFINE e == walks[r].execution
           s == Steps(e)[i].step_id
<1> USE DEF IInv
<1>1. /\ walks[r] \in Walk /\ e \in ExecutionIds /\ e \in Existing
      /\ executions[e] \in Execution /\ s \in StepIds
  BY WalkTypes DEF Answer, Step
<1>2. executions' \in [ExecutionIds -> Execution]
  BY <1>1 DEF Answer, TypeOK, Execution, Result
<1>3. /\ walks' \in [Requests -> Walk]
      /\ \A q \in Requests \ {r} : walks'[q] = walks[q]
      /\ walks'[r].pc = "walking" /\ walks'[r].execution = e
      /\ walks'[r].ready \subseteq walks[r].ready
      /\ walks[r].pc = "posting" /\ loop = NoRequest /\ loop' = r
  BY <1>1 DEF Answer, MayEnter, Recorded, TypeOK, Walk
<1>4. TypeOK'
  BY <1>2, <1>3 DEF Answer, TypeOK, ApprovalsTypeOK, approvalVars
<1>5. /\ Existing' = Existing
      /\ \A f \in ExecutionIds : executions'[f].workflow_id = executions[f].workflow_id
      /\ \A f \in ExecutionIds : executions'[f].status = executions[f].status
  BY <1>1 DEF Answer, TypeOK, Existing, Execution
<1>6. LoopHeld'
  BY <1>3, EngineConstants DEF LoopHeld
<1>7. WalkedExists' /\ SingleWalker'
  BY <1>1, <1>3, <1>5 DEF WalkedExists, SingleWalker
<1>8. PausedIsIdle'
  BY <1>1, <1>3, <1>5 DEF PausedIsIdle, WalkedExists, Existing
<1>9. HasWorkflow'
  BY <1>5 DEF Answer, HasWorkflow, Existing
<1>10. BatchInSteps'
  BY <1>1, <1>3, <1>5, BatchFrame DEF Answer
<1>11. CancelExists'
  BY <1>5 DEF Answer, CancelExists
<1>12. QED BY <1>4, <1>6, <1>7, <1>8, <1>9, <1>10, <1>11

\* The request of a walk ends with an error: it read no answer at position i.
LEMMA AnswerLostIInv ==
    ASSUME IInv, NEW r \in Requests,
           AnswerRaises(r) \/ \E i \in walks[r].ready : AnswerMisread(r, i)
    PROVE  IInv'
<1> DEFINE e == walks[r].execution
           OnlyResults ==
               /\ executions' \in [ExecutionIds -> Execution]
               /\ \A f \in ExecutionIds :
                     /\ executions'[f].workflow_id = executions[f].workflow_id
                     /\ executions'[f].status = executions[f].status
<1> USE DEF IInv
<1>1. /\ walks[r].pc = "posting" /\ loop = NoRequest /\ loop' = NoRequest
      /\ walks' = [walks EXCEPT ![r] = NoWalk]
      /\ UNCHANGED <<workflows, cancellers, posted, approvals, deciders>>
  BY DEF AnswerRaises, AnswerMisread, MayEnter, approvalVars
<1>2. e \in ExecutionIds /\ e \in Existing /\ executions[e] \in Execution
  BY <1>1, WalkTypes
<1>3. OnlyResults
  <2>1. CASE AnswerRaises(r)
    BY <2>1 DEF AnswerRaises, TypeOK
  <2>2. ASSUME NEW i \in walks[r].ready, AnswerMisread(r, i)
        PROVE  OnlyResults
    <3>1. PICK s \in StepIds : s = Steps(e)[i].step_id
      BY <1>1, WalkTypes DEF Step
    <3>2. executions' = [executions EXCEPT ![e].step_results[s] = "unreadable"]
      BY <2>2, <3>1 DEF AnswerMisread
    <3>3. QED BY <1>2, <3>1, <3>2 DEF TypeOK, Execution, Result
  <2>3. QED BY <2>1, <2>2
<1>4. /\ walks' \in [Requests -> Walk]
      /\ \A q \in Requests \ {r} : walks'[q] = walks[q]
      /\ walks'[r].pc = "idle"
  BY <1>1 DEF TypeOK, NoWalk, NewWalk, Walk
<1>5. TypeOK'
  BY <1>1, <1>3, <1>4 DEF TypeOK, ApprovalsTypeOK
<1>6. Existing' = Existing
  BY <1>3 DEF Existing
<1>7. LoopHeld'
  BY <1>1, <1>4, EngineConstants DEF LoopHeld
<1>8. WalkedExists' /\ SingleWalker'
  BY <1>4, <1>6 DEF WalkedExists, SingleWalker
<1>9. PausedIsIdle'
  BY <1>3, <1>4 DEF PausedIsIdle, WalkedExists, Existing
<1>10. HasWorkflow' /\ CancelExists'
  BY <1>1, <1>3, <1>6 DEF HasWorkflow, CancelExists, Existing
<1>11. BatchInSteps'
  BY <1>1, <1>3, <1>4, BatchFrame
<1>12. QED BY <1>5, <1>7, <1>8, <1>9, <1>10, <1>11

LEMMA VerdictIInv ==
    ASSUME IInv, NEW r \in Requests, Verdict(r)
    PROVE  IInv'
<1> DEFINE e == walks[r].execution
           status == FinalStatus(Steps(e), walks[r].completed, walks[r].failed)
<1> USE DEF IInv, On
<1>1. /\ walks[r] \in Walk /\ e \in ExecutionIds /\ e \in Existing
      /\ executions[e] \in Execution
  BY WalkTypes DEF Verdict
<1>2. status \in {"completed", "failed"}
  BY DEF FinalStatus
<1>3. executions' \in [ExecutionIds -> Execution]
  BY <1>1, <1>2 DEF Verdict, TypeOK, Execution, ExecutionState, WorkflowState
<1>4. /\ walks' \in [Requests -> Walk]
      /\ \A q \in Requests \ {r} : walks'[q] = walks[q]
      /\ walks'[r].pc = "finishing" /\ walks'[r].execution = e
      /\ walks'[r].ready = walks[r].ready
      /\ walks[r].pc = "walking" /\ loop = r /\ loop' = r
  BY <1>1 DEF Verdict, TypeOK, Walk
<1>5. TypeOK'
  BY <1>3, <1>4 DEF Verdict, TypeOK, ApprovalsTypeOK, approvalVars
<1>6. /\ Existing' = Existing
      /\ \A f \in ExecutionIds : executions'[f].workflow_id = executions[f].workflow_id
      /\ \A f \in ExecutionIds :
            executions'[f].status = executions[f].status
            \/ executions'[f].status \in {"completed", "failed"}
  BY <1>1, <1>2 DEF Verdict, TypeOK, Existing, Execution
<1>7. LoopHeld'
  BY <1>4 DEF LoopHeld
<1>8. WalkedExists' /\ SingleWalker'
  BY <1>1, <1>4, <1>6 DEF WalkedExists, SingleWalker
<1>9. PausedIsIdle'
  BY <1>1, <1>4, <1>6 DEF PausedIsIdle, WalkedExists, Existing
<1>10. HasWorkflow'
  BY <1>6 DEF Verdict, HasWorkflow, Existing
<1>11. BatchInSteps'
  BY <1>1, <1>4, <1>6, BatchFrame DEF Verdict
<1>12. CancelExists'
  BY <1>6 DEF Verdict, CancelExists
<1>13. QED BY <1>5, <1>7, <1>8, <1>9, <1>10, <1>11, <1>12

\* A walk that ends with a status written to the workflow.
LEMMA WalkEndsIInv ==
    ASSUME IInv, NEW r \in Requests, NEW status \in ExecutionState \ {"absent"},
           loop = r, walks[r].pc # "idle",
           workflows' = [workflows EXCEPT
               ![executions[walks[r].execution].workflow_id].status = status],
           walks' = [walks EXCEPT ![r] = NoWalk],
           loop' = NoRequest,
           UNCHANGED <<executions, cancellers, posted, approvalVars>>
    PROVE  IInv'
<1> DEFINE w == executions[walks[r].execution].workflow_id
<1> USE DEF IInv
<1>1. w \in WorkflowIds /\ workflows[w] \in Workflow
  BY WalkTypes
<1>2. workflows' \in [WorkflowIds -> Workflow]
  BY <1>1 DEF TypeOK, Workflow, ExecutionState, WorkflowState
<1>3. /\ walks' \in [Requests -> Walk]
      /\ \A q \in Requests \ {r} : walks'[q] = walks[q]
      /\ walks'[r].pc = "idle"
  BY DEF TypeOK, NoWalk, NewWalk, Walk
<1>4. TypeOK'
  BY <1>2, <1>3 DEF TypeOK, ApprovalsTypeOK, approvalVars
<1>5. /\ Existing' = Existing
      /\ \A v \in WorkflowIds : workflows'[v].steps = workflows[v].steps
      /\ \A v \in WorkflowIds : workflows[v].status # "absent" => workflows'[v].status # "absent"
  BY <1>1 DEF TypeOK, Workflow, Existing
<1>6. LoopHeld'
  BY <1>3, EngineConstants DEF LoopHeld
<1>7. WalkedExists' /\ SingleWalker' /\ PausedIsIdle'
  BY <1>3, <1>5 DEF WalkedExists, SingleWalker, PausedIsIdle
<1>8. HasWorkflow' /\ CancelExists'
  BY <1>5 DEF HasWorkflow, CancelExists
<1>9. BatchInSteps'
  BY <1>3, <1>5 DEF BatchInSteps, WalkedExists, HasWorkflow, Steps
<1>10. QED BY <1>4, <1>6, <1>7, <1>8, <1>9

LEMMA PauseWorkflowIInv ==
    ASSUME IInv, NEW r \in Requests, PauseWorkflow(r)
    PROVE  IInv'
<1>1. "paused" \in ExecutionState \ {"absent"}
  BY DEF ExecutionState, WorkflowState
<1>2. QED BY <1>1, WalkEndsIInv DEF PauseWorkflow, SetWorkflow, On

LEMMA FinishWalkIInv ==
    ASSUME IInv, NEW r \in Requests, FinishWalk(r)
    PROVE  IInv'
<1>1. executions[walks[r].execution].status \in ExecutionState \ {"absent"}
  BY WalkTypes DEF FinishWalk, On, Execution, Existing
<1>2. QED BY <1>1, WalkEndsIInv DEF FinishWalk, SetWorkflow, On

LEMMA CancelBeginIInv ==
    ASSUME IInv, NEW t \in Cancellers, NEW w \in WorkflowIds, CancelBegin(t, w)
    PROVE  IInv'
<1> USE DEF IInv, CancelBegin, SetWorkflow
<1>1. TypeOK'
  BY DEF TypeOK, ApprovalsTypeOK, approvalVars, Workflow, WorkflowState, CancelCall, Existing
<1>2. /\ Existing' = Existing
      /\ \A v \in WorkflowIds : workflows'[v].steps = workflows[v].steps
      /\ \A v \in WorkflowIds : workflows[v].status # "absent" => workflows'[v].status # "absent"
  BY DEF TypeOK, Workflow, Existing
<1>3. HasWorkflow'
  BY <1>2 DEF HasWorkflow
<1>4. BatchInSteps'
  BY <1>2 DEF BatchInSteps, WalkedExists, HasWorkflow, Steps
<1>5. CancelExists'
  BY <1>2 DEF CancelExists, TypeOK
<1>6. LoopHeld' /\ WalkedExists' /\ PausedIsIdle' /\ SingleWalker'
  BY <1>2 DEF LoopHeld, WalkedExists, PausedIsIdle, SingleWalker
<1>7. QED BY <1>1, <1>3, <1>4, <1>5, <1>6

LEMMA CancelWriteIInv ==
    ASSUME IInv, NEW t \in Cancellers, CancelWrite(t)
    PROVE  IInv'
<1> DEFINE e == cancellers[t].index
<1> USE DEF IInv, CancelWrite
<1>1. e \in Existing /\ e \in ExecutionIds
  BY DEF CancelExists, Existing
<1>2. executions' \in [ExecutionIds -> Execution]
  BY <1>1 DEF TypeOK, Execution, ExecutionState, WorkflowState
<1>3. cancellers' \in [Cancellers -> CancelCall]
  BY DEF TypeOK, CancelCall
<1>4. TypeOK'
  BY <1>2, <1>3 DEF TypeOK, ApprovalsTypeOK, approvalVars
<1>5. /\ Existing' = Existing
      /\ \A f \in ExecutionIds : executions'[f].workflow_id = executions[f].workflow_id
      /\ \A f \in ExecutionIds :
            executions'[f].status = executions[f].status \/ executions'[f].status = "failed"
  BY <1>1 DEF TypeOK, Existing, Execution
<1>6. LoopHeld' /\ WalkedExists' /\ SingleWalker'
  BY <1>5 DEF LoopHeld, WalkedExists, SingleWalker
<1>7. PausedIsIdle'
  BY <1>5 DEF PausedIsIdle, WalkedExists, Existing
<1>8. HasWorkflow'
  BY <1>5 DEF HasWorkflow, Existing
<1>9. BatchInSteps'
  BY <1>5 DEF BatchInSteps, WalkedExists, Existing, Steps
<1>10. CancelExists'
  BY <1>5 DEF CancelExists, TypeOK
<1>11. QED BY <1>4, <1>6, <1>7, <1>8, <1>9, <1>10

\* A step of cancel_workflow that writes nothing but its own local state.
LEMMA CancelReadsIInv ==
    ASSUME IInv, NEW t \in Cancellers,
           CancelInterrupted(t) \/ CancelTest(t) \/ CancelSkip(t) \/ CancelDone(t)
    PROVE  IInv'
<1> USE DEF IInv
<1>1. /\ cancellers' \in [Cancellers -> CancelCall]
      /\ \A u \in Cancellers : cancellers'[u].pc = "write" =>
             cancellers'[u].index \in Existing
  <2>1. CASE CancelInterrupted(t) \/ CancelDone(t)
    <3>1. NoCancel \in CancelCall /\ NoCancel.pc = "idle"
      BY DEF NoCancel, CancelCall
    <3>2. QED BY <2>1, <3>1 DEF CancelInterrupted, CancelDone, TypeOK, CancelExists
  <2>2. CASE CancelTest(t)
    BY <2>2 DEF CancelTest, TypeOK, CancelCall, CancelExists
  <2>3. CASE CancelSkip(t)
    <3>1. cancellers' = [cancellers EXCEPT ![t].index = @ + 1]
      BY <2>3 DEF CancelSkip
    <3>2. cancellers[t].pc = "scan"
      BY <2>3 DEF CancelSkip
    <3>3. cancellers \in [Cancellers -> CancelCall]
      BY DEF TypeOK
    <3>4. \A u \in Cancellers : cancellers[u].pc = "write" => cancellers[u].index \in Existing
      BY DEF CancelExists
    <3> HIDE DEF IInv
    <3>5. QED BY <3>1, <3>2, <3>3, <3>4 DEF CancelCall
  <2>4. QED BY <2>1, <2>2, <2>3
<1>2. UNCHANGED <<workflows, executions, walks, loop, posted, approvals, deciders>>
  BY DEF CancelInterrupted, CancelTest, CancelSkip, CancelDone, approvalVars
<1>3. TypeOK'
  BY <1>1, <1>2 DEF TypeOK, ApprovalsTypeOK
<1>4. CancelExists'
  BY <1>1, <1>2 DEF CancelExists, Existing
<1>5. /\ LoopHeld' /\ WalkedExists' /\ PausedIsIdle' /\ HasWorkflow' /\ BatchInSteps'
      /\ SingleWalker'
  BY <1>2 DEF LoopHeld, WalkedExists, PausedIsIdle, HasWorkflow, BatchInSteps,
              SingleWalker, Existing, Steps
<1>6. QED BY <1>3, <1>4, <1>5

\* A step of the approval endpoints.
LEMMA ApprovalsIInv ==
    ASSUME IInv, ApprovalsNext, UNCHANGED engineVars
    PROVE  IInv'
<1> USE DEF IInv
<1>1. UNCHANGED <<workflows, executions, walks, loop, cancellers, posted>>
  BY DEF engineVars
<1>2. ApprovalsTypeOK'
  <2> USE DEF TypeOK, ApprovalsTypeOK, Approval, Decision, DecideCall
  <2>1. ASSUME NEW a \in ApprovalIds, NEW s \in StepIds, CreateApproval(a, s)
        PROVE  ApprovalsTypeOK'
    BY <2>1 DEF CreateApproval, NewApproval
  <2>2. ASSUME NEW t \in Deciders, NEW a \in ApprovalIds, NEW d \in Decision,
               NEW u \in Users, DecideCheck(t, a, d, u)
        PROVE  ApprovalsTypeOK'
    BY <2>2 DEF DecideCheck
  <2>3. ASSUME NEW t \in Deciders, DecideStatus(t)
        PROVE  ApprovalsTypeOK'
    BY <2>3 DEF DecideStatus
  <2>4. ASSUME NEW t \in Deciders, DecideRecord(t)
        PROVE  ApprovalsTypeOK'
    BY <2>4 DEF DecideRecord, NoCall
  <2>5. QED BY <2>1, <2>2, <2>3, <2>4 DEF ApprovalsNext
<1>3. TypeOK'
  BY <1>1, <1>2 DEF TypeOK
<1>4. /\ LoopHeld' /\ WalkedExists' /\ PausedIsIdle' /\ HasWorkflow' /\ BatchInSteps'
      /\ CancelExists' /\ SingleWalker'
  BY <1>1 DEF LoopHeld, WalkedExists, PausedIsIdle, HasWorkflow, BatchInSteps,
              CancelExists, SingleWalker, Existing, Steps
<1>5. QED BY <1>3, <1>4

LEMMA NextIInv == IInv /\ [Next]_vars => IInv'
<1> SUFFICES ASSUME IInv, [Next]_vars PROVE IInv'
  OBVIOUS
<1>1. ASSUME ClientStep PROVE IInv'
  BY <1>1, CreateWorkflowIInv, ExecuteIInv, AdvanceBeginIInv, CancelBeginIInv DEF ClientStep
<1>2. ASSUME NEW r \in Requests, LoopStep(r) PROVE IInv'
  BY <1>2, NextBatchIInv, VerdictIInv, FinishWalkIInv, PauseWorkflowIInv,
     AdvanceResumeIInv, PostIInv, GateIInv DEF LoopStep
<1>3. ASSUME NEW r \in Requests, Answered(r) PROVE IInv'
  BY <1>3, AnswerIInv, AnswerLostIInv DEF Answered
<1>4. ASSUME NEW t \in Cancellers, CancelStep(t) PROVE IInv'
  BY <1>4, CancelReadsIInv, CancelWriteIInv DEF CancelStep
<1>5. CASE UNCHANGED vars
  BY <1>5 DEF vars, engineVars, approvalVars, IInv, TypeOK, ApprovalsTypeOK, LoopHeld,
     WalkedExists, PausedIsIdle, HasWorkflow, BatchInSteps, CancelExists, SingleWalker,
     Existing, Steps
<1>6. QED BY <1>1, <1>2, <1>3, <1>4, <1>5, ApprovalsIInv DEF Next

\* Every state of the engine is of its type, whatever the bounds, the step
\* lists that clients post and the number of requests and threads.
THEOREM TypeCorrect == SafetySpec => []TypeOK
<1>1. IInv => TypeOK
  BY DEF IInv
<1>2. QED BY <1>1, InitIInv, NextIInv, PTL DEF SafetySpec

\* No two requests ever walk the same execution (execute_workflow,
\* advance_workflow, _walk_dag).
THEOREM OneWalkPerExecution == SafetySpec => []SingleWalker
<1>1. IInv => SingleWalker
  BY DEF IInv
<1>2. QED BY <1>1, InitIInv, NextIInv, PTL DEF SafetySpec
=============================================================================
