--------------------------- MODULE PlatformProofs ---------------------------
(***************************************************************************)
(* The composition, for every value of the constants: what the runtime     *)
(* works on, and what a client is told to be done, although any of the     *)
(* three services may give up the next one while that goes on.             *)
(*                                                                         *)
(* The engine and the task store keep their invariants here because a step *)
(* of the platform is a step of each of them or leaves it alone; what is   *)
(* new is what each knows of the other.                                    *)
(***************************************************************************)
EXTENDS Platform, TaskStoreProofs

\* The engine, with the theorems about it.
Walker == INSTANCE DagRefinementProofs WITH Requests <- Calls \cup Insiders, Cancellers <- {}

-----------------------------------------------------------------------------
(* A step of the platform is a step of the engine.                         *)

LEMMA EngineInitially == PlatformInit => Walker!Init
BY DEF PlatformInit, Engine!Init, Walker!Init, Engine!ApprovalsInit, Walker!ApprovalsInit,
   Engine!NoApproval, Walker!NoApproval, Engine!NoCall, Walker!NoCall,
   Engine!ApprovalIds, Walker!ApprovalIds, Engine!WorkflowIds, Walker!WorkflowIds,
   Engine!ExecutionIds, Walker!ExecutionIds, Engine!NoExecution, Walker!NoExecution,
   Engine!NoResults, Walker!NoResults, Engine!NoWalk, Walker!NoWalk, Engine!NewWalk,
   Walker!NewWalk, Engine!NoCancel, Walker!NoCancel

LEMMA EngineCreates ==
    ASSUME NEW w, NEW d, Engine!CreateWorkflow(w, d) PROVE Walker!CreateWorkflow(w, d)
BY DEF Engine!CreateWorkflow, Walker!CreateWorkflow, Engine!FreshWorkflow,
   Walker!FreshWorkflow, Engine!WorkflowIds, Walker!WorkflowIds, Engine!approvalVars,
   Walker!approvalVars

LEMMA EngineExecutes ==
    ASSUME NEW r, NEW w, NEW e, Engine!Execute(r, w, e) PROVE Walker!Execute(r, w, e)
BY DEF Engine!Execute, Walker!Execute, Engine!MayEnter, Walker!MayEnter,
   Engine!FreshExecution, Walker!FreshExecution, Engine!Existing, Walker!Existing,
   Engine!ExecutionIds, Walker!ExecutionIds, Engine!NewExecution, Walker!NewExecution,
   Engine!NoResults, Walker!NoResults, Engine!NewWalk, Walker!NewWalk, Engine!approvalVars,
   Walker!approvalVars

LEMMA EngineAdvances ==
    ASSUME NEW r, NEW w, NEW e, Engine!AdvanceBegin(r, w, e) PROVE Walker!AdvanceBegin(r, w, e)
BY DEF Engine!AdvanceBegin, Walker!AdvanceBegin, Engine!MayEnter, Walker!MayEnter,
   Engine!FirstExecution, Walker!FirstExecution, Engine!ExecutionIds, Walker!ExecutionIds,
   Engine!NewWalk, Walker!NewWalk, Engine!approvalVars, Walker!approvalVars

LEMMA EngineIsAnswered ==
    ASSUME NEW r, NEW i, NEW o, Engine!Answer(r, i, o) PROVE Walker!Answer(r, i, o)
BY DEF Engine!Answer, Walker!Answer, Engine!MayEnter, Walker!MayEnter,
   Engine!Handling, Walker!Handling, Engine!Steps, Walker!Steps,
   Engine!Recorded, Walker!Recorded, Engine!approvalVars, Walker!approvalVars

LEMMA EngineWalks ==
    ASSUME NEW r, Engine!LoopStep(r) PROVE Walker!LoopStep(r)
<1>1. CASE Engine!NextBatch(r)
  BY <1>1 DEF Walker!LoopStep, Engine!NextBatch, Walker!NextBatch, Engine!ReadySteps,
     Walker!ReadySteps, Engine!Steps, Walker!Steps, Engine!On, Walker!On, Engine!approvalVars,
     Walker!approvalVars
<1>2. CASE Engine!Verdict(r)
  BY <1>2 DEF Walker!LoopStep, Engine!Verdict, Walker!Verdict, Engine!ReadySteps,
     Walker!ReadySteps, Engine!Steps, Walker!Steps, Engine!On, Walker!On, Engine!approvalVars,
     Walker!approvalVars, Engine!FinalStatus, Walker!FinalStatus, Engine!Cardinality,
     Walker!Cardinality
<1>3. CASE Engine!FinishWalk(r)
  BY <1>3 DEF Walker!LoopStep, Engine!FinishWalk, Walker!FinishWalk, Engine!SetWorkflow,
     Walker!SetWorkflow, Engine!NoWalk, Walker!NoWalk, Engine!NewWalk, Walker!NewWalk,
     Engine!On, Walker!On, Engine!approvalVars, Walker!approvalVars
<1>4. CASE Engine!PauseWorkflow(r)
  BY <1>4 DEF Walker!LoopStep, Engine!PauseWorkflow, Walker!PauseWorkflow, Engine!SetWorkflow,
     Walker!SetWorkflow, Engine!NoWalk, Walker!NoWalk, Engine!NewWalk, Walker!NewWalk,
     Engine!On, Walker!On, Engine!approvalVars, Walker!approvalVars
<1>5. CASE Engine!AdvanceResume(r)
  BY <1>5 DEF Walker!LoopStep, Engine!AdvanceResume, Walker!AdvanceResume,
     Engine!ApprovedResults, Walker!ApprovedResults, Engine!ResumedWith, Walker!ResumedWith,
     Engine!CompletedIn, Walker!CompletedIn, Engine!FailedIn, Walker!FailedIn,
     Engine!On, Walker!On, Engine!approvalVars, Walker!approvalVars
<1>6. ASSUME NEW i \in walks[r].ready, Engine!Post(r, i) PROVE Walker!Post(r, i)
  BY <1>6 DEF Engine!Post, Walker!Post, Engine!Handling, Walker!Handling, Engine!Ungated,
     Walker!Ungated, Engine!Steps, Walker!Steps, Engine!On, Walker!On, Engine!approvalVars,
     Walker!approvalVars
<1>7. ASSUME NEW i \in walks[r].ready, NEW a \in Engine!ApprovalIds, Engine!Gate(r, a, i)
      PROVE  a \in Walker!ApprovalIds /\ Walker!Gate(r, a, i)
  BY <1>7 DEF Engine!Gate, Walker!Gate, Engine!Handling, Walker!Handling,
     Engine!ApprovalIds, Walker!ApprovalIds, Engine!FreshApproval, Walker!FreshApproval,
     Engine!NewApproval, Walker!NewApproval, Engine!PausedAt, Walker!PausedAt,
     Engine!Steps, Walker!Steps, Engine!On, Walker!On, Engine!approvalVars,
     Walker!approvalVars
<1>8. QED BY <1>1, <1>2, <1>3, <1>4, <1>5, <1>6, <1>7 DEF Engine!LoopStep, Walker!LoopStep

-----------------------------------------------------------------------------
(* What is known of the engine.                                            *)

\* The assumptions of the engine hold of its instance.
LEMMA EngineAssumptions ==
    /\ MaxApprovals \in Nat /\ MaxRequested \in Nat
    /\ MaxWorkflows \in Nat /\ MaxExecutions \in Nat
    /\ NoStep \notin StepIds /\ NoUser \notin Users
    /\ NoRequest \notin Calls \cup Insiders
    /\ Definitions \subseteq Seq(Walker!Step)
BY PlatformAssumption DEF Engine!Step, Walker!Step

\* Its invariants.
EngineInv == Walker!IInv /\ Walker!WInv /\ Walker!PostedSteps

LEMMA EngineInvInitially == PlatformInit => EngineInv
<1>1. PlatformInit => Walker!PostedSteps
  BY EngineInitially DEF Walker!Init, Walker!PostedSteps
<1>2. QED BY <1>1, EngineInitially, EngineAssumptions, Walker!InitIInv, Walker!InitWInv
      DEF EngineInv

LEMMA EngineInvStays ==
    ASSUME EngineInv, [Walker!Next]_(Walker!vars)
    PROVE  EngineInv'
BY EngineAssumptions, Walker!NextIInv, Walker!NextWInv, Walker!PostedStepsStay DEF EngineInv

\* The steps of an execution: a list with distinct identifiers.
LEMMA StepsOf ==
    ASSUME EngineInv, NEW e \in Walker!Existing
    PROVE  /\ e \in Walker!ExecutionIds
           /\ Walker!WellFormed(e)
           /\ Walker!Steps(e) \in Seq(Walker!Step)
           /\ \A i \in DOMAIN Walker!Steps(e) : Walker!Steps(e)[i].step_id \in StepIds
<1> DEFINE w == executions[e].workflow_id
<1>1. e \in Walker!ExecutionIds
  BY DEF Walker!Existing
<1>2. w \in Walker!WorkflowIds /\ workflows[w].status # "absent"
  BY DEF EngineInv, Walker!IInv, Walker!HasWorkflow
<1>3. Walker!Steps(e) \in Definitions
  BY <1>2 DEF EngineInv, Walker!PostedSteps, Walker!Steps
<1>4. Walker!Steps(e) \in Seq(Walker!Step)
  BY <1>3, EngineAssumptions
<1>5. Walker!UniqueIds(Walker!Steps(e))
  BY <1>3, PlatformAssumption DEF Engine!UniqueIds, Walker!UniqueIds
<1>6. \A i \in DOMAIN Walker!Steps(e) : Walker!Steps(e)[i].step_id \in StepIds
  BY <1>4, EngineAssumptions, Walker!StepTypes
<1>7. QED BY <1>1, <1>4, <1>5, <1>6 DEF Walker!WellFormed

-----------------------------------------------------------------------------
(* What the services know of each other.                                   *)

Callers == Calls \cup Insiders

\* A stored task tells how the run that made it ended.
StoredAsEnded ==
    \A r \in Runs : tasks[r].status # "absent" => tasks[r].status = StatusOf(outcome[r].end)

\* What the runtime executes under the name of a step was posted by the engine.
DeliveredWasSent ==
    \A e \in Walker!ExecutionIds, s \in StepIds :
        requests[<<e, s>>].at # "new" =>
            /\ requests[<<e, s>>].kind = "execute"
            /\ posted[e][s] > 0

\* The results that the engine has are those of the runtime, or approvals.
EngineKnows ==
    \A e \in Walker!Existing : \A i \in DOMAIN Walker!Steps(e) :
        LET step == Walker!Steps(e)[i] IN
        executions[e].step_results[step.step_id] \notin {"none", "failed"} => StepHandled(e, step)

StoreInv == IInv /\ StoredAsEnded

\* A call of ClientStep runs an agent for r.
LEMMA ClientRuns ==
    ASSUME NEW r \in Runs, ClientStep(r)
    PROVE  \E kind, of, input : RunFor(r, kind, of, input)
BY DEF ClientStep, Execute, Simulate, Resume

\* Where a run is, when its handler takes a step.
LEMMA HandlerMoves ==
    ASSUME TypeInv, NEW r \in Runs, HandlerStep(r)
    PROVE  \A q \in Runs : /\ requests'[q].kind = requests[q].kind
                           /\ requests'[q].at = "new" <=> requests[q].at = "new"
                           /\ requests[q].at = "answered" => requests'[q].at = "answered"
<1>1. requests \in [Runs -> Request]
  BY DEF TypeInv
<1>2. CASE RunStep(r)
  BY <1>2 DEF RunStep
<1>3. CASE ~RunStep(r)
  <2>1. /\ requests[r].at \in {"running", "status", "result", "steps"}
        /\ \E at \in {"status", "result", "steps", "answered", "error"} :
               requests' = [requests EXCEPT ![r].at = at]
    BY <1>3 DEF HandlerStep, ExecuteEnd, ResumeStatus, ResumeResult, ResumeSteps, ResumeStamp,
       SimulateEnd, Error, Returned
  <2>2. QED BY <1>1, <2>1 DEF Request
<1>4. QED BY <1>2, <1>3

LEMMA StoredAsEndedStays ==
    ASSUME StoreInv, [Next]_storeVars PROVE StoreInv'
<1> USE DEF StoreInv
<1>1. /\ task \in [Runs -> Task] /\ outcome \in [Runs -> Outcome]
      /\ requests \in [Runs -> Request] /\ tasks \in [Runs -> Record]
  BY DEF IInv, TypeInv
<1>2. ASSUME NEW r \in Runs, UNCHANGED tasks, requests[r].at # "answered",
             \A q \in Runs \ {r} : outcome'[q] = outcome[q]
      PROVE  StoredAsEnded'
  BY <1>2 DEF StoredAsEnded, IInv, OneRecordPerExecution
<1>3. ASSUME NEW r \in Runs, ClientStep(r)
      PROVE  StoredAsEnded'
  <2>1. PICK kind, of, input : RunFor(r, kind, of, input)
    BY <1>3, ClientRuns
  <2>2. UNCHANGED tasks /\ requests[r].at = "new" /\ \A q \in Runs \ {r} : outcome'[q] = outcome[q]
    BY <1>1, <2>1 DEF RunFor, Agent!Begin
  <2>3. QED BY <2>2, <1>2
<1>4. ASSUME NEW r \in Runs, RunStep(r)
      PROVE  StoredAsEnded'
  <2>1. /\ outcome[r] = Agent!Running /\ UNCHANGED tasks
        /\ \A q \in Runs \ {r} : outcome'[q] = outcome[q]
    BY <1>1, <1>4 DEF RunStep, Agent!End
  <2>2. Agent!Promise(task[r]).end # "running"
    BY <1>1, PromiseType
  <2>3. requests[r].at # "answered"
    BY <2>1, <2>2 DEF IInv, RunsKeepPromise, Agent!Running
  <2>4. QED BY <2>1, <2>3, <1>2
<1>5. ASSUME NEW r \in Runs, ExecuteEnd(r)
      PROVE  StoredAsEnded'
  BY <1>1, <1>5 DEF ExecuteEnd, agentVars, StoredAsEnded
<1>6. ASSUME UNCHANGED tasks, UNCHANGED outcome
      PROVE  StoredAsEnded'
  BY <1>6 DEF StoredAsEnded
<1>7. ASSUME NEW r \in Runs, HandlerStep(r)
      PROVE  StoredAsEnded'
  BY <1>4, <1>5, <1>6, <1>7, ResumptionsKeepTasks DEF HandlerStep, SimulateEnd, Error, agentVars,
     ResumeStatus, ResumeResult, ResumeSteps, ResumeStamp
<1>8. StoredAsEnded'
  BY <1>3, <1>6, <1>7 DEF Next, storeVars
<1>9. QED BY <1>8, StepKeeps

-----------------------------------------------------------------------------
(* A step of the platform, seen from each of the services.                 *)

\* The runtime: a caller's run, a step that the engine posted, or a handler.
LEMMA StoreStep ==
    ASSUME [PlatformNext]_platformVars
    PROVE  \/ UNCHANGED storeVars
           \/ /\ UNCHANGED workflowVars
              /\ \/ \E r \in Callers : ClientStep(r)
                 \/ \E e \in Walker!ExecutionIds, s \in StepIds :
                       posted[e][s] > 0 /\ Execute(<<e, s>>, InputOf[s])
                 \/ \E r \in Runs : HandlerStep(r)
<1> USE DEF StoreIdle, EngineIdle, CallsIdle
<1>1. CASE NewWorkflow \/ FailureStep
  BY <1>1 DEF NewWorkflow, FailureStep, GatewayFails, EngineGivesUp
<1>2. ASSUME NEW c \in Calls, ClientCalls(c) \/ TellClient(c) PROVE UNCHANGED storeVars
  BY <1>2 DEF ClientCalls, TellClient
<1>3. ASSUME NEW x \in Insiders, InsiderStep(x)
      PROVE  \/ UNCHANGED storeVars
             \/ UNCHANGED workflowVars /\ \E r \in Callers : ClientStep(r)
  BY <1>3 DEF InsiderStep, Callers, ClientStep
<1>4. ASSUME NEW c \in Calls, ServiceStep(c)
      PROVE  \/ UNCHANGED storeVars
             \/ UNCHANGED workflowVars /\ \E r \in Callers : ClientStep(r)
  <2>1. CASE ServeTask(c) \/ ServeRetry(c)
    BY <2>1 DEF ServeTask, ServeRetry, Callers, ClientStep
  <2>2. CASE RefuseRetry(c) \/ ServedByRuntime(c) \/ ServeWorkflow(c) \/ RefuseWorkflow(c)
    BY <2>2 DEF RefuseRetry, ServedByRuntime, ServeWorkflow, RefuseWorkflow
  <2>3. QED BY <1>4, <2>1, <2>2 DEF ServiceStep
<1>5. ASSUME NEW r \in Runs, RuntimeStep(r) PROVE UNCHANGED workflowVars /\ HandlerStep(r)
  BY <1>5 DEF RuntimeStep
<1>6. ASSUME NEW e \in Engine!ExecutionIds, NEW s \in StepIds, Deliver(e, s)
      PROVE  /\ UNCHANGED workflowVars
             /\ e \in Walker!ExecutionIds
             /\ posted[e][s] > 0 /\ Execute(<<e, s>>, InputOf[s])
  BY <1>6 DEF Deliver, Engine!ExecutionIds, Walker!ExecutionIds
<1>7. ASSUME NEW r, EngineStep(r) \/ EngineAnswered(r) PROVE UNCHANGED storeVars
  BY <1>7 DEF EngineStep, EngineAnswered
<1>8. CASE UNCHANGED platformVars
  BY <1>8 DEF platformVars
<1>9. QED BY <1>1, <1>2, <1>3, <1>4, <1>5, <1>6, <1>7, <1>8 DEF PlatformNext, WorkStep

\* It is a step of the store, whose invariant stays.
LEMMA StoreInvStays ==
    ASSUME StoreInv, [PlatformNext]_platformVars
    PROVE  /\ StoreInv' /\ [Next]_storeVars
           /\ \A id \in Runs : tasks[id].status # "absent" => tasks'[id].status = tasks[id].status
<1> DEFINE Kept == \A id \in Runs :
                     tasks[id].status # "absent" => tasks'[id].status = tasks[id].status
<1>1. ASSUME NEW r \in Callers, ClientStep(r) PROVE Next /\ Kept
  <2>1. r \in Runs
    BY PlatformAssumption DEF Callers
  <2>2. QED BY <1>1, <2>1, ClientKeeps DEF Next, StoreInv
<1>2. ASSUME NEW e \in Walker!ExecutionIds, NEW s \in StepIds, Execute(<<e, s>>, InputOf[s])
      PROVE  Next /\ Kept
  <2>1. <<e, s>> \in Runs /\ InputOf[s] \in Inputs
    BY PlatformAssumption DEF Engine!ExecutionIds, Walker!ExecutionIds
  <2>2. ClientStep(<<e, s>>)
    BY <1>2, <2>1 DEF ClientStep
  <2>3. QED BY <2>1, <2>2, ClientKeeps DEF Next, StoreInv
<1>3. ASSUME NEW r \in Runs, HandlerStep(r) PROVE Next /\ Kept
  BY <1>3, HandlerKeeps DEF Next, StoreInv
<1>4. CASE UNCHANGED storeVars
  BY <1>4, StoredAsEndedStays DEF storeVars
<1>5. CASE Next /\ Kept
  BY <1>5, StoredAsEndedStays
<1>6. QED BY <1>1, <1>2, <1>3, <1>4, <1>5, StoreStep

\* What the runtime answers for a step is what its record says, and a failure
\* when it has none.
LEMMA OutcomeIsStored ==
    ASSUME StoreInv, NEW run \in Runs, requests[run].kind = "execute",
           requests[run].at \in {"answered", "error"}
    PROVE  /\ OutcomeOf(run) \in Walker!Outcome
           /\ OutcomeOf(run) # "failed" => tasks[run].status \in {"completed", "escalated"}
<1>1. CASE requests[run].at = "error"
  BY <1>1 DEF OutcomeOf, Walker!Outcome
<1>2. CASE requests[run].at = "answered"
  <2>1. tasks[run].status # "absent"
    BY <1>2 DEF StoreInv, IInv, OneRecordPerExecution
  <2>2. OutcomeOf(run) = tasks[run].status
    BY <1>2, <2>1 DEF OutcomeOf, StoreInv, StoredAsEnded
  <2>3. tasks[run] \in Record
    BY DEF StoreInv, IInv, TypeInv
  <2>4. QED BY <2>1, <2>2, <2>3 DEF Record, Walker!Outcome
<1>3. QED BY <1>1, <1>2

\* The step that a walk awaits.
LEMMA AwaitedStep ==
    ASSUME EngineInv, NEW r \in Callers, walks[r].pc = "posting", NEW i \in walks[r].ready
    PROVE  LET e == walks[r].execution IN
           /\ e \in Walker!Existing
           /\ i \in DOMAIN Walker!Steps(e)
           /\ Awaited(r, i) = <<e, Walker!Steps(e)[i].step_id>>
           /\ Awaited(r, i) \in Runs
<1> DEFINE e == walks[r].execution
<1>1. e \in Walker!Existing /\ i \in DOMAIN Walker!Steps(e)
  BY DEF EngineInv, Walker!IInv, Walker!WalkedExists, Walker!BatchInSteps, Callers
<1>2. e \in Walker!ExecutionIds /\ Walker!Steps(e)[i].step_id \in StepIds
  BY <1>1, StepsOf
<1>3. Awaited(r, i) = <<e, Walker!Steps(e)[i].step_id>>
  BY DEF Awaited, Engine!Steps, Walker!Steps
<1>4. Awaited(r, i) \in Runs
  BY <1>2, <1>3, PlatformAssumption DEF Engine!ExecutionIds, Walker!ExecutionIds
<1>5. QED BY <1>1, <1>3, <1>4

\* The engine: a request comes in, a walk goes on, or it has its answer, which
\* is that of the runtime or a failure.
LEMMA EngineSteps ==
    ASSUME StoreInv, EngineInv, DeliveredWasSent, [PlatformNext]_platformVars
    PROVE  \/ UNCHANGED workflowVars
           \/ /\ UNCHANGED storeVars
              /\ \/ \E w \in Walker!WorkflowIds, d \in Definitions : Walker!CreateWorkflow(w, d)
                 \/ \E r \in Callers, w \in Walker!WorkflowIds, e \in Walker!ExecutionIds :
                       Walker!Execute(r, w, e) \/ Walker!AdvanceBegin(r, w, e)
                 \/ \E r \in Callers : Walker!LoopStep(r)
                 \/ \E r \in Callers : \E i \in walks[r].ready, o \in Walker!Outcome :
                       /\ Walker!Answer(r, i, o)
                       /\ o # "failed" => tasks[Awaited(r, i)].status \in {"completed", "escalated"}
<1> USE DEF StoreIdle, EngineIdle, CallsIdle
<1> DEFINE
      Creates == \E w \in Walker!WorkflowIds, d \in Definitions : Walker!CreateWorkflow(w, d)
      Enters == \E r \in Callers, w \in Walker!WorkflowIds, e \in Walker!ExecutionIds :
                    Walker!Execute(r, w, e) \/ Walker!AdvanceBegin(r, w, e)
      Walks == \E r \in Callers : Walker!LoopStep(r)
      Hears == \E r \in Callers : \E i \in walks[r].ready, o \in Walker!Outcome :
                   /\ Walker!Answer(r, i, o)
                   /\ o # "failed" => tasks[Awaited(r, i)].status \in {"completed", "escalated"}
      Goal == \/ UNCHANGED workflowVars
              \/ UNCHANGED storeVars /\ (Creates \/ Enters \/ Walks \/ Hears)
<1>0. /\ Engine!WorkflowIds = Walker!WorkflowIds /\ Engine!ExecutionIds = Walker!ExecutionIds
      /\ Calls \subseteq Callers /\ Insiders \subseteq Callers
  BY DEF Engine!WorkflowIds, Walker!WorkflowIds, Engine!ExecutionIds, Walker!ExecutionIds, Callers
<1>1. CASE NewWorkflow
  BY <1>0, <1>1, EngineCreates DEF NewWorkflow
<1>2. ASSUME NEW c \in Calls, ClientCalls(c) \/ TellClient(c) \/ GatewayFails(c)
      PROVE  UNCHANGED workflowVars
  BY <1>2 DEF ClientCalls, TellClient, GatewayFails
<1>3. ASSUME NEW x \in Insiders, InsiderStep(x) PROVE Goal
  BY <1>0, <1>3, EngineAdvances DEF InsiderStep
<1>4. ASSUME NEW c \in Calls, ServeWorkflow(c) PROVE Goal
  BY <1>0, <1>4, EngineExecutes DEF ServeWorkflow
<1>5. ASSUME NEW c \in Calls, ServiceStep(c) PROVE Goal
  BY <1>4, <1>5 DEF ServiceStep, ServeTask, ServeRetry, RefuseRetry, ServedByRuntime, RefuseWorkflow
<1>6. ASSUME NEW r \in Callers, EngineStep(r) PROVE Goal
  BY <1>6, EngineWalks DEF EngineStep
<1>7. ASSUME NEW r \in Callers, EngineGivesUp(r) PROVE Goal
  <2>1. "failed" \in Walker!Outcome
    BY DEF Walker!Outcome
  <2>2. QED BY <1>7, <2>1, EngineIsAnswered DEF EngineGivesUp
<1>8. ASSUME NEW r \in Callers, EngineAnswered(r) PROVE Goal
  <2>1. PICK i \in walks[r].ready :
            /\ walks[r].pc = "posting"
            /\ requests[Awaited(r, i)].at \in {"answered", "error"}
            /\ Engine!Answer(r, i, OutcomeOf(Awaited(r, i)))
    BY <1>8 DEF EngineAnswered
  <2>2. /\ Awaited(r, i) = <<walks[r].execution, Walker!Steps(walks[r].execution)[i].step_id>>
        /\ walks[r].execution \in Walker!ExecutionIds
        /\ Walker!Steps(walks[r].execution)[i].step_id \in StepIds
        /\ Awaited(r, i) \in Runs
    BY <2>1, AwaitedStep, StepsOf
  <2>3. requests[Awaited(r, i)].kind = "execute"
    BY <2>1, <2>2 DEF DeliveredWasSent
  <2>4. /\ OutcomeOf(Awaited(r, i)) \in Walker!Outcome
        /\ OutcomeOf(Awaited(r, i)) # "failed" =>
               tasks[Awaited(r, i)].status \in {"completed", "escalated"}
    BY <2>1, <2>2, <2>3, OutcomeIsStored
  <2>5. Walker!Answer(r, i, OutcomeOf(Awaited(r, i)))
    BY <2>1, EngineIsAnswered
  <2>6. UNCHANGED storeVars
    BY <1>8 DEF EngineAnswered
  <2>7. QED BY <2>4, <2>5, <2>6
<1>9. CASE UNCHANGED platformVars
  BY <1>9 DEF platformVars
<1>10. ASSUME NEW r \in Runs, RuntimeStep(r) PROVE UNCHANGED workflowVars
  BY <1>10 DEF RuntimeStep
<1>11. ASSUME NEW e, NEW s, Deliver(e, s) PROVE UNCHANGED workflowVars
  BY <1>11 DEF Deliver
<1>12. CASE WorkStep
  BY <1>2, <1>5, <1>6, <1>8, <1>10, <1>11, <1>12 DEF WorkStep, Callers
<1>13. CASE FailureStep
  BY <1>2, <1>7, <1>13 DEF FailureStep, Callers
<1>14. QED BY <1>1, <1>2, <1>3, <1>9, <1>12, <1>13 DEF PlatformNext

LEMMA EngineMoves ==
    ASSUME StoreInv, EngineInv, DeliveredWasSent, [PlatformNext]_platformVars
    PROVE  [Walker!Next]_(Walker!vars) /\ EngineInv'
<1>1. [Walker!Next]_(Walker!vars)
  BY EngineSteps DEF Walker!Next, Walker!ClientStep, Walker!Answered, Walker!vars,
     Walker!engineVars, Walker!approvalVars, workflowVars, Callers
<1>2. QED BY <1>1, EngineInvStays

-----------------------------------------------------------------------------
(* What the runtime executes was sent, and what the engine records happened. *)

\* What was sent for a step is never forgotten.
LEMMA PostedGrows ==
    ASSUME EngineInv, StoreInv, DeliveredWasSent, [PlatformNext]_platformVars,
           NEW e \in Walker!ExecutionIds, NEW s \in StepIds, posted[e][s] > 0
    PROVE  posted'[e][s] > 0
<1>1. posted \in [Walker!ExecutionIds -> [StepIds -> 0..2]]
  BY DEF EngineInv, Walker!IInv, Walker!TypeOK
<1>2. ASSUME NEW r \in Callers, NEW i \in walks[r].ready, Walker!Post(r, i)
      PROVE  posted'[e][s] > 0
  BY <1>1, <1>2 DEF Walker!Post
<1>3. ASSUME NEW r \in Callers, Walker!LoopStep(r)
      PROVE  posted'[e][s] > 0
  BY <1>2, <1>3 DEF Walker!LoopStep, Walker!NextBatch, Walker!Verdict, Walker!FinishWalk,
     Walker!PauseWorkflow, Walker!AdvanceResume, Walker!Gate
<1>4. QED BY <1>3, EngineSteps DEF workflowVars, Walker!CreateWorkflow, Walker!Execute,
     Walker!AdvanceBegin, Walker!Answer

LEMMA DeliveredWasSentStays ==
    ASSUME EngineInv, StoreInv, DeliveredWasSent, [PlatformNext]_platformVars
    PROVE  DeliveredWasSent'
<1> SUFFICES ASSUME NEW e \in Walker!ExecutionIds, NEW s \in StepIds,
                    requests'[<<e, s>>].at # "new"
             PROVE  /\ requests'[<<e, s>>].kind = "execute"
                    /\ posted'[e][s] > 0
  BY DEF DeliveredWasSent, Walker!ExecutionIds
<1> DEFINE run == <<e, s>>
<1>1. /\ run \in Runs /\ run \notin Callers
  BY PlatformAssumption DEF Engine!ExecutionIds, Walker!ExecutionIds, Callers
<1>2. requests \in [Runs -> Request]
  BY DEF StoreInv, IInv, TypeInv
<1>3. CASE requests[run].at # "new" /\ requests'[run].kind = requests[run].kind
  BY <1>3, PostedGrows DEF DeliveredWasSent
<1>4. ASSUME NEW r \in Callers, ClientStep(r)
      PROVE  requests'[run] = requests[run]
  <2>1. r \in Runs /\ r # run
    BY <1>1, PlatformAssumption DEF Callers
  <2>2. PICK kind, of, input : RunFor(r, kind, of, input)
    BY <1>4, <2>1, ClientRuns
  <2>3. QED BY <1>1, <1>2, <2>1, <2>2 DEF RunFor
<1>5. ASSUME NEW f \in Walker!ExecutionIds, NEW p \in StepIds, posted[f][p] > 0,
             Execute(<<f, p>>, InputOf[p]), UNCHANGED workflowVars
      PROVE  requests'[run].kind = "execute" /\ posted'[e][s] > 0
  <2>1. CASE <<f, p>> = run
    BY <1>1, <1>2, <1>5, <2>1 DEF Execute, RunFor, At, workflowVars
  <2>2. CASE <<f, p>> # run
    <3>1. requests'[run] = requests[run]
      BY <1>1, <1>2, <1>5, <2>2 DEF Execute, RunFor
    <3>2. QED BY <1>3, <3>1
  <2>3. QED BY <2>1, <2>2
<1>6. ASSUME NEW r \in Runs, HandlerStep(r)
      PROVE  requests[run].at # "new" /\ requests'[run].kind = requests[run].kind
  BY <1>1, <1>6, HandlerMoves DEF StoreInv, IInv
<1>7. CASE UNCHANGED storeVars
  BY <1>3, <1>7 DEF storeVars
<1>8. QED BY <1>3, <1>4, <1>5, <1>6, <1>7, StoreStep

\* A walk's step changes a result only where advance_workflow approves the gate
\* at which the execution was paused.
LEMMA WalkApproves ==
    ASSUME EngineInv, NEW r \in Callers, Walker!LoopStep(r), NEW e \in Walker!ExecutionIds,
           NEW s \in StepIds, executions'[e].step_results[s] # executions[e].step_results[s]
    PROVE  /\ executions'[e].step_results[s] = "approved"
           /\ \A i \in DOMAIN Walker!Steps(e) :
                 Walker!Steps(e)[i].step_id = s => Walker!Steps(e)[i].requires_approval
<1> DEFINE f == walks[r].execution
           x == executions[f]
<1>0. /\ executions \in [Walker!ExecutionIds -> Walker!Execution]
      /\ executions[e] \in Walker!Execution
  BY DEF EngineInv, Walker!IInv, Walker!TypeOK
<1>1. CASE Walker!AdvanceResume(r)
  <2>1. walks[r].pc = "advancing"
    BY <1>1 DEF Walker!AdvanceResume, Walker!On
  <2>2. /\ f \in Walker!Existing /\ x \in Walker!Execution
        /\ Walker!Consistent(walks[r], x, Walker!Steps(f), posted[f], Walker!AskedFor)
    BY <2>1, EngineAssumptions, Walker!Walking DEF EngineInv, Callers
  <2>3. Walker!UniqueIds(Walker!Steps(f))
    BY <2>2, StepsOf DEF Walker!WellFormed
  <2>4. x.status = "paused"
    BY <2>1, <2>2 DEF Walker!Consistent, Walker!PhaseIsStatus
  <2>5. Walker!AtGate(x, Walker!Steps(f), Walker!AskedFor)
    BY <2>2, <2>3, <2>4 DEF Walker!Consistent
  <2>6. executions' = [executions EXCEPT ![f] =
            Walker!ResumedWith(@, Walker!ApprovedResults(x.step_results, x.current_step))]
    BY <1>1 DEF Walker!AdvanceResume
  <2>7. e = f /\ s = x.current_step /\ executions'[e].step_results[s] = "approved"
    BY <1>0, <2>2, <2>6 DEF Walker!ResumedWith, Walker!ApprovedResults, Walker!Execution
  <2>8. QED BY <2>3, <2>5, <2>7 DEF Walker!AtGate, Walker!UniqueIds
<1>2. ASSUME NEW i, Walker!Post(r, i) PROVE FALSE
  BY <1>0, <1>2 DEF Walker!Post, Walker!Execution
<1>3. ASSUME NEW i, NEW a, Walker!Gate(r, a, i) PROVE FALSE
  BY <1>0, <1>3 DEF Walker!Gate, Walker!PausedAt, Walker!Execution
<1>4. CASE Walker!Verdict(r)
  BY <1>0, <1>4 DEF Walker!Verdict, Walker!Execution
<1>5. QED BY <1>1, <1>2, <1>3, <1>4 DEF Walker!LoopStep, Walker!NextBatch, Walker!FinishWalk,
     Walker!PauseWorkflow

\* An answer is recorded for the step that was sent, which is not a gated one.
LEMMA AnswerIsOfAwaited ==
    ASSUME EngineInv, NEW r \in Callers, NEW j \in walks[r].ready, NEW o \in Walker!Outcome,
           Walker!Answer(r, j, o), NEW e \in Walker!ExecutionIds,
           NEW s \in StepIds, executions'[e].step_results[s] # executions[e].step_results[s]
    PROVE  /\ executions'[e].step_results[s] = o
           /\ Awaited(r, j) = <<e, s>>
           /\ \A i \in DOMAIN Walker!Steps(e) :
                 Walker!Steps(e)[i].step_id = s => ~Walker!Steps(e)[i].requires_approval
<1> DEFINE f == walks[r].execution
           steps == Walker!Steps(f)
<1>0. /\ executions \in [Walker!ExecutionIds -> Walker!Execution]
      /\ executions[e] \in Walker!Execution
  BY DEF EngineInv, Walker!IInv, Walker!TypeOK
<1>1. walks[r].pc = "posting" /\ \A i \in walks[r].ready : j <= i
  BY DEF Walker!Answer, Walker!Handling
<1>2. Awaited(r, j) = <<f, steps[j].step_id>>
  BY <1>1, AwaitedStep
<1>3. /\ f \in Walker!Existing
      /\ Walker!Consistent(walks[r], executions[f], steps, posted[f], Walker!AskedFor)
  BY <1>1, EngineAssumptions, Walker!Walking DEF EngineInv, Callers
<1>4. Walker!SentRightly(walks[r], executions[f], steps, posted[f])
  BY <1>3, StepsOf DEF Walker!WellFormed, Walker!Consistent
<1>5. executions' = [executions EXCEPT ![f].step_results[steps[j].step_id] = o]
  BY DEF Walker!Answer
<1>6. e = f /\ s = steps[j].step_id /\ executions'[e].step_results[s] = o
  BY <1>0, <1>5 DEF Walker!Execution
<1>7. Walker!Awaits(walks[r], steps, s)
  BY <1>1, <1>6 DEF Walker!Awaits
<1>8. QED BY <1>2, <1>4, <1>6, <1>7 DEF Walker!SentRightly

\* A step that is done stays done.
LEMMA DoneStays ==
    ASSUME StoreInv, EngineInv, [PlatformNext]_platformVars,
           NEW e \in Walker!ExecutionIds, NEW step, step.step_id \in StepIds, StepHandled(e, step),
           step.requires_approval => executions'[e].step_results[step.step_id]
                                       = executions[e].step_results[step.step_id]
    PROVE  StepHandled(e, step)'
<1>1. <<e, step.step_id>> \in Runs
  BY PlatformAssumption DEF Engine!ExecutionIds, Walker!ExecutionIds
<1>2. CASE step.requires_approval
  BY <1>2 DEF StepHandled
<1>3. CASE ~step.requires_approval
  <2>1. tasks[<<e, step.step_id>>].status \in {"completed", "escalated"}
    BY <1>3 DEF StepHandled
  <2>2. tasks'[<<e, step.step_id>>].status = tasks[<<e, step.step_id>>].status
    BY <1>1, <2>1, StoreInvStays
  <2>3. QED BY <1>3, <2>1, <2>2 DEF StepHandled
<1>4. QED BY <1>2, <1>3

\* A new execution has no results.
LEMMA NewExecutionIsEmpty ==
    ASSUME EngineInv, StoreInv, DeliveredWasSent, [PlatformNext]_platformVars,
           NEW e \in Walker!ExecutionIds, e \in Walker!Existing', e \notin Walker!Existing,
           NEW i \in DOMAIN Walker!Steps(e)'
    PROVE  executions'[e].step_results[Walker!Steps(e)'[i].step_id] = "none"
<1> DEFINE steps == Walker!Steps(e)'
<1>0. /\ executions \in [Walker!ExecutionIds -> Walker!Execution]
      /\ \A r \in Callers : walks[r].pc # "idle" => walks[r].execution \in Walker!Existing
  BY DEF EngineInv, Walker!IInv, Walker!TypeOK, Walker!WalkedExists, Callers
<1>1. executions[e].status = "absent" /\ executions'[e].status # "absent"
  BY DEF Walker!Existing
<1>2. ASSUME NEW r \in Callers, Walker!LoopStep(r) PROVE FALSE
  <2>1. walks[r].execution # e
    BY <1>0, <1>2 DEF Walker!LoopStep, Walker!NextBatch, Walker!Verdict, Walker!FinishWalk,
       Walker!PauseWorkflow, Walker!AdvanceResume, Walker!Post, Walker!Gate, Walker!On
  <2>2. executions'[e] = executions[e]
    BY <2>1, <1>0, <1>2 DEF Walker!LoopStep, Walker!NextBatch, Walker!Verdict, Walker!FinishWalk,
       Walker!PauseWorkflow, Walker!AdvanceResume, Walker!Post, Walker!Gate
  <2>3. QED BY <1>1, <2>2
<1>3. ASSUME NEW r \in Callers, NEW j \in walks[r].ready, NEW o, Walker!Answer(r, j, o) PROVE FALSE
  BY <1>0, <1>1, <1>3 DEF Walker!Answer
<1>4. PICK r \in Callers, w \in Walker!WorkflowIds, f \in Walker!ExecutionIds :
          Walker!Execute(r, w, f)
  BY <1>1, <1>2, <1>3, EngineSteps DEF workflowVars, Walker!CreateWorkflow, Walker!AdvanceBegin
<1>5. /\ executions' = [executions EXCEPT ![f] = Walker!NewExecution(w)]
      /\ workflows' = workflows /\ workflows[w].status # "absent"
  BY <1>4 DEF Walker!Execute
<1>6. executions'[e] = Walker!NewExecution(w)
  BY <1>0, <1>1, <1>5
<1>7. steps \in Seq(Walker!Step)
  BY <1>5, <1>6, EngineAssumptions
     DEF EngineInv, Walker!PostedSteps, Walker!Steps, Walker!NewExecution
<1>8. steps[i].step_id \in StepIds
  BY <1>7, EngineAssumptions, Walker!StepTypes
<1>9. QED BY <1>6, <1>8 DEF Walker!NewExecution, Walker!NoResults

\* The steps of an execution stay, and so do its results.
LEMMA OldExecutionStays ==
    ASSUME EngineInv, StoreInv, DeliveredWasSent, [PlatformNext]_platformVars,
           NEW e \in Walker!Existing
    PROVE  /\ e \in Walker!Existing'
           /\ Walker!Steps(e)' = Walker!Steps(e)
           /\ \A s \in StepIds : executions[e].step_results[s] # "none" =>
                 executions'[e].step_results[s] = executions[e].step_results[s]
<1>1. [Walker!Next]_(Walker!vars)
  BY EngineMoves
<1>2. e \in Walker!ExecutionIds /\ Walker!WellFormed(e)
  BY StepsOf
<1>3. /\ executions'[e].status # "absent"
      /\ executions'[e].workflow_id = executions[e].workflow_id
      /\ workflows'[executions[e].workflow_id].steps = Walker!Steps(e)
  BY <1>1, EngineAssumptions, Walker!ExistingStays DEF EngineInv
<1>4. \A s \in StepIds : executions[e].step_results[s] # "none" =>
          executions'[e].step_results[s] = executions[e].step_results[s]
  BY <1>1, <1>2, EngineAssumptions, Walker!ResultsStay DEF EngineInv
<1>5. QED BY <1>2, <1>3, <1>4 DEF Walker!Existing, Walker!Steps, Walker!ExecutionIds

\* A result that is new is an approval, or what the runtime has stored.
LEMMA ResultIsEarned ==
    ASSUME EngineInv, StoreInv, DeliveredWasSent, [PlatformNext]_platformVars,
           NEW e \in Walker!Existing, NEW i \in DOMAIN Walker!Steps(e),
           LET s == Walker!Steps(e)[i].step_id IN
               /\ executions'[e].step_results[s] # executions[e].step_results[s]
               /\ executions'[e].step_results[s] # "failed"
    PROVE  LET step == Walker!Steps(e)[i] IN
           IF step.requires_approval
           THEN executions'[e].step_results[step.step_id] = "approved"
           ELSE tasks'[<<e, step.step_id>>].status \in {"completed", "escalated"}
<1> DEFINE step == Walker!Steps(e)[i]
           s == step.step_id
<1>1. e \in Walker!ExecutionIds /\ s \in StepIds
  BY StepsOf
<1>2. ASSUME NEW r \in Callers, Walker!LoopStep(r)
      PROVE  step.requires_approval /\ executions'[e].step_results[s] = "approved"
  BY <1>1, <1>2, WalkApproves
<1>3. ASSUME NEW r \in Callers, NEW j \in walks[r].ready, NEW o \in Walker!Outcome,
             Walker!Answer(r, j, o),
             o # "failed" => tasks[Awaited(r, j)].status \in {"completed", "escalated"},
             UNCHANGED storeVars
      PROVE  ~step.requires_approval /\ tasks'[<<e, s>>].status \in {"completed", "escalated"}
  <2>1. executions'[e].step_results[s] = o /\ Awaited(r, j) = <<e, s>> /\ ~step.requires_approval
    BY <1>1, <1>3, AnswerIsOfAwaited
  <2>2. QED BY <1>3, <2>1 DEF storeVars
<1>4. ASSUME NEW r \in Callers, NEW w, NEW f \in Walker!ExecutionIds, Walker!Execute(r, w, f)
      PROVE  FALSE
  BY <1>4 DEF Walker!Execute, Walker!FreshExecution
<1>5. QED BY <1>2, <1>3, <1>4, EngineSteps
      DEF workflowVars, Walker!CreateWorkflow, Walker!AdvanceBegin

LEMMA EngineKnowsStays ==
    ASSUME EngineInv, StoreInv, DeliveredWasSent, EngineKnows, [PlatformNext]_platformVars
    PROVE  EngineKnows'
<1> SUFFICES ASSUME NEW e \in Walker!Existing', NEW i \in DOMAIN Walker!Steps(e)',
                    executions'[e].step_results[Walker!Steps(e)'[i].step_id]
                        \notin {"none", "failed"}
             PROVE  StepHandled(e, Walker!Steps(e)[i])'
  BY DEF EngineKnows
<1>1. e \in Walker!ExecutionIds
  BY DEF Walker!Existing, Walker!ExecutionIds
<1>2. e \in Walker!Existing
  BY <1>1, NewExecutionIsEmpty
<1>3. PICK step : step = Walker!Steps(e)[i]
  OBVIOUS
<1>4. /\ Walker!Steps(e)'[i] = step
      /\ i \in DOMAIN Walker!Steps(e)
      /\ step.step_id \in StepIds
  BY <1>2, <1>3, OldExecutionStays, StepsOf
<1>5. CASE executions'[e].step_results[step.step_id] = executions[e].step_results[step.step_id]
  <2>1. StepHandled(e, step)
    BY <1>2, <1>3, <1>4, <1>5 DEF EngineKnows
  <2>2. StepHandled(e, step)'
    BY <1>1, <1>4, <1>5, <2>1, DoneStays
  <2>3. QED BY <1>4, <2>2 DEF StepHandled
<1>6. CASE executions'[e].step_results[step.step_id] # executions[e].step_results[step.step_id]
  BY <1>2, <1>3, <1>4, <1>6, ResultIsEarned DEF StepHandled
<1>7. QED BY <1>5, <1>6

-----------------------------------------------------------------------------
(* What becomes of a call.                                                 *)

Reply == [execution : Walker!ExecutionIds \cup {0}, status : Walker!ExecutionState \cup {"none"}]

CallsTyped == ProxiesTypeOK /\ replies \in [Calls -> Reply]

\* A call is run or walked only once a service has it; which of the two, and of
\* what kind, its endpoint tells; and "200" is the answer of who did that.
Placed(c) ==
    /\ calls[c].at \notin {"working", "answered"} =>
          requests[c].at = "new" /\ walks[c].pc = "idle" /\ replies[c].status = "none"
    /\ walks[c].pc # "idle" =>
          /\ For(c, "execute_workflow")
          /\ calls[c].at = "working"
          /\ walks[c].execution = replies[c].execution
          /\ replies[c].status = "none"
    /\ requests[c].at # "new" =>
          \/ For(c, "retry_task") /\ requests[c].kind = "resume"
          \/ /\ For(c, "execute_task") \/ For(c, "transcript_webhook")
             /\ requests[c].kind = "execute"
    /\ calls[c].at = "answered" /\ calls[c].code = "200" =>
          For(c, "execute_workflow") \/ requests[c].at = "answered"
    /\ calls[c].told = "200" => calls[c].at = "answered" /\ calls[c].code = "200"

\* A workflow that is answered to be completed has the results of all its steps.
CompletedIsKnown(c) ==
    replies[c].status = "completed" =>
        LET e == replies[c].execution IN
        /\ e \in Walker!Existing
        /\ \A i \in DOMAIN Walker!Steps(e) :
              executions[e].step_results[Walker!Steps(e)[i].step_id] \notin {"none", "failed"}

CallsInv == CallsTyped /\ \A c \in Calls : Placed(c) /\ CompletedIsKnown(c)

Known == EngineInv /\ StoreInv /\ DeliveredWasSent /\ EngineKnows

\* A call that the step is not about keeps its place, whatever its run does.
LEMMA PlacedElsewhere ==
    ASSUME NEW c \in Calls, Placed(c), calls'[c] = calls[c], replies'[c] = replies[c],
           walks'[c].pc = walks[c].pc, walks'[c].execution = walks[c].execution,
           requests'[c].kind = requests[c].kind,
           requests'[c].at = "new" <=> requests[c].at = "new",
           requests[c].at = "answered" => requests'[c].at = "answered"
    PROVE  Placed(c)'
BY DEF Placed, For

\* The gateway and the adapter.
LEMMA PassingPlaced ==
    ASSUME CallsTyped, NEW c \in Calls, Placed(c), NEW q \in Calls,
           \/ ClientCalls(q) \/ TellClient(q) \/ GatewayFails(q)
           \/ RefuseRetry(q) \/ RefuseWorkflow(q)
    PROVE  CallsTyped' /\ Placed(c)'
<1>1. calls \in [Calls -> Call]
  BY DEF CallsTyped, ProxiesTypeOK
<1>2. UNCHANGED <<requests, walks, replies>>
  BY DEF ClientCalls, TellClient, GatewayFails, RefuseRetry, RefuseWorkflow, StoreIdle, EngineIdle,
     storeVars, workflowVars
<1>3. PICK call : call = calls[q] /\ call \in Call
  BY <1>1
<1>4. \A to : Unavailable(to) \in {"500", "502"}
  BY DEF Unavailable
<1>5. CASE ClientCalls(q)
  <2>1. PICK to \in Followed : Receive(q, to)
    BY <1>5 DEF ClientCalls
  <2>2. to \in Endpoints
    BY DEF Followed, Endpoints
  <2>3. /\ call.at = "unused"
        /\ calls' = [calls EXCEPT ![q] = [call EXCEPT !.to = to, !.at = "sent"]]
    BY <2>1, <1>1, <1>3 DEF Receive
  <2>4. calls' \in [Calls -> Call]
    BY <2>2, <2>3, <1>1, <1>3 DEF Call
  <2>5. QED BY <1>1, <1>2, <1>3, <2>3, <2>4 DEF Placed, For, CallsTyped, ProxiesTypeOK, Call
<1>6. CASE TellClient(q)
  <2>1. /\ call.at = "answered" /\ call.told = "none"
        /\ calls' = [calls EXCEPT ![q] = [call EXCEPT !.told = PassedOn(call.to, call.code)]]
    BY <1>1, <1>3, <1>6 DEF TellClient, Tell
  <2>2. PassedOn(call.to, call.code) = "200" => call.code = "200"
    BY <1>4 DEF PassedOn
  <2>3. PassedOn(call.to, call.code) \in Statuses \cup {"none"}
    BY <1>3, <1>4 DEF PassedOn, Statuses, Codes, Call
  <2>4. calls' \in [Calls -> Call]
    BY <2>1, <2>3, <1>1, <1>3 DEF Call
  <2>5. QED BY <1>1, <1>2, <1>3, <2>1, <2>2, <2>4 DEF Placed, For, CallsTyped, ProxiesTypeOK, Call
<1>7. CASE GatewayFails(q)
  <2>1. PICK at \in {call.at, "lost"} :
            /\ call.at \in {"sent", "working", "answered"} /\ at = "lost" => call.at = "sent"
            /\ call.told = "none"
            /\ calls' = [calls EXCEPT ![q] = [call EXCEPT !.at = at, !.told = Unavailable(call.to)]]
    <3>1. CASE Unreachable(q)
      BY <1>1, <1>3, <3>1 DEF Unreachable
    <3>2. CASE GiveUp(q)
      BY <1>1, <1>3, <3>2 DEF GiveUp, Call
    <3>3. QED BY <1>7, <3>1, <3>2 DEF GatewayFails
  <2>2. calls' \in [Calls -> Call]
    BY <2>1, <1>1, <1>3, <1>4 DEF Call, Statuses, Codes
  <2>3. QED BY <1>1, <1>2, <1>3, <1>4, <2>1, <2>2 DEF Placed, For, CallsTyped, ProxiesTypeOK, Call
<1>8. CASE RefuseRetry(q) \/ RefuseWorkflow(q)
  <2>1. AnswerAtOnce(q, "4xx")
    BY <1>8 DEF RefuseRetry, RefuseWorkflow
  <2>2. /\ call.at = "sent"
        /\ calls' = [calls EXCEPT ![q] = [call EXCEPT !.at = "answered", !.code = "4xx"]]
    BY <2>1, <1>1, <1>3 DEF AnswerAtOnce
  <2>3. calls' \in [Calls -> Call]
    BY <2>2, <1>1, <1>3 DEF Call, Codes
  <2>4. QED BY <1>1, <1>2, <1>3, <2>2, <2>3 DEF Placed, For, CallsTyped, ProxiesTypeOK, Call
<1>9. QED BY <1>5, <1>6, <1>7, <1>8

\* The runtime, when it takes a call or has done with it.
LEMMA RunningPlaced ==
    ASSUME Known, CallsTyped, NEW c \in Calls, Placed(c), NEW q \in Calls,
           ServeTask(q) \/ ServeRetry(q) \/ ServedByRuntime(q)
    PROVE  CallsTyped' /\ Placed(c)'
<1>1. calls \in [Calls -> Call]
  BY DEF CallsTyped, ProxiesTypeOK
<1>2. /\ c \in Runs /\ q \in Runs
      /\ requests \in [Runs -> Request]
  BY PlatformAssumption DEF Known, StoreInv, IInv, TypeInv
<1>3. UNCHANGED <<walks, replies>>
  BY DEF ServeTask, ServeRetry, ServedByRuntime, EngineIdle, workflowVars
<1>4. PICK call : call = calls[q] /\ call \in Call
  BY <1>1
<1>5. CASE ServedByRuntime(q)
  <2>1. PICK code \in {"200", "500"} :
            /\ call.at = "working"
            /\ calls' = [calls EXCEPT ![q] = [call EXCEPT !.at = "answered", !.code = code]]
            /\ requests[q].at \in {"answered", "error"}
            /\ code = "200" => requests[q].at = "answered"
    BY <1>1, <1>4, <1>5 DEF ServedByRuntime, Finish
  <2>2. UNCHANGED requests
    BY <1>5 DEF ServedByRuntime, StoreIdle, storeVars
  <2>3. calls' \in [Calls -> Call]
    BY <2>1, <1>1, <1>4 DEF Call, Codes
  <2>4. QED BY <1>1, <1>3, <1>4, <2>1, <2>2, <2>3 DEF Placed, For, CallsTyped, ProxiesTypeOK, Call
<1>6. CASE ServeTask(q) \/ ServeRetry(q)
  <2>1. /\ call.at = "sent"
        /\ calls' = [calls EXCEPT ![q] = [call EXCEPT !.at = "working"]]
    BY <1>1, <1>4, <1>6 DEF ServeTask, ServeRetry, Arrive
  <2>2. PICK kind, of :
            /\ requests' = [requests EXCEPT ![q] = At(kind, of, "running")]
            /\ \/ For(q, "retry_task") /\ kind = "resume"
               \/ /\ For(q, "execute_task") \/ For(q, "transcript_webhook")
                  /\ kind = "execute"
    BY <1>6 DEF ServeTask, ServeRetry, Execute, Resume, RunFor
  <2>3. /\ requests'[q].at = "running" /\ requests'[q].kind = kind
        /\ c # q => requests'[c] = requests[c]
    BY <1>2, <2>2 DEF At
  <2>4. calls' \in [Calls -> Call]
    BY <2>1, <1>1, <1>4 DEF Call
  <2>5. calls'[q].at = "working" /\ calls'[q].told = call.told /\ calls'[q].to = call.to
    BY <2>1, <1>1, <1>4 DEF Call
  <2>6. CASE c = q
    BY <1>3, <1>4, <2>1, <2>2, <2>3, <2>4, <2>5, <2>6 DEF Placed, For, CallsTyped, ProxiesTypeOK
  <2>7. CASE c # q
    BY <1>1, <1>3, <2>1, <2>3, <2>4, <2>7 DEF Placed, For, CallsTyped, ProxiesTypeOK
  <2>8. QED BY <2>6, <2>7
<1>7. QED BY <1>5, <1>6

\* The engine takes a call.
LEMMA ServeWorkflowPlaced ==
    ASSUME Known, CallsTyped, NEW c \in Calls, Placed(c), NEW q \in Calls, ServeWorkflow(q)
    PROVE  CallsTyped' /\ Placed(c)'
<1>1. calls \in [Calls -> Call] /\ replies \in [Calls -> Reply]
  BY DEF CallsTyped, ProxiesTypeOK
<1>2. walks \in [Callers -> Walker!Walk] /\ c \in Callers /\ q \in Callers
  BY DEF Known, EngineInv, Walker!IInv, Walker!TypeOK, Callers
<1>3. UNCHANGED requests /\ For(q, "execute_workflow")
  BY DEF ServeWorkflow, StoreIdle, storeVars
<1>4. PICK call, reply : call = calls[q] /\ call \in Call /\ reply = replies[q] /\ reply \in Reply
  BY <1>1
<1>5. PICK e \in Walker!ExecutionIds :
          /\ walks' = [walks EXCEPT ![q] = Walker!NewWalk("walking", e)]
          /\ replies' = [replies EXCEPT ![q] = [reply EXCEPT !.execution = e]]
          /\ calls' = [calls EXCEPT ![q] = [call EXCEPT !.at = "working"]]
          /\ call.at = "sent"
  BY <1>1, <1>4, EngineExecutes DEF ServeWorkflow, Arrive, Walker!Execute, Engine!ExecutionIds,
     Walker!ExecutionIds
<1>6. /\ calls' \in [Calls -> Call] /\ replies' \in [Calls -> Reply]
      /\ calls'[q].at = "working" /\ calls'[q].told = call.told /\ calls'[q].to = call.to
      /\ replies'[q].execution = e /\ replies'[q].status = reply.status
      /\ walks'[q].execution = e
      /\ c # q => calls'[c] = calls[c] /\ replies'[c] = replies[c] /\ walks'[c] = walks[c]
  BY <1>1, <1>2, <1>4, <1>5 DEF Call, Reply, Walker!NewWalk
<1>7. CASE c = q
  BY <1>3, <1>4, <1>5, <1>6, <1>7 DEF Placed, For, CallsTyped, ProxiesTypeOK
<1>8. CASE c # q
  BY <1>3, <1>6, <1>8 DEF Placed, For, CallsTyped, ProxiesTypeOK
<1>9. QED BY <1>7, <1>8

\* A request that walks stays with its execution until it is idle again, which
\* it is with the verdict "completed" only when every step has its result.
LEMMA WalkMoves ==
    ASSUME EngineInv, NEW r \in Callers,
           \/ Walker!LoopStep(r)
           \/ \E i, o : Walker!Answer(r, i, o)
    PROVE  /\ walks[r].pc # "idle"
           /\ walks' = [walks EXCEPT ![r] = walks'[r]]
           /\ walks'[r].pc # "idle" => walks'[r].execution = walks[r].execution
           /\ walks'[r].pc = "idle" => Walker!LoopStep(r) /\ executions' = executions
<1>1. walks \in [Callers -> Walker!Walk] /\ walks[r] \in Walker!Walk
  BY DEF EngineInv, Walker!IInv, Walker!TypeOK, Callers
<1>2. ASSUME NEW i, NEW o, Walker!Answer(r, i, o)
      PROVE  /\ walks[r].pc # "idle" /\ walks'[r].pc # "idle"
             /\ walks' = [walks EXCEPT ![r] = walks'[r]]
             /\ walks'[r].execution = walks[r].execution
  BY <1>1, <1>2 DEF Walker!Answer, Walker!Recorded
<1>3. ASSUME NEW i, NEW a, Walker!Post(r, i) \/ Walker!Gate(r, a, i)
      PROVE  /\ walks[r].pc # "idle" /\ walks'[r].pc # "idle"
             /\ walks' = [walks EXCEPT ![r] = walks'[r]]
             /\ walks'[r].execution = walks[r].execution
  BY <1>1, <1>3 DEF Walker!Post, Walker!Gate, Walker!On, Walker!Walk
<1>4. CASE Walker!NextBatch(r) \/ Walker!Verdict(r) \/ Walker!AdvanceResume(r)
  BY <1>1, <1>4 DEF Walker!NextBatch, Walker!Verdict, Walker!AdvanceResume, Walker!On, Walker!Walk
<1>5. CASE Walker!FinishWalk(r) \/ Walker!PauseWorkflow(r)
  BY <1>1, <1>5
     DEF Walker!FinishWalk, Walker!PauseWorkflow, Walker!On, Walker!NoWalk, Walker!NewWalk,
     Walker!LoopStep
<1>6. QED BY <1>2, <1>3, <1>4, <1>5 DEF Walker!LoopStep

\* The engine, when it walks for a call or hears from the runtime.
LEMMA WalkingPlaced ==
    ASSUME Known, CallsTyped, NEW c \in Calls, Placed(c), NEW r \in Callers,
           EngineStep(r) \/ EngineAnswered(r) \/ EngineGivesUp(r)
    PROVE  CallsTyped' /\ Placed(c)'
<1>1. calls \in [Calls -> Call] /\ replies \in [Calls -> Reply]
  BY DEF CallsTyped, ProxiesTypeOK
<1>2. walks \in [Callers -> Walker!Walk] /\ c \in Callers
  BY DEF Known, EngineInv, Walker!IInv, Walker!TypeOK, Callers
<1>3. UNCHANGED requests
  BY DEF EngineStep, EngineAnswered, EngineGivesUp, StoreIdle, storeVars
<1>4. Walker!LoopStep(r) \/ \E i, o : Walker!Answer(r, i, o)
  BY EngineWalks, EngineIsAnswered DEF EngineStep, EngineAnswered, EngineGivesUp
<1>5. /\ walks[r].pc # "idle"
      /\ walks' = [walks EXCEPT ![r] = walks'[r]]
      /\ walks'[r].pc # "idle" => walks'[r].execution = walks[r].execution
      /\ walks'[r].pc = "idle" => Walker!LoopStep(r) /\ executions' = executions
  BY <1>4, WalkMoves DEF Known
<1>6. \A q \in Callers \ {r} : walks'[q] = walks[q]
  BY <1>2, <1>5
<1>7. CASE UNCHANGED <<calls, replies>> /\ ~(r \in Calls /\ walks'[r].pc = "idle")
  BY <1>2, <1>3, <1>5, <1>6, <1>7 DEF Placed, For, CallsTyped, ProxiesTypeOK
<1>8. ASSUME r \in Calls, walks'[r].pc = "idle", EngineStep(r)
      PROVE  CallsTyped' /\ Placed(c)'
  <2>1. PICK call, reply : call = calls[r] /\ call \in Call /\ reply = replies[r] /\ reply \in Reply
    BY <1>1, <1>8
  <2>2. PICK status :
            /\ status = executions[walks[r].execution].status
            /\ calls' = [calls EXCEPT ![r] = [call EXCEPT !.at = "answered", !.code = "200"]]
            /\ replies' = [replies EXCEPT ![r] = [reply EXCEPT !.status = status]]
    BY <1>1, <1>5, <1>8, <2>1 DEF EngineStep, Finish
  <2>3. status \in Walker!ExecutionState
    BY <1>5, <2>2, EngineAssumptions, Walker!WalkTypes
       DEF Known, EngineInv, Walker!Execution, Callers
  <2>4. /\ calls' \in [Calls -> Call] /\ replies' \in [Calls -> Reply]
        /\ calls'[r].at = "answered" /\ calls'[r].code = "200"
        /\ calls'[r].told = call.told /\ calls'[r].to = call.to
        /\ c # r => calls'[c] = calls[c] /\ replies'[c] = replies[c] /\ walks'[c] = walks[c]
    BY <1>1, <1>2, <1>6, <1>8, <2>1, <2>2, <2>3 DEF Call, Reply, Codes
  <2>5. CASE c = r
    BY <1>3, <1>5, <1>8, <2>1, <2>4, <2>5 DEF Placed, For, CallsTyped, ProxiesTypeOK
  <2>6. CASE c # r
    BY <1>3, <2>4, <2>6 DEF Placed, For, CallsTyped, ProxiesTypeOK
  <2>7. QED BY <2>5, <2>6
<1>9. ASSUME NEW i, NEW o, Engine!Answer(r, i, o)
      PROVE  walks'[r].pc # "idle"
  BY <1>2, <1>5, <1>9 DEF Engine!Answer, Engine!Recorded
<1>10. QED BY <1>7, <1>8, <1>9 DEF EngineStep, EngineAnswered, EngineGivesUp, CallsIdle

\* What is not about a call: insiders, the creation of workflows, and the
\* steps of the runs, of calls too.
LEMMA OthersPlaced ==
    ASSUME Known, CallsTyped, NEW c \in Calls, Placed(c),
           \/ \E x \in Insiders : InsiderStep(x)
           \/ \E r \in Runs : RuntimeStep(r)
           \/ \E e \in Engine!ExecutionIds, s \in StepIds : Deliver(e, s)
           \/ NewWorkflow
           \/ UNCHANGED platformVars
    PROVE  CallsTyped' /\ Placed(c)'
<1>1. UNCHANGED <<calls, replies>>
  BY DEF InsiderStep, RuntimeStep, Deliver, NewWorkflow, platformVars, CallsIdle, EngineIdle
<1>2. CallsTyped'
  BY <1>1 DEF CallsTyped, ProxiesTypeOK
<1>3. /\ c \in Runs /\ c \notin Insiders
      /\ requests \in [Runs -> Request]
      /\ walks \in [Callers -> Walker!Walk] /\ c \in Callers
  BY PlatformAssumption DEF Known, StoreInv, IInv, TypeInv, EngineInv, Walker!IInv, Walker!TypeOK,
     Callers
<1>4. ASSUME NEW r \in Runs \ {c}, NEW kind, NEW of, NEW input, RunFor(r, kind, of, input)
      PROVE  requests'[c] = requests[c]
  BY <1>3, <1>4 DEF RunFor
<1>5. ASSUME NEW x \in Insiders, InsiderStep(x)
      PROVE  requests'[c] = requests[c] /\ walks'[c] = walks[c]
  <2>1. x \in Runs \ {c} /\ x \in Callers
    BY <1>3, PlatformAssumption DEF Callers
  <2>2. ASSUME NEW input, Simulate(x, input) PROVE requests'[c] = requests[c]
    BY <1>4, <2>1, <2>2 DEF Simulate
  <2>3. ASSUME NEW id, Resume(x, id) PROVE requests'[c] = requests[c]
    BY <1>4, <2>1, <2>3 DEF Resume
  <2>4. ASSUME NEW w, NEW e, Engine!AdvanceBegin(x, w, e) PROVE walks'[c] = walks[c]
    BY <1>3, <2>1, <2>4 DEF Engine!AdvanceBegin
  <2>5. QED BY <1>5, <2>2, <2>3, <2>4
        DEF InsiderStep, EngineIdle, workflowVars, StoreIdle, storeVars
<1>6. ASSUME NEW e \in Engine!ExecutionIds, NEW s \in StepIds, Deliver(e, s)
      PROVE  requests'[c] = requests[c] /\ walks'[c] = walks[c]
  <2>1. <<e, s>> \in Runs \ {c}
    BY PlatformAssumption
  <2>2. QED BY <1>4, <1>6, <2>1 DEF Deliver, Execute, EngineIdle, workflowVars
<1>7. ASSUME NEW r \in Runs, RuntimeStep(r)
      PROVE  /\ walks'[c] = walks[c]
             /\ requests'[c].kind = requests[c].kind
             /\ requests'[c].at = "new" <=> requests[c].at = "new"
             /\ requests[c].at = "answered" => requests'[c].at = "answered"
  BY <1>3, <1>7, HandlerMoves DEF RuntimeStep, EngineIdle, workflowVars, Known, StoreInv, IInv
<1>8. CASE NewWorkflow \/ UNCHANGED platformVars
  BY <1>1, <1>2, <1>8, PlacedElsewhere DEF NewWorkflow, platformVars, StoreIdle, storeVars,
     workflowVars, Engine!CreateWorkflow
<1>9. QED BY <1>1, <1>2, <1>5, <1>6, <1>7, <1>8, PlacedElsewhere

LEMMA PlacedStays ==
    ASSUME Known, CallsTyped, NEW c \in Calls, Placed(c), [PlatformNext]_platformVars
    PROVE  CallsTyped' /\ Placed(c)'
BY PassingPlaced, RunningPlaced, ServeWorkflowPlaced, WalkingPlaced, OthersPlaced
   DEF PlatformNext, WorkStep, FailureStep, ServiceStep, Callers

\* An answer to a client changes when the engine takes the call, and when its
\* walk is over.
LEMMA RepliesMove ==
    ASSUME CallsTyped, NEW c \in Calls, [PlatformNext]_platformVars, replies'[c] # replies[c]
    PROVE  \/ ServeWorkflow(c)
           \/ /\ EngineStep(c)
              /\ walks'[c].pc = "idle"
              /\ replies' = [replies EXCEPT ![c].status = executions'[walks[c].execution].status]
<1>1. replies \in [Calls -> Reply]
  BY DEF CallsTyped
<1>2. ASSUME NEW q \in Calls, ServeWorkflow(q) PROVE q = c
  BY <1>1, <1>2 DEF ServeWorkflow
<1>3. ASSUME NEW r \in Callers, EngineStep(r)
      PROVE  /\ r = c
             /\ walks'[c].pc = "idle"
             /\ replies' = [replies EXCEPT ![c].status = executions'[walks[c].execution].status]
  BY <1>1, <1>3 DEF EngineStep
<1>4. CASE WorkStep
  BY <1>2, <1>3, <1>4 DEF WorkStep, ServiceStep, ServeTask, ServeRetry, RefuseRetry,
     ServedByRuntime, RefuseWorkflow, TellClient, RuntimeStep, Deliver, EngineAnswered, EngineIdle,
     Callers
<1>5. QED BY <1>4 DEF PlatformNext, NewWorkflow, ClientCalls, InsiderStep, FailureStep,
     GatewayFails, EngineGivesUp, EngineIdle, platformVars

LEMMA CompletedIsKnownStays ==
    ASSUME Known, CallsTyped, NEW c \in Calls, Placed(c), CompletedIsKnown(c),
           [PlatformNext]_platformVars
    PROVE  CompletedIsKnown(c)'
<1>1. ASSUME NEW e \in Walker!Existing,
             \A i \in DOMAIN Walker!Steps(e) :
                executions[e].step_results[Walker!Steps(e)[i].step_id] \notin {"none", "failed"},
             replies'[c].execution = e
      PROVE  CompletedIsKnown(c)'
  <2>1. /\ e \in Walker!Existing'
        /\ Walker!Steps(e)' = Walker!Steps(e)
        /\ \A s \in StepIds : executions[e].step_results[s] # "none" =>
              executions'[e].step_results[s] = executions[e].step_results[s]
    BY OldExecutionStays DEF Known
  <2>2. \A i \in DOMAIN Walker!Steps(e) : Walker!Steps(e)[i].step_id \in StepIds
    BY StepsOf DEF Known
  <2>3. \A i \in DOMAIN Walker!Steps(e)' :
            executions'[e].step_results[Walker!Steps(e)'[i].step_id] \notin {"none", "failed"}
    BY <1>1, <2>1, <2>2
  <2>4. QED BY <1>1, <2>1, <2>3 DEF CompletedIsKnown
<1>2. CASE replies'[c] = replies[c]
  <2>1. CASE replies[c].status # "completed"
    BY <1>2, <2>1 DEF CompletedIsKnown
  <2>2. CASE replies[c].status = "completed"
    BY <1>1, <1>2, <2>2 DEF CompletedIsKnown
  <2>3. QED BY <2>1, <2>2
<1>3. CASE ServeWorkflow(c)
  <2>1. replies[c].status = "none"
    BY <1>3 DEF ServeWorkflow, Arrive, Placed
  <2>2. replies'[c].status = "none"
    BY <1>3, <2>1 DEF ServeWorkflow, CallsTyped, Reply
  <2>3. QED BY <2>2 DEF CompletedIsKnown
<1>4. CASE /\ EngineStep(c)
           /\ walks'[c].pc = "idle"
           /\ replies' = [replies EXCEPT ![c].status = executions'[walks[c].execution].status]
  <2>1. PICK e : e = walks[c].execution
    OBVIOUS
  <2>2. walks[c].pc # "idle" /\ executions' = executions
    BY <1>4, EngineWalks, WalkMoves DEF EngineStep, Known, Callers
  <2>3. e \in Walker!Existing /\ Walker!Accounted(walks[c], executions[e], Walker!Steps(e))
    BY <2>1, <2>2, EngineAssumptions, Walker!Walking
       DEF Known, EngineInv, Callers, Walker!Consistent
  <2>4. /\ replies'[c].execution = e
        /\ replies'[c].status = executions[e].status
    BY <1>4, <2>1, <2>2 DEF Placed, CallsTyped, Reply
  <2>5. CASE executions[e].status = "completed"
    BY <1>1, <2>3, <2>4, <2>5 DEF Walker!Accounted, Walker!Names, Walker!CompletedIn
  <2>6. CASE executions[e].status # "completed"
    BY <2>4, <2>6 DEF CompletedIsKnown
  <2>7. QED BY <2>5, <2>6
<1>5. QED BY <1>2, <1>3, <1>4, RepliesMove

-----------------------------------------------------------------------------
(* The inductive invariant of the platform.                                *)

PlatformInv == Known /\ CallsInv

LEMMA PlatformInvInitially == PlatformInit => PlatformInv
<1> SUFFICES ASSUME PlatformInit PROVE PlatformInv
  OBVIOUS
<1>1. EngineInv
  BY EngineInvInitially
<1>2. IInv
  BY InitEstablishes DEF PlatformInit
<1>3. /\ \A r \in Runs : tasks[r].status = "absent" /\ requests[r].at = "new"
      /\ \A c \in Calls :
            calls[c] = [to |-> NoEndpoint, at |-> "unused", code |-> "none", told |-> "none"]
      /\ calls \in [Calls -> Call]
      /\ replies = [c \in Calls |-> [execution |-> 0, status |-> "none"]]
  BY DEF PlatformInit, Init, Absent, At, ProxiesInit, Call
<1>4. /\ Walker!Existing = {}
      /\ \A c \in Callers : walks[c].pc = "idle"
  BY EngineInitially DEF Walker!Init, Walker!Existing, Walker!NoExecution, Walker!NoWalk,
     Walker!NewWalk, Callers
<1>5. StoreInv /\ DeliveredWasSent /\ EngineKnows
  BY <1>2, <1>3, <1>4, PlatformAssumption
     DEF StoreInv, StoredAsEnded, DeliveredWasSent, EngineKnows,
     Engine!ExecutionIds, Walker!ExecutionIds
<1>6. CallsInv
  BY <1>3, <1>4, PlatformAssumption DEF CallsInv, CallsTyped, ProxiesTypeOK, Reply, Placed,
     CompletedIsKnown, Callers
<1>7. QED BY <1>1, <1>5, <1>6 DEF PlatformInv, Known

LEMMA PlatformInvStays == PlatformInv /\ [PlatformNext]_platformVars => PlatformInv'
<1> SUFFICES ASSUME PlatformInv, [PlatformNext]_platformVars PROVE PlatformInv'
  OBVIOUS
<1>1. Known'
  BY EngineMoves, StoreInvStays, DeliveredWasSentStays, EngineKnowsStays DEF PlatformInv, Known
<1>2. ASSUME NEW c \in Calls PROVE Placed(c)' /\ CompletedIsKnown(c)'
  BY <1>2, PlacedStays, CompletedIsKnownStays DEF PlatformInv, CallsInv
<1>3. CallsTyped'
  <2>1. CASE Calls = {}
    <3>1. UNCHANGED <<calls, replies>>
      BY <2>1
         DEF PlatformNext, NewWorkflow, InsiderStep, WorkStep, FailureStep, RuntimeStep, Deliver,
         EngineStep, EngineAnswered, EngineGivesUp, CallsIdle, EngineIdle, platformVars
    <3>2. QED BY <3>1 DEF PlatformInv, CallsInv, CallsTyped, ProxiesTypeOK
  <2>2. CASE Calls # {}
    BY <2>2, PlacedStays DEF PlatformInv, CallsInv
  <2>3. QED BY <2>1, <2>2
<1>4. QED BY <1>1, <1>2, <1>3 DEF PlatformInv, CallsInv

LEMMA PlatformInvariant == PlatformSafety => []PlatformInv
BY PlatformInvInitially, PlatformInvStays, PTL DEF PlatformSafety

-----------------------------------------------------------------------------
(* The results.                                                            *)

\* Whatever goes on in the other services, the runtime sees only what clients of
\* its own do: all that is proved of TaskStore holds in the platform.
THEOREM PlatformImplementsStore == PlatformSafety => SafetySpec
<1>1. PlatformInit => Init
  BY DEF PlatformInit
<1>2. PlatformInv /\ [PlatformNext]_platformVars => [Next]_storeVars
  BY StoreInvStays DEF PlatformInv, Known
<1>3. QED BY <1>1, <1>2, PlatformInvariant, PTL DEF PlatformSafety, SafetySpec

\* So does the engine: what the runtime answers, late or never, is no more than
\* WorkflowEngine lets it answer, and all that is proved of it holds here.
THEOREM PlatformImplementsEngine == PlatformSafety => Walker!SafetySpec
<1>1. PlatformInit => Walker!Init
  BY EngineInitially
<1>2. PlatformInv /\ [PlatformNext]_platformVars => [Walker!Next]_(Walker!vars)
  BY EngineMoves DEF PlatformInv, Known
<1>3. QED BY <1>1, <1>2, PlatformInvariant, PTL DEF PlatformSafety, Walker!SafetySpec

\* The runtime works on a step, also on one whose POST arrives late, only when
\* what it depends on was worked on there without failing (an escalated task
\* counts) or is approved, and never on a gated one.
THEOREM RuntimeFollowsTheDag == PlatformSafety => []TasksFollowTheDag
<1>1. ASSUME PlatformInv PROVE TasksFollowTheDag
  <2> SUFFICES ASSUME NEW e \in Engine!Existing, NEW s \in StepIds, requests[<<e, s>>].at # "new",
                      NEW step \in Engine!StepOf(e, s)
               PROVE  /\ ~step.requires_approval
                      /\ \A d \in step.depends_on : \A before \in Engine!StepOf(e, d) :
                            StepHandled(e, before)
    BY DEF TasksFollowTheDag
  <2>1. e \in Walker!Existing /\ Engine!Steps(e) = Walker!Steps(e)
    BY DEF Engine!Existing, Walker!Existing, Engine!ExecutionIds, Walker!ExecutionIds, Engine!Steps,
       Walker!Steps
  <2>2. PICK i \in DOMAIN Walker!Steps(e) : step = Walker!Steps(e)[i] /\ step.step_id = s
    BY <2>1 DEF Engine!StepOf
  <2>3. posted[e][s] > 0
    BY <1>1, <2>1, StepsOf DEF PlatformInv, Known, DeliveredWasSent
  <2>4. PICK walk :
            Walker!Consistent(walk, executions[e], Walker!Steps(e), posted[e], Walker!AskedFor)
    BY <1>1, <2>1, EngineAssumptions, Walker!SomeWalkConsistent DEF PlatformInv, Known, EngineInv
  <2>5. Walker!SentRightly(walk, executions[e], Walker!Steps(e), posted[e])
    BY <1>1, <2>1, <2>4, StepsOf DEF PlatformInv, Known, Walker!WellFormed, Walker!Consistent
  <2>6. /\ ~step.requires_approval
        /\ step.depends_on \subseteq Walker!CompletedIn(executions[e].step_results)
    BY <2>2, <2>3, <2>5 DEF Walker!SentRightly
  <2>7. ASSUME NEW d \in step.depends_on, NEW j \in DOMAIN Walker!Steps(e),
               Walker!Steps(e)[j].step_id = d
        PROVE  StepHandled(e, Walker!Steps(e)[j])
    BY <1>1, <2>1, <2>6, <2>7 DEF PlatformInv, Known, EngineKnows, Walker!CompletedIn
  <2>8. QED BY <2>1, <2>6, <2>7 DEF Engine!StepOf
<1>2. QED BY <1>1, PlatformInvariant, PTL

\* What a client is told to be completed was worked on in the services behind it and
\* did not fail (an escalated task counts), although each of them may have given up
\* the next one on the way.
THEOREM WhatIsToldIsHandled == PlatformSafety => []ToldMeansHandled
<1>1. ASSUME PlatformInv PROVE ToldMeansHandled
  <2> SUFFICES ASSUME NEW c \in Calls, calls[c].told = "200"
               PROVE  /\ For(c, "execute_task") \/ For(c, "transcript_webhook") =>
                            tasks[c].status # "absent"
                      /\ For(c, "execute_workflow") /\ replies[c].status = "completed" =>
                          \A i \in DOMAIN Engine!Steps(replies[c].execution) :
                             StepHandled(replies[c].execution, Engine!Steps(replies[c].execution)[i])
    BY DEF ToldMeansHandled
  <2>1. Placed(c) /\ CompletedIsKnown(c) /\ c \in Runs
    BY <1>1, PlatformAssumption DEF PlatformInv, CallsInv
  <2>2. ASSUME For(c, "execute_task") \/ For(c, "transcript_webhook")
        PROVE  tasks[c].status # "absent"
    <3>1. requests[c].at = "answered" /\ requests[c].kind = "execute"
      BY <2>1, <2>2 DEF Placed, For
    <3>2. QED BY <1>1, <2>1, <3>1 DEF PlatformInv, Known, StoreInv, IInv, OneRecordPerExecution
  <2>3. ASSUME replies[c].status = "completed",
               NEW i \in DOMAIN Engine!Steps(replies[c].execution)
        PROVE  StepHandled(replies[c].execution, Engine!Steps(replies[c].execution)[i])
    BY <1>1, <2>1, <2>3 DEF PlatformInv, Known, CompletedIsKnown, EngineKnows, Engine!Steps,
       Walker!Steps
  <2>4. QED BY <2>2, <2>3
<1>2. QED BY <1>1, PlatformInvariant, PTL

=============================================================================
