------------------------- MODULE DagRefinementProofs -------------------------
(***************************************************************************)
(* What the walkers of several executions do together, for every value of  *)
(* the constants: how many approvals the gates ask for, what the status of *)
(* a workflow says of its executions, and that the engine implements       *)
(* DagExecution.                                                           *)
(***************************************************************************)
EXTENDS DagRefinement, WorkflowSafetyProofs

\* The steps of an existing workflow are those that a client posted.
PostedSteps ==
    \A w \in WorkflowIds :
        IF workflows[w].status = "absent" THEN workflows[w].steps = <<>>
                                          ELSE workflows[w].steps \in Definitions

\* What each step does to an execution that exists, and to its workflow.
LEMMA ExistingStays ==
    ASSUME IInv, [Next]_vars, NEW e \in Existing
    PROVE  /\ executions'[e].status # "absent"
           /\ executions'[e].workflow_id = executions[e].workflow_id
           /\ workflows'[executions[e].workflow_id].steps = Steps(e)
<1> DEFINE Stays == /\ executions'[e].status # "absent"
                    /\ executions'[e].workflow_id = executions[e].workflow_id
           Fixed == workflows'[executions[e].workflow_id].steps = Steps(e)
<1> USE DEF IInv, TypeOK
<1>1. /\ e \in ExecutionIds /\ executions[e] \in Execution /\ executions[e].status # "absent"
      /\ executions[e].workflow_id \in WorkflowIds
      /\ workflows[executions[e].workflow_id] \in Workflow
      /\ workflows[executions[e].workflow_id].status # "absent"
  BY DEF Existing, HasWorkflow
<1>2. CASE ClientStep
  <2>1. ASSUME NEW w \in WorkflowIds, NEW d \in Definitions, CreateWorkflow(w, d)
        PROVE  Stays /\ Fixed
    BY <1>1, <2>1 DEF CreateWorkflow, FreshWorkflow, Steps
  <2>2. ASSUME NEW r \in Requests, NEW w \in WorkflowIds, NEW f \in ExecutionIds,
               Execute(r, w, f) \/ AdvanceBegin(r, w, f)
        PROVE  Stays /\ Fixed
    BY <1>1, <2>2 DEF Execute, AdvanceBegin, FreshExecution, Steps
  <2>3. ASSUME NEW t \in Cancellers, NEW w \in WorkflowIds, CancelBegin(t, w)
        PROVE  Stays /\ Fixed
    BY <1>1, <2>3 DEF CancelBegin, SetWorkflow, Workflow, Steps
  <2>4. QED BY <1>2, <2>1, <2>2, <2>3 DEF ClientStep
<1>3. ASSUME NEW r \in Requests, LoopStep(r) PROVE Stays /\ Fixed
  <2>1. CASE NextBatch(r) \/ AdvanceResume(r)
    BY <1>1, <2>1 DEF NextBatch, AdvanceResume, ResumedWith, Steps
  <2>2. CASE FinishWalk(r) \/ PauseWorkflow(r)
    <3>1. \A w \in WorkflowIds : workflows'[w].steps = workflows[w].steps
      BY <2>2 DEF FinishWalk, PauseWorkflow, SetWorkflow, Workflow
    <3>2. executions' = executions
      BY <2>2 DEF FinishWalk, PauseWorkflow
    <3>3. QED BY <1>1, <3>1, <3>2 DEF Steps
  <2>3. CASE Verdict(r)
    BY <1>1, <2>3 DEF Verdict, FinalStatus, Execution, Steps
  <2>4. ASSUME NEW i \in walks[r].ready, Post(r, i) PROVE Stays /\ Fixed
    BY <1>1, <2>4 DEF Post, Execution, Steps
  <2>5. ASSUME NEW i \in walks[r].ready, NEW a \in ApprovalIds, Gate(r, a, i)
        PROVE  Stays /\ Fixed
    BY <1>1, <2>5 DEF Gate, PausedAt, Steps
  <2>6. QED BY <1>3, <2>1, <2>2, <2>3, <2>4, <2>5 DEF LoopStep
<1>4. ASSUME NEW r \in Requests, Answered(r) PROVE Stays /\ Fixed
  <2>1. ASSUME NEW i \in walks[r].ready, NEW o \in Outcome, Answer(r, i, o)
        PROVE  Stays /\ Fixed
    BY <1>1, <2>1 DEF Answer, Execution, Steps
  <2>2. ASSUME NEW i \in walks[r].ready, AnswerMisread(r, i) PROVE Stays /\ Fixed
    BY <1>1, <2>2 DEF AnswerMisread, Execution, Steps
  <2>3. CASE AnswerRaises(r)
    BY <1>1, <2>3 DEF AnswerRaises, Steps
  <2>4. QED BY <1>4, <2>1, <2>2, <2>3 DEF Answered
<1>5. ASSUME NEW t \in Cancellers, CancelStep(t) PROVE Stays /\ Fixed
  BY <1>1, <1>5 DEF CancelStep, CancelInterrupted, CancelTest, CancelSkip, CancelWrite,
     CancelDone, Execution, Steps
<1>6. CASE UNCHANGED engineVars
  BY <1>1, <1>6 DEF engineVars, Steps
<1>7. QED BY <1>2, <1>3, <1>4, <1>5, <1>6 DEF Next, vars

LEMMA PostedStepsStay == IInv /\ PostedSteps /\ [Next]_vars => PostedSteps'
<1> SUFFICES ASSUME IInv, PostedSteps, [Next]_vars, NEW w \in WorkflowIds
             PROVE  IF workflows'[w].status = "absent" THEN workflows'[w].steps = <<>>
                                                       ELSE workflows'[w].steps \in Definitions
  BY DEF PostedSteps
<1> DEFINE Kept == IF workflows'[w].status = "absent" THEN workflows'[w].steps = <<>>
                                                     ELSE workflows'[w].steps \in Definitions
<1> USE DEF PostedSteps, IInv, TypeOK
<1>1. workflows[w] \in Workflow
  OBVIOUS
<1>2. CASE UNCHANGED workflows
  BY <1>2
<1>3. ASSUME NEW v \in WorkflowIds, NEW d \in Definitions, CreateWorkflow(v, d)
      PROVE  Kept
  BY <1>3 DEF CreateWorkflow
<1>4. ASSUME NEW t \in Cancellers, NEW v \in WorkflowIds, CancelBegin(t, v)
      PROVE  Kept
  BY <1>1, <1>4 DEF CancelBegin, SetWorkflow, Workflow
<1>5. ASSUME NEW r \in Requests, PauseWorkflow(r) \/ FinishWalk(r)
      PROVE  Kept
  <2>1. PICK v, status : /\ v \in WorkflowIds /\ workflows[v].status # "absent"
                         /\ status # "absent"
                         /\ workflows' = [workflows EXCEPT ![v].status = status]
    BY <1>5, WalkTypes DEF PauseWorkflow, FinishWalk, On, SetWorkflow, Existing
  <2>2. QED BY <1>1, <2>1 DEF Workflow
<1>6. ASSUME NEW r \in Requests, LoopStep(r) PROVE Kept
  BY <1>2, <1>5, <1>6 DEF LoopStep, NextBatch, Verdict, AdvanceResume, Post, Gate
<1>7. ASSUME NEW r \in Requests, Answered(r) PROVE Kept
  BY <1>2, <1>7 DEF Answered, Answer, AnswerRaises, AnswerMisread
<1>8. ASSUME NEW t \in Cancellers, CancelStep(t) PROVE Kept
  BY <1>2, <1>8 DEF CancelStep, CancelInterrupted, CancelTest, CancelSkip, CancelWrite, CancelDone
<1>9. CASE ClientStep
  BY <1>2, <1>3, <1>4, <1>9 DEF ClientStep, Execute, AdvanceBegin
<1>10. QED BY <1>2, <1>6, <1>7, <1>8, <1>9 DEF Next, vars, engineVars

-----------------------------------------------------------------------------
(* How many approvals the gates ask for.                                   *)

AllUnique == \A w \in WorkflowIds : UniqueIds(workflows[w].steps)

\* The executions whose walk came to the gate s.
Asked(s) ==
    {e \in Existing :
        \E i \in DOMAIN Steps(e) :
            /\ Steps(e)[i].step_id = s
            /\ Steps(e)[i].requires_approval
            /\ executions[e].step_results[s] # "none" \/ executions[e].current_step = s}

\* The approvals that only a gate can have created.
FromGates(s) == {a \in ApprovalIds : approvals[a].task_id = s /\ a > MaxRequested}

GatesCounted ==
    AllUnique => \A s \in StepIds : Cardinality(FromGates(s)) <= Cardinality(Asked(s))

LEMMA CountsAreFinite ==
    /\ \A S \in SUBSET ExecutionIds : IsFiniteSet(S) /\ Cardinality(S) \in Nat
    /\ \A S \in SUBSET ApprovalIds : IsFiniteSet(S) /\ Cardinality(S) \in Nat
<1>1. IsFiniteSet(ExecutionIds) /\ IsFiniteSet(ApprovalIds)
  BY FS_Interval, ApprovalConstants, EngineConstants DEF ExecutionIds, ApprovalIds
<1>2. QED BY <1>1, FS_Subset, FS_CardinalityType

\* Definitions are only ever added, so they were all unique if they are now.
LEMMA UniqueBefore == ASSUME IInv, PostedSteps, [Next]_vars, AllUnique' PROVE AllUnique
<1> SUFFICES ASSUME NEW w \in WorkflowIds PROVE UniqueIds(workflows[w].steps)
  BY DEF AllUnique
<1> USE DEF IInv, TypeOK
<1>1. workflows[w].steps = <<>> \/ workflows'[w].steps = workflows[w].steps
  <2> DEFINE Kept == workflows'[w].steps = workflows[w].steps
  <2>1. CASE UNCHANGED workflows
    BY <2>1
  <2>2. ASSUME NEW v \in WorkflowIds, NEW d \in Definitions, CreateWorkflow(v, d)
        PROVE  workflows[w].steps = <<>> \/ Kept
    BY <2>2 DEF CreateWorkflow, FreshWorkflow, PostedSteps
  <2>3. ASSUME NEW t \in Cancellers, NEW v \in WorkflowIds, CancelBegin(t, v)
        PROVE  Kept
    BY <2>3 DEF CancelBegin, SetWorkflow, Workflow
  <2>4. ASSUME NEW r \in Requests, PauseWorkflow(r) \/ FinishWalk(r)
        PROVE  Kept
    BY <2>4 DEF FinishWalk, PauseWorkflow, SetWorkflow, Workflow
  <2>5. ASSUME NEW r \in Requests, LoopStep(r) PROVE Kept
    BY <2>1, <2>4, <2>5 DEF LoopStep, NextBatch, Verdict, AdvanceResume, Post, Gate
  <2>6. ASSUME NEW r \in Requests, Answered(r) PROVE Kept
    BY <2>1, <2>6 DEF Answered, Answer, AnswerRaises, AnswerMisread
  <2>7. ASSUME NEW t \in Cancellers, CancelStep(t) PROVE Kept
    BY <2>1, <2>7 DEF CancelStep, CancelInterrupted, CancelTest, CancelSkip, CancelWrite, CancelDone
  <2>8. CASE ClientStep
    BY <2>1, <2>2, <2>3, <2>8 DEF ClientStep, Execute, AdvanceBegin
  <2>9. QED BY <2>1, <2>5, <2>6, <2>7, <2>8 DEF Next, vars, engineVars
<1>2. UniqueIds(<<>>)
  BY DEF UniqueIds
<1>3. UniqueIds(workflows'[w].steps)
  BY DEF AllUnique
<1>4. QED BY <1>1, <1>2, <1>3

\* Only a walk in its loop moves the current step.
LEMMA CurrentStepMoves ==
    ASSUME IInv, [Next]_vars, NEW e \in Existing
    PROVE  \/ executions'[e].current_step = executions[e].current_step
           \/ \E r \in Requests : walks[r].pc = "walking" /\ walks[r].execution = e
<1> DEFINE Same == executions'[e].current_step = executions[e].current_step
           Walked == \E r \in Requests : walks[r].pc = "walking" /\ walks[r].execution = e
<1> USE DEF IInv, TypeOK
<1>1. e \in ExecutionIds /\ executions[e] \in Execution
  BY DEF Existing
<1>2. ASSUME NEW r \in Requests, NEW w \in WorkflowIds, NEW f \in ExecutionIds, Execute(r, w, f)
      PROVE  Same
  BY <1>2 DEF Execute, FreshExecution
<1>3. ASSUME NEW r \in Requests, AdvanceResume(r)
      PROVE  Same
  BY <1>1, <1>3 DEF AdvanceResume, ResumedWith
<1>4. ASSUME NEW r \in Requests, NEW i \in walks[r].ready, NEW a \in ApprovalIds, Gate(r, a, i)
      PROVE  Same \/ Walked
  BY <1>1, <1>4 DEF Gate, On
<1>5. ASSUME NEW r \in Requests, NEW i \in walks[r].ready, Post(r, i)
      PROVE  Same \/ Walked
  BY <1>1, <1>5 DEF Post, On
<1>6. ASSUME NEW r \in Requests, Verdict(r) PROVE Same
  BY <1>1, <1>6 DEF Verdict, Execution
<1>7. ASSUME NEW r \in Requests, Answered(r)
      PROVE  Same
  <2>1. ASSUME NEW i \in walks[r].ready, NEW o \in Outcome, Answer(r, i, o) PROVE Same
    BY <1>1, <2>1 DEF Answer, Execution
  <2>2. ASSUME NEW i \in walks[r].ready, AnswerMisread(r, i) PROVE Same
    BY <1>1, <2>2 DEF AnswerMisread, Execution
  <2>3. CASE AnswerRaises(r)
    BY <2>3 DEF AnswerRaises
  <2>4. QED BY <1>7, <2>1, <2>2, <2>3 DEF Answered
<1>8. ASSUME NEW t \in Cancellers, CancelWrite(t) PROVE Same
  BY <1>1, <1>8 DEF CancelWrite, Execution
<1>9. CASE executions' = executions
  BY <1>9
<1>10. ASSUME NEW r \in Requests, LoopStep(r) PROVE Same \/ Walked
  BY <1>10, <1>3, <1>4, <1>5, <1>6, <1>9 DEF LoopStep, NextBatch, FinishWalk, PauseWorkflow
<1>11. ASSUME NEW t \in Cancellers, CancelStep(t) PROVE Same
  BY <1>11, <1>8, <1>9 DEF CancelStep, CancelInterrupted, CancelTest, CancelSkip, CancelDone
<1>12. ASSUME ClientStep PROVE Same
  BY <1>12, <1>2, <1>9 DEF ClientStep, CreateWorkflow, AdvanceBegin, CancelBegin
<1>13. QED BY <1>7, <1>9, <1>10, <1>11, <1>12 DEF Next, vars, engineVars

\* An execution that came to a gate counts from then on.
LEMMA AskedGrows ==
    ASSUME IInv, WInv, AllUnique, [Next]_vars, NEW s \in StepIds
    PROVE  Asked(s) \subseteq Asked(s)'
<1> DEFINE stepsAfter(f) == workflows'[executions'[f].workflow_id].steps
<1> SUFFICES ASSUME NEW e \in Existing, NEW i \in DOMAIN Steps(e),
                    Steps(e)[i].step_id = s, Steps(e)[i].requires_approval,
                    executions[e].step_results[s] # "none" \/ executions[e].current_step = s
             PROVE  /\ e \in Existing'
                    /\ i \in DOMAIN stepsAfter(e)
                    /\ stepsAfter(e)[i].step_id = s
                    /\ stepsAfter(e)[i].requires_approval
                    /\ executions'[e].step_results[s] # "none" \/ executions'[e].current_step = s
  BY DEF Asked, Steps
<1>1. e \in ExecutionIds /\ e \in Existing' /\ stepsAfter(e) = Steps(e)
  BY ExistingStays DEF Existing
<1>2. WellFormed(e)
  BY DEF AllUnique, WellFormed, Steps, IInv, HasWorkflow
<1>3. executions[e].step_results[s] # "none" => executions'[e].step_results[s] # "none"
  BY <1>1, <1>2, ResultsStay
<1>4. ASSUME executions[e].current_step = s, executions[e].step_results[s] = "none"
      PROVE  executions'[e].current_step = s
  <2> SUFFICES ASSUME NEW r \in Requests, walks[r].pc = "walking", walks[r].execution = e
               PROVE  FALSE
    BY <1>4, CurrentStepMoves
  <2>1. Follows(walks[r], executions[e], Steps(e))
    BY <1>2, WalkConsistent DEF WInv, Consistent, WellFormed
  <2>2. QED BY <2>1, <1>4 DEF Follows
<1>5. QED BY <1>1, <1>3, <1>4

\* A walk comes to a gate it did not count for.
LEMMA GateAsks ==
    ASSUME IInv, WInv, AllUnique, NEW r \in Requests, NEW i \in walks[r].ready,
           NEW a \in ApprovalIds, Gate(r, a, i),
           NEW e, e = walks[r].execution, NEW s, s = Steps(e)[i].step_id
    PROVE  e \notin Asked(s) /\ e \in Asked(s)'
<1>1. /\ walks[r].pc = "walking" /\ Steps(e)[i].requires_approval
      /\ executions' = [executions EXCEPT ![e] = PausedAt(@, s)] /\ workflows' = workflows
  BY DEF Gate, On
<1>2. /\ e \in ExecutionIds /\ e \in Existing /\ walks[r].ready \subseteq DOMAIN Steps(e)
      /\ Consistent(walks[r], executions[e], Steps(e), posted[e], AskedFor)
  BY <1>1, Walking
<1>3. UniqueIds(Steps(e))
  BY <1>2 DEF AllUnique, Steps, IInv, HasWorkflow
<1>4. Follows(walks[r], executions[e], Steps(e))
  BY <1>2, <1>3 DEF Consistent
<1>5. executions[e].step_results[s] = "none" /\ executions[e].current_step # s
  BY <1>1, <1>2, <1>4 DEF Follows
<1>6. e \notin Asked(s)
  BY <1>5 DEF Asked
<1>7. /\ executions'[e].status = "paused" /\ executions'[e].current_step = s
      /\ executions'[e].workflow_id = executions[e].workflow_id
  BY <1>1, <1>2 DEF PausedAt, IInv, TypeOK
<1>8. workflows'[executions'[e].workflow_id].steps = Steps(e)
  BY <1>1, <1>7 DEF Steps
<1>9. e \in Asked(s)'
  BY <1>1, <1>2, <1>7, <1>8 DEF Asked, Existing, Steps
<1>10. QED BY <1>6, <1>9

\* Other steps create approvals only in the range of create_approval.
LEMMA ApprovalsMove ==
    ASSUME IInv, WInv, [Next]_vars,
           ~\E r \in Requests : \E i \in walks[r].ready, a \in ApprovalIds : Gate(r, a, i),
           NEW s \in StepIds
    PROVE  FromGates(s)' \subseteq FromGates(s)
<1>1. CASE ApprovalsNext
  <2> SUFFICES ASSUME NEW a \in ApprovalIds, approvals'[a].task_id = s, a > MaxRequested
               PROVE  approvals[a].task_id = s
    BY DEF FromGates
  <2>1. approvals'[a].task_id = approvals[a].task_id \/ a <= MaxRequested
    BY <1>1, ApprovalTasks DEF WInv
  <2>2. QED BY <2>1, ApprovalConstants DEF ApprovalIds
<1>2. CASE approvals' = approvals
  BY <1>2 DEF FromGates
<1>3. ASSUME NEW r \in Requests, LoopStep(r) PROVE approvals' = approvals
  BY <1>3 DEF LoopStep, NextBatch, Verdict, FinishWalk, PauseWorkflow, AdvanceResume, Post,
     approvalVars
<1>4. ASSUME NEW r \in Requests, Answered(r) PROVE approvals' = approvals
  BY <1>4 DEF Answered, Answer, AnswerRaises, AnswerMisread, approvalVars
<1>5. ASSUME NEW t \in Cancellers, CancelStep(t) PROVE approvals' = approvals
  BY <1>5 DEF CancelStep, CancelInterrupted, CancelTest, CancelSkip, CancelWrite, CancelDone,
     approvalVars
<1>6. ASSUME ClientStep PROVE approvals' = approvals
  BY <1>6 DEF ClientStep, CreateWorkflow, Execute, AdvanceBegin, CancelBegin, approvalVars
<1>7. QED BY <1>1, <1>2, <1>3, <1>4, <1>5, <1>6 DEF Next, vars, approvalVars

LEMMA GatesCountedStays ==
    ASSUME IInv, WInv, PostedSteps, GatesCounted, [Next]_vars
    PROVE  GatesCounted'
<1> SUFFICES ASSUME AllUnique', NEW s \in StepIds
             PROVE  Cardinality(FromGates(s)') <= Cardinality(Asked(s)')
  BY DEF GatesCounted
<1>1. AllUnique
  BY UniqueBefore
<1>2. Cardinality(FromGates(s)) <= Cardinality(Asked(s))
  BY <1>1 DEF GatesCounted
<1>3. Asked(s) \subseteq Asked(s)'
  BY <1>1, AskedGrows
<1>4. /\ Asked(s) \in SUBSET ExecutionIds /\ Asked(s)' \in SUBSET ExecutionIds
      /\ FromGates(s) \in SUBSET ApprovalIds /\ FromGates(s)' \in SUBSET ApprovalIds
  BY DEF Asked, Existing, FromGates
<1>5. /\ IsFiniteSet(Asked(s)) /\ Cardinality(Asked(s)) \in Nat
      /\ IsFiniteSet(Asked(s)') /\ Cardinality(Asked(s)') \in Nat
      /\ IsFiniteSet(FromGates(s)) /\ Cardinality(FromGates(s)) \in Nat
      /\ IsFiniteSet(FromGates(s)') /\ Cardinality(FromGates(s)') \in Nat
  BY <1>4, CountsAreFinite
<1>6. Cardinality(Asked(s)) <= Cardinality(Asked(s)')
  BY <1>3, <1>5, FS_Subset
<1>7. ASSUME FromGates(s)' \subseteq FromGates(s)
      PROVE  Cardinality(FromGates(s)') <= Cardinality(Asked(s)')
  <2>1. Cardinality(FromGates(s)') <= Cardinality(FromGates(s))
    BY <1>5, <1>7, FS_Subset
  <2>2. QED BY <2>1, <1>2, <1>5, <1>6
<1>8. ASSUME NEW r \in Requests, NEW i \in walks[r].ready, NEW a \in ApprovalIds, Gate(r, a, i)
      PROVE  Cardinality(FromGates(s)') <= Cardinality(Asked(s)')
  <2>1. PICK e : e = walks[r].execution
    OBVIOUS
  <2>2. PICK z : z = Steps(e)[i].step_id
    OBVIOUS
  <2>3. approvals' = [approvals EXCEPT ![a] = NewApproval(z)]
    BY <1>8, <2>1, <2>2 DEF Gate
  <2>4. CASE z # s
    <3>1. FromGates(s)' \subseteq FromGates(s)
      BY <2>3, <2>4 DEF FromGates, NewApproval, IInv, TypeOK, ApprovalsTypeOK
    <3>2. QED BY <3>1, <1>7
  <2>5. CASE z = s
    <3>1. e \notin Asked(s) /\ e \in Asked(s)'
      BY <1>1, <1>8, <2>1, <2>2, <2>5, GateAsks
    <3>2. Asked(s) \cup {e} \in SUBSET Asked(s)'
      BY <3>1, <1>3
    <3>3. /\ IsFiniteSet(Asked(s) \cup {e})
          /\ Cardinality(Asked(s) \cup {e}) = Cardinality(Asked(s)) + 1
      BY <3>1, <1>5, FS_AddElement
    <3>4. Cardinality(Asked(s)) + 1 <= Cardinality(Asked(s)')
      BY <3>2, <3>3, <1>5, FS_Subset
    <3>5. FromGates(s)' \in SUBSET (FromGates(s) \cup {a})
      BY <2>3 DEF FromGates, IInv, TypeOK, ApprovalsTypeOK
    <3>6. /\ IsFiniteSet(FromGates(s) \cup {a})
          /\ Cardinality(FromGates(s) \cup {a}) \in Nat
          /\ Cardinality(FromGates(s) \cup {a}) <= Cardinality(FromGates(s)) + 1
      <4>1. /\ IsFiniteSet(FromGates(s) \cup {a})
            /\ Cardinality(FromGates(s) \cup {a}) =
                  IF a \in FromGates(s) THEN Cardinality(FromGates(s))
                                        ELSE Cardinality(FromGates(s)) + 1
        BY <1>5, FS_AddElement
      <4>2. QED BY <4>1, <1>5, FS_CardinalityType
    <3>7. Cardinality(FromGates(s)') <= Cardinality(FromGates(s) \cup {a})
      BY <3>5, <3>6, FS_Subset
    <3>8. QED BY <3>4, <3>6, <3>7, <1>2, <1>5
  <2>6. QED BY <2>4, <2>5
<1>9. QED BY <1>7, <1>8, ApprovalsMove

\* The invariant of the walker with what the counting needs.
LEMMA CountingInvariant == SafetySpec => [](IInv /\ WInv /\ PostedSteps /\ GatesCounted)
<1>1. Init => PostedSteps
  BY DEF Init, PostedSteps
<1>2. Init => GatesCounted
  <2> SUFFICES ASSUME Init, NEW s \in StepIds
               PROVE  Cardinality(FromGates(s)) <= Cardinality(Asked(s))
    BY DEF GatesCounted
  <2>1. FromGates(s) = {} /\ Asked(s) = {}
    BY ApprovalConstants DEF Init, ApprovalsInit, NoApproval, FromGates, Asked, Existing, NoExecution
  <2>2. QED BY <2>1, FS_EmptySet
<1>3. QED BY <1>1, <1>2, PostedStepsStay, GatesCountedStays, WalkerInvariant, PTL DEF SafetySpec

\* With distinct step identifiers, the approvals about a step are at most one
\* per execution, plus those that clients asked for directly: a walk resumed by
\* advance_workflow does not come to its gate again.
THEOREM OneApprovalPerGate == SafetySpec => []GateAskedOnce
<1>1. ASSUME GatesCounted PROVE GateAskedOnce
  <2> SUFFICES ASSUME AllUnique, NEW s \in StepIds
               PROVE  Cardinality({a \in ApprovalIds : approvals[a].task_id = s})
                          <= Cardinality(Existing) + MaxRequested
    BY DEF GateAskedOnce, AllUnique
  <2> DEFINE about == {a \in ApprovalIds : approvals[a].task_id = s}
             requested == {a \in about : a <= MaxRequested}
  <2>1. /\ about = FromGates(s) \cup requested /\ about \in SUBSET ApprovalIds
        /\ requested \in SUBSET (1..MaxRequested) /\ requested \in SUBSET ApprovalIds
        /\ FromGates(s) \in SUBSET ApprovalIds /\ FromGates(s) \cap requested = {}
        /\ Asked(s) \in SUBSET Existing /\ Existing \in SUBSET ExecutionIds
    BY ApprovalConstants DEF FromGates, ApprovalIds, Asked, Existing
  <2> HIDE DEF about, requested
  <2>2. /\ IsFiniteSet(FromGates(s)) /\ Cardinality(FromGates(s)) \in Nat
        /\ IsFiniteSet(requested) /\ Cardinality(requested) \in Nat
        /\ IsFiniteSet(Existing) /\ Cardinality(Existing) \in Nat
        /\ Cardinality(Asked(s)) \in Nat
    BY <2>1, CountsAreFinite
  <2>3. Cardinality(Asked(s)) <= Cardinality(Existing)
    BY <2>1, <2>2, FS_Subset
  <2>4. Cardinality(requested) <= MaxRequested
    <3>1. PICK range : range = 1..MaxRequested
      OBVIOUS
    <3>2. IsFiniteSet(range) /\ Cardinality(range) = MaxRequested
      BY <3>1, FS_Interval, ApprovalConstants
    <3>3. requested \in SUBSET range
      BY <2>1, <3>1
    <3>4. Cardinality(requested) <= Cardinality(range)
      BY <3>2, <3>3, FS_Subset
    <3>5. QED BY <3>2, <3>4
  <2>5. Cardinality(about) = Cardinality(FromGates(s)) + Cardinality(requested)
                                 - Cardinality(FromGates(s) \cap requested)
    BY <2>1, <2>2, FS_Union
  <2>6. Cardinality(FromGates(s) \cap requested) = 0
    BY <2>1, FS_EmptySet
  <2>7. Cardinality(FromGates(s)) <= Cardinality(Asked(s))
    BY <1>1 DEF GatesCounted
  <2>8. Cardinality(about) <= Cardinality(Existing) + MaxRequested
    BY <2>2, <2>3, <2>4, <2>5, <2>6, <2>7, ApprovalConstants
  <2>9. QED BY <2>8 DEF about
<1>2. QED BY <1>1, CountingInvariant, PTL

-----------------------------------------------------------------------------
(* The status of a workflow, when nobody cancels.                          *)

\* Workflow w has no executions, or one that is being walked or is stranded, or
\* one whose status it has.
AgreesOn(w) ==
    \/ ~\E e \in ExecutionIds :
           executions[e].status # "absent" /\ executions[e].workflow_id = w
    \/ \E r \in Requests, e \in ExecutionIds :
           /\ executions[e].status # "absent" /\ executions[e].workflow_id = w
           /\ walks[r].pc # "idle" /\ walks[r].execution = e
    \/ \E e \in ExecutionIds :
           executions[e].status = "running" /\ executions[e].workflow_id = w
    \/ \E e \in ExecutionIds :
           /\ executions[e].status # "absent" /\ executions[e].workflow_id = w
           /\ workflows[w].status = executions[e].status

LEMMA AgreeMeans == StatusesAgree <=> \A w \in WorkflowIds : AgreesOn(w)
BY DEF StatusesAgree, Stranded, AgreesOn, WalksOn, Existing

\* A step of a walk that goes on.
LEMMA AgreeWhileWalking ==
    ASSUME StatusesAgree, NEW w \in WorkflowIds,
           NEW r \in Requests, NEW e \in ExecutionIds,
           executions'[e].status # "absent",
           e \in Existing => executions'[e].workflow_id = executions[e].workflow_id,
           walks'[r].pc # "idle", walks'[r].execution = e,
           walks[r].pc # "idle" => walks[r].execution = e,
           \A q \in Requests \ {r} : walks'[q] = walks[q],
           \A f \in ExecutionIds \ {e} : executions'[f] = executions[f],
           workflows' = workflows
    PROVE  AgreesOn(w)'
<1>1. CASE executions'[e].workflow_id = w
  BY <1>1 DEF AgreesOn
<1>2. CASE executions'[e].workflow_id # w
  BY <1>2, AgreeMeans DEF AgreesOn, Existing
<1>3. QED BY <1>1, <1>2

\* A walk ends and writes the status of its execution to the workflow.
LEMMA AgreeWhenWritten ==
    ASSUME IInv, StatusesAgree, NEW w \in WorkflowIds,
           NEW r \in Requests, walks[r].pc # "idle",
           NEW e, e = walks[r].execution,
           workflows' = [workflows EXCEPT ![executions[e].workflow_id].status = executions[e].status],
           walks' = [walks EXCEPT ![r] = NoWalk], executions' = executions
    PROVE  AgreesOn(w)'
<1>1. /\ e \in ExecutionIds /\ executions[e].status # "absent"
      /\ executions[e].workflow_id \in WorkflowIds
      /\ workflows[executions[e].workflow_id] \in Workflow
  BY WalkTypes DEF Existing
<1>2. \A q \in Requests \ {r} : walks'[q] = walks[q]
  BY DEF IInv, TypeOK
<1>3. CASE executions[e].workflow_id = w
  <2>1. workflows'[w].status = executions'[e].status
    BY <1>1, <1>3 DEF IInv, TypeOK, Workflow
  <2>2. QED BY <2>1, <1>1, <1>3 DEF AgreesOn
<1>4. CASE executions[e].workflow_id # w
  <2>1. workflows'[w] = workflows[w]
    BY <1>4
  <2>2. QED BY <2>1, <1>2, <1>4, AgreeMeans DEF AgreesOn
<1>5. QED BY <1>3, <1>4

\* A walk ends at an answer it cannot read, and its execution stays running.
LEMMA AgreeWhenLost ==
    ASSUME IInv, WInv, StatusesAgree, Cancellers = {}, NEW w \in WorkflowIds,
           NEW r \in Requests,
           AnswerRaises(r) \/ \E i \in walks[r].ready : AnswerMisread(r, i)
    PROVE  AgreesOn(w)'
<1>1. PICK e : e = walks[r].execution
  OBVIOUS
<1>2. /\ walks[r].pc = "posting" /\ walks' = [walks EXCEPT ![r] = NoWalk]
      /\ workflows' = workflows
  BY DEF AnswerRaises, AnswerMisread
<1>3. /\ e \in ExecutionIds /\ executions[e] \in Execution
      /\ Consistent(walks[r], executions[e], Steps(e), posted[e], AskedFor)
  BY <1>1, <1>2, Walking
<1>4. executions[e].status = "running"
  BY <1>2, <1>3 DEF Consistent, PhaseIsStatus
<1>5. /\ executions'[e].status = executions[e].status
      /\ executions'[e].workflow_id = executions[e].workflow_id
      /\ \A f \in ExecutionIds \ {e} : executions'[f] = executions[f]
  <2>1. CASE AnswerRaises(r)
    BY <2>1 DEF AnswerRaises
  <2>2. ASSUME NEW i \in walks[r].ready, AnswerMisread(r, i)
        PROVE  /\ executions'[e].status = executions[e].status
               /\ executions'[e].workflow_id = executions[e].workflow_id
               /\ \A f \in ExecutionIds \ {e} : executions'[f] = executions[f]
    BY <1>1, <1>3, <2>2 DEF AnswerMisread, IInv, TypeOK, Execution
  <2>3. QED BY <2>1, <2>2
<1>6. \A q \in Requests \ {r} : walks'[q] = walks[q]
  BY <1>2 DEF IInv, TypeOK
<1>7. CASE executions[e].workflow_id = w
  BY <1>3, <1>4, <1>5, <1>7 DEF AgreesOn
<1>8. CASE executions[e].workflow_id # w
  BY <1>1, <1>2, <1>5, <1>6, <1>8, AgreeMeans DEF AgreesOn
<1>9. QED BY <1>7, <1>8

LEMMA AgreeStays ==
    ASSUME IInv, WInv, StatusesAgree, [Next]_vars, Cancellers = {}
    PROVE  StatusesAgree'
<1> SUFFICES ASSUME NEW w \in WorkflowIds PROVE AgreesOn(w)'
  BY DEF StatusesAgree, Stranded, AgreesOn, WalksOn, Existing
<1> USE DEF IInv, TypeOK
<1>1. ASSUME NEW v \in WorkflowIds, NEW d \in Definitions, CreateWorkflow(v, d)
      PROVE  AgreesOn(w)'
  <2>1. CASE v = w
    BY <1>1, <2>1 DEF AgreesOn, CreateWorkflow, FreshWorkflow, HasWorkflow, Existing
  <2>2. CASE v # w
    BY <1>1, <2>2, AgreeMeans DEF AgreesOn, CreateWorkflow
  <2>3. QED BY <2>1, <2>2
<1>2. ASSUME NEW r \in Requests, NEW v \in WorkflowIds, NEW e \in ExecutionIds,
             Execute(r, v, e) \/ AdvanceBegin(r, v, e)
      PROVE  AgreesOn(w)'
  <2>1. /\ walks[r].pc = "idle" /\ workflows' = workflows
        /\ walks'[r].pc # "idle" /\ walks'[r].execution = e
        /\ \A q \in Requests \ {r} : walks'[q] = walks[q]
    BY <1>2 DEF Execute, AdvanceBegin, NewWalk
  <2>2. /\ executions'[e].status # "absent"
        /\ e \in Existing => executions'[e].workflow_id = executions[e].workflow_id
        /\ \A f \in ExecutionIds \ {e} : executions'[f] = executions[f]
    BY <1>2 DEF Execute, AdvanceBegin, NewExecution, FreshExecution
  <2>3. QED BY <2>1, <2>2, AgreeWhileWalking
<1>3. ASSUME NEW r \in Requests, walks[r].pc # "idle", NEW e, e = walks[r].execution,
             walks'[r].pc # "idle", walks'[r].execution = e,
             \A q \in Requests \ {r} : walks'[q] = walks[q],
             \A f \in ExecutionIds \ {e} : executions'[f] = executions[f],
             workflows' = workflows
      PROVE  AgreesOn(w)'
  <2>1. e \in ExecutionIds /\ e \in Existing
    BY <1>3, WalkTypes
  <2>2. executions'[e].status # "absent" /\ executions'[e].workflow_id = executions[e].workflow_id
    BY <2>1, ExistingStays
  <2>3. QED BY <1>3, <2>1, <2>2, AgreeWhileWalking
<1>4. ASSUME NEW r \in Requests, LoopStep(r) PROVE AgreesOn(w)'
  <2>1. walks[r] \in Walk
    OBVIOUS
  <2>2. CASE NextBatch(r)
    BY <1>3, <2>1, <2>2 DEF NextBatch, On, Walk
  <2>3. CASE Verdict(r)
    BY <1>3, <2>1, <2>3 DEF Verdict, On, Walk
  <2>4. CASE FinishWalk(r)
    BY <2>4, AgreeWhenWritten DEF FinishWalk, On, SetWorkflow
  <2>5. CASE PauseWorkflow(r)
    <3>1. executions[walks[r].execution].status = "paused"
      BY <2>5, Walking DEF PauseWorkflow, On, Consistent, PhaseIsStatus
    <3>2. QED BY <2>5, <3>1, AgreeWhenWritten DEF PauseWorkflow, On, SetWorkflow
  <2>6. CASE AdvanceResume(r)
    BY <1>3, <2>1, <2>6 DEF AdvanceResume, On, Walk
  <2>7. ASSUME NEW i \in walks[r].ready, Post(r, i) PROVE AgreesOn(w)'
    BY <1>3, <2>1, <2>7 DEF Post, On, Walk
  <2>8. ASSUME NEW i \in walks[r].ready, NEW a \in ApprovalIds, Gate(r, a, i)
        PROVE  AgreesOn(w)'
    BY <1>3, <2>1, <2>8 DEF Gate, On, Walk
  <2>9. QED BY <1>4, <2>2, <2>3, <2>4, <2>5, <2>6, <2>7, <2>8 DEF LoopStep
<1>5. ASSUME NEW r \in Requests, Answered(r) PROVE AgreesOn(w)'
  <2>1. ASSUME NEW i \in walks[r].ready, NEW o \in Outcome, Answer(r, i, o)
        PROVE  AgreesOn(w)'
    BY <1>3, <2>1 DEF Answer, Recorded
  <2>2. CASE AnswerRaises(r) \/ \E i \in walks[r].ready : AnswerMisread(r, i)
    BY <2>2, AgreeWhenLost
  <2>3. QED BY <1>5, <2>1, <2>2 DEF Answered
<1>6. CASE UNCHANGED <<workflows, executions, walks>>
  BY <1>6, AgreeMeans DEF AgreesOn
<1>7. ASSUME ClientStep PROVE AgreesOn(w)'
  BY <1>1, <1>2, <1>7 DEF ClientStep
<1>8. QED BY <1>4, <1>5, <1>6, <1>7 DEF Next, vars, engineVars

\* While nobody cancels, a workflow that has executions, none of them being
\* walked or stranded, has the status of one of them (PauseWorkflow and FinishWalk write it
\* last, whatever other executions of the workflow did meanwhile).
THEOREM WorkflowStatusIsTrue == Cancellers = {} => (SafetySpec => []StatusesAgree)
<1> SUFFICES ASSUME Cancellers = {} PROVE SafetySpec => []StatusesAgree
  OBVIOUS
<1>1. Init => StatusesAgree
  BY DEF Init, NoExecution, StatusesAgree, Existing
<1>2. IInv /\ WInv /\ StatusesAgree /\ [Next]_vars => StatusesAgree'
  BY AgreeStays
<1>3. QED BY <1>1, <1>2, WalkerInvariant, PTL DEF SafetySpec

-----------------------------------------------------------------------------
(* The engine implements DagExecution.                                     *)

\* What DagExecution sees of an execution whose step identifiers are distinct.
LEMMA SeenAs ==
    ASSUME NEW e \in Existing, UniqueIds(Steps(e))
    PROVE  AsDag(e) =
               [steps   |-> Steps(e),
                status  |-> IF Stranded(e) THEN "abandoned" ELSE executions[e].status,
                gate    |-> IF executions[e].status = "paused" THEN executions[e].current_step
                                                               ELSE NoStep,
                results |-> executions[e].step_results]
BY DEF AsDag, WellFormed

LEMMA UnseenAs ==
    ASSUME NEW e, ~WellFormed(e)
    PROVE  AsDag(e) = Dag!Blank
BY DEF AsDag, Dag!Blank, NoResults

\* What an action leaves alone, the walks included, looks the same afterwards.
LEMMA SeenTheSame ==
    ASSUME IInv, [Next]_vars, NEW e \in ExecutionIds, executions'[e] = executions[e],
           Stranded(e)' <=> Stranded(e)
    PROVE  AsDag(e)' = AsDag(e)
<1>1. CASE e \in Existing
  <2>1. Steps(e)' = Steps(e)
    BY <1>1, ExistingStays DEF Steps
  <2>2. WellFormed(e)' <=> WellFormed(e)
    BY <1>1, <2>1 DEF WellFormed, Existing
  <2>3. QED BY <2>1, <2>2 DEF AsDag
<1>2. CASE e \notin Existing
  BY <1>2 DEF AsDag, WellFormed, Existing
<1>3. QED BY <1>1, <1>2

\* The steps DagExecution finds ready.
LEMMA ReadyMeans ==
    ASSUME IInv, NEW e \in Existing, UniqueIds(Steps(e))
    PROVE  /\ Dag!Done(e) = CompletedIn(executions[e].step_results)
           /\ \A step : step \in Dag!Ready(e) <=>
                  \E i \in DOMAIN Steps(e) :
                      /\ step = Steps(e)[i]
                      /\ executions[e].step_results[step.step_id] = "none"
                      /\ step.depends_on \subseteq CompletedIn(executions[e].step_results)
<1>1. e \in ExecutionIds /\ executions[e].step_results \in [StepIds -> Result]
  BY DEF Existing, IInv, TypeOK, Execution
<1>2. /\ AsDag(e).steps = Steps(e)
      /\ AsDag(e).results = executions[e].step_results
  BY SeenAs
<1>3. Dag!Done(e) = CompletedIn(executions[e].step_results)
  BY <1>1, <1>2 DEF Dag!Done, Dag!With, CompletedIn, Result, Outcome
<1>4. QED BY <1>1, <1>2, <1>3 DEF Dag!Ready

\* The value the refinement mapping gives to DagExecution's variable.
Seen == [e \in ExecutionIds |-> AsDag(e)]

\* A step of request r on execution e is seen on that one alone.
LEMMA SeenElsewhere ==
    ASSUME IInv, [Next]_vars, NEW r \in Requests, NEW e \in ExecutionIds,
           \A f \in ExecutionIds \ {e} : executions'[f] = executions[f],
           \A q \in Requests \ {r} : walks'[q] = walks[q],
           walks[r].pc # "idle" => walks[r].execution = e,
           walks'[r].pc # "idle" => walks'[r].execution = e
    PROVE  Seen' = [Seen EXCEPT ![e] = AsDag(e)']
<1>1. \A f \in ExecutionIds \ {e} : Stranded(f)' <=> Stranded(f)
  BY DEF Stranded, WalksOn
<1>2. \A f \in ExecutionIds \ {e} : AsDag(f)' = AsDag(f)
  BY <1>1, SeenTheSame
<1>3. QED BY <1>2 DEF Seen

\* A step of a walk moves that walk alone, and not to another execution.
LEMMA WalkMoves ==
    ASSUME IInv, NEW r \in Requests, LoopStep(r) \/ Answered(r)
    PROVE  /\ walks[r].pc # "idle"
           /\ \A q \in Requests \ {r} : walks'[q] = walks[q]
           /\ walks'[r].pc # "idle" => walks'[r].execution = walks[r].execution
<1> USE DEF IInv, TypeOK
<1>1. CASE Answered(r)
  <2>1. CASE \E i \in walks[r].ready, o \in Outcome : Answer(r, i, o)
    BY <2>1 DEF Answer, Recorded
  <2>2. CASE AnswerRaises(r) \/ \E i \in walks[r].ready : AnswerMisread(r, i)
    <3>1. walks[r].pc = "posting" /\ walks' = [walks EXCEPT ![r] = NoWalk]
      BY <2>2 DEF AnswerRaises, AnswerMisread
    <3>2. NoWalk.pc = "idle"
      BY DEF NoWalk, NewWalk
    <3>3. QED BY <3>1, <3>2
  <2>3. QED BY <1>1, <2>1, <2>2 DEF Answered
<1>2. CASE LoopStep(r)
  <2>1. walks[r] \in Walk
    OBVIOUS
  <2>2. CASE NextBatch(r) \/ Verdict(r) \/ AdvanceResume(r)
    BY <2>1, <2>2 DEF NextBatch, Verdict, AdvanceResume, On, Walk
  <2>3. CASE FinishWalk(r) \/ PauseWorkflow(r)
    BY <2>3 DEF FinishWalk, PauseWorkflow, On, NoWalk, NewWalk
  <2>4. CASE \E i \in walks[r].ready : Post(r, i)
    BY <2>1, <2>4 DEF Post, On, Walk
  <2>5. CASE \E i \in walks[r].ready, a \in ApprovalIds : Gate(r, a, i)
    BY <2>1, <2>5 DEF Gate, On, Walk
  <2>6. QED BY <1>2, <2>2, <2>3, <2>4, <2>5 DEF LoopStep
<1>3. QED BY <1>1, <1>2

\* Executions with repeated step identifiers stay unseen.
LEMMA UnseenStays ==
    ASSUME IInv, [Next]_vars, NEW e \in Existing, ~UniqueIds(Steps(e))
    PROVE  AsDag(e)' = AsDag(e)
<1>1. Steps(e)' = Steps(e)
  BY ExistingStays DEF Steps
<1>2. ~WellFormed(e) /\ ~WellFormed(e)'
  BY <1>1 DEF WellFormed
<1>3. QED BY <1>2 DEF AsDag

\* What a walk is on, before and after its step.
LEMMA SeenWalking ==
    ASSUME IInv, WInv, [Next]_vars, NEW r \in Requests, LoopStep(r) \/ Answered(r),
           NEW e, e = walks[r].execution, UniqueIds(Steps(e))
    PROVE  /\ e \in ExecutionIds
           /\ Steps(e) \in Seq(Step) /\ walks[r].ready \subseteq DOMAIN Steps(e)
           /\ executions[e] \in Execution
           /\ Consistent(walks[r], executions[e], Steps(e), posted[e], AskedFor)
           /\ e \in Existing
           /\ Seen[e] = [steps   |-> Steps(e),
                         status  |-> executions[e].status,
                         gate    |-> IF executions[e].status = "paused"
                                     THEN executions[e].current_step ELSE NoStep,
                         results |-> executions[e].step_results]
           /\ AsDag(e)' = [steps   |-> Steps(e),
                           status  |-> IF walks'[r].pc = "idle" /\ executions'[e].status = "running"
                                       THEN "abandoned" ELSE executions'[e].status,
                           gate    |-> IF executions'[e].status = "paused"
                                       THEN executions'[e].current_step ELSE NoStep,
                           results |-> executions'[e].step_results]
           /\ \A q \in Requests \ {r} : walks'[q] = walks[q]
           /\ walks'[r].pc # "idle" => walks'[r].execution = e
<1>1. /\ e \in ExecutionIds /\ e \in Existing
      /\ Steps(e) \in Seq(Step) /\ walks[r].ready \subseteq DOMAIN Steps(e)
      /\ executions[e] \in Execution
      /\ Consistent(walks[r], executions[e], Steps(e), posted[e], AskedFor)
      /\ \A q \in Requests \ {r} : walks[q].pc # "idle" => walks[q].execution # e
  BY WalkMoves, Walking
<1>2. Steps(e)' = Steps(e) /\ executions'[e].status # "absent"
  BY <1>1, ExistingStays DEF Steps
<1>3. WellFormed(e) /\ WellFormed(e)'
  BY <1>1, <1>2 DEF WellFormed, Existing
<1>4. /\ \A q \in Requests \ {r} : walks'[q] = walks[q]
      /\ walks'[r].pc # "idle" => walks'[r].execution = e
      /\ walks[r].pc # "idle"
  BY WalkMoves
<1>5. /\ ~Stranded(e)
      /\ Stranded(e)' <=> walks'[r].pc = "idle" /\ executions'[e].status = "running"
  BY <1>1, <1>4 DEF Stranded, WalksOn
<1>6. QED BY <1>1, <1>2, <1>3, <1>4, <1>5 DEF AsDag, Seen

LEMMA AnswerIsRecord ==
    ASSUME IInv, WInv, [Next]_vars, Cancellers = {},
           NEW r \in Requests, NEW i \in walks[r].ready, NEW o \in Outcome, Answer(r, i, o),
           NEW e, e = walks[r].execution, UniqueIds(Steps(e))
    PROVE  Dag!Record(e)
<1> DEFINE step == Steps(e)[i]
           s == step.step_id
<1>1. /\ walks[r].pc = "posting" /\ Handling(r, i)
      /\ Answered(r) /\ walks'[r].pc # "idle"
  BY DEF Answered, Answer, Recorded, IInv, TypeOK
<1>2. /\ e \in ExecutionIds /\ e \in Existing
      /\ Steps(e) \in Seq(Step) /\ i \in DOMAIN Steps(e)
      /\ executions[e] \in Execution
      /\ Consistent(walks[r], executions[e], Steps(e), posted[e], AskedFor)
  BY <1>1, SeenWalking
<1>3. s \in StepIds
  BY <1>2, StepTypes
<1>4. executions[e].status = "running"
  BY <1>1, <1>2 DEF Consistent, PhaseIsStatus
<1>5. /\ executions[e].step_results[s] = "none"
      /\ step.depends_on \subseteq CompletedIn(executions[e].step_results)
  BY <1>1, <1>2 DEF Consistent, Follows
<1>6. step \in Dag!Ready(e)
  BY <1>2, <1>5, ReadyMeans
<1>7. ~step.requires_approval
  <2>1. Awaits(walks[r], Steps(e), s)
    BY <1>1 DEF Awaits, Handling
  <2>2. posted[e][s] > 0
    BY <1>2, <1>3, <2>1 DEF Consistent, SentRightly
  <2>3. QED BY <1>2, <2>2 DEF Consistent, SentRightly
<1>8. executions' = [executions EXCEPT ![e].step_results[s] = o]
  BY DEF Answer
<1>9. /\ executions'[e].status = "running"
      /\ executions'[e].step_results = [executions[e].step_results EXCEPT ![s] = o]
      /\ \A f \in ExecutionIds \ {e} : executions'[f] = executions[f]
  BY <1>2, <1>4, <1>8 DEF IInv, TypeOK, Execution
<1>10. /\ Seen[e] = [steps |-> Steps(e), status |-> "running", gate |-> NoStep,
                     results |-> executions[e].step_results]
       /\ AsDag(e)' = [steps |-> Steps(e), status |-> "running", gate |-> NoStep,
                       results |-> [executions[e].step_results EXCEPT ![s] = o]]
  <2>1. /\ Seen[e] = [steps   |-> Steps(e),
                      status  |-> executions[e].status,
                      gate    |-> IF executions[e].status = "paused"
                                  THEN executions[e].current_step ELSE NoStep,
                      results |-> executions[e].step_results]
        /\ AsDag(e)' = [steps   |-> Steps(e),
                        status  |-> IF walks'[r].pc = "idle" /\ executions'[e].status = "running"
                                    THEN "abandoned" ELSE executions'[e].status,
                        gate    |-> IF executions'[e].status = "paused"
                                    THEN executions'[e].current_step ELSE NoStep,
                        results |-> executions'[e].step_results]
    BY <1>1, SeenWalking
  <2>2. QED BY <2>1, <1>1, <1>4, <1>9
<1>11. Seen' = [Seen EXCEPT ![e].results[s] = o]
  <2>1. Seen' = [Seen EXCEPT ![e] = AsDag(e)']
    BY <1>1, <1>2, <1>9, WalkMoves, SeenElsewhere
  <2>2. AsDag(e)' = [Seen[e] EXCEPT !.results[s] = o]
    BY <1>10
  <2>3. QED BY <2>1, <2>2
<1>12. Seen[e].status = "running"
  BY <1>10
<1> HIDE DEF step
<1>13. QED BY <1>6, <1>7, <1>11, <1>12 DEF Dag!Record, Seen, Outcome

LEMMA GateIsPause ==
    ASSUME IInv, WInv, [Next]_vars, Cancellers = {},
           NEW r \in Requests, NEW i \in walks[r].ready, NEW a \in ApprovalIds, Gate(r, a, i),
           NEW e, e = walks[r].execution, UniqueIds(Steps(e))
    PROVE  Dag!Pause(e)
<1> DEFINE step == Steps(e)[i]
           s == step.step_id
<1>1. /\ walks[r].pc = "walking" /\ step.requires_approval
      /\ LoopStep(r) /\ walks'[r].pc # "idle"
  BY DEF LoopStep, Gate, On, IInv, TypeOK, Walk
<1>2. /\ e \in ExecutionIds /\ e \in Existing
      /\ Steps(e) \in Seq(Step) /\ i \in DOMAIN Steps(e)
      /\ executions[e] \in Execution
      /\ Consistent(walks[r], executions[e], Steps(e), posted[e], AskedFor)
  BY <1>1, SeenWalking
<1>3. executions[e].status = "running"
  BY <1>1, <1>2 DEF Consistent, PhaseIsStatus
<1>4. /\ executions[e].step_results[s] = "none"
      /\ step.depends_on \subseteq CompletedIn(executions[e].step_results)
  BY <1>1, <1>2 DEF Consistent, Follows
<1>5. step \in Dag!Ready(e)
  BY <1>2, <1>4, ReadyMeans
<1>6. executions' = [executions EXCEPT ![e] = PausedAt(@, s)]
  BY DEF Gate
<1>7. /\ executions'[e].status = "paused" /\ executions'[e].current_step = s
      /\ executions'[e].step_results = executions[e].step_results
      /\ \A f \in ExecutionIds \ {e} : executions'[f] = executions[f]
  BY <1>2, <1>6 DEF IInv, TypeOK, PausedAt
<1>8. /\ Seen[e] = [steps |-> Steps(e), status |-> "running", gate |-> NoStep,
                    results |-> executions[e].step_results]
      /\ AsDag(e)' = [steps |-> Steps(e), status |-> "paused", gate |-> s,
                      results |-> executions[e].step_results]
  BY <1>1, <1>3, <1>7, SeenWalking
<1>9. Seen' = [Seen EXCEPT ![e].status = "paused", ![e].gate = s]
  BY <1>1, <1>2, <1>7, <1>8, WalkMoves, SeenElsewhere DEF Seen
<1>10. Seen[e].status = "running"
  BY <1>8
<1> HIDE DEF step
<1>11. QED BY <1>1, <1>5, <1>9, <1>10 DEF Dag!Pause, Seen

\* Two values DagExecution may have for an execution are equal when their
\* fields are.
LEMMA SameFields ==
    ASSUME NEW x, NEW y,
           x = [k \in {"steps", "status", "gate", "results"} |-> x[k]],
           y = [k \in {"steps", "status", "gate", "results"} |-> y[k]],
           x.steps = y.steps, x.status = y.status, x.gate = y.gate, x.results = y.results
    PROVE  x = y
<1>1. x["steps"] = y["steps"] /\ x["status"] = y["status"]
  OBVIOUS
<1>2. x["gate"] = y["gate"] /\ x["results"] = y["results"]
  OBVIOUS
<1>3. \A k \in {"steps", "status", "gate", "results"} : x[k] = y[k]
  BY <1>1, <1>2
<1>4. [k \in {"steps", "status", "gate", "results"} |-> x[k]]
          = [k \in {"steps", "status", "gate", "results"} |-> y[k]]
  BY <1>3
<1>5. QED BY <1>4

LEMMA ApprovedFields ==
    ASSUME NEW steps, NEW gate, NEW results, NEW before, NEW after,
           before = [steps |-> steps, status |-> "paused", gate |-> gate, results |-> results],
           after = [steps |-> steps, status |-> "running", gate |-> NoStep,
                    results |-> [results EXCEPT ![gate] = "approved"]]
    PROVE  after = [before EXCEPT !.status = "running", !.gate = NoStep,
                                  !.results[gate] = "approved"]
<1> DEFINE x == [before EXCEPT !.status = "running", !.gate = NoStep,
                               !.results[gate] = "approved"]
<1>1. /\ x.steps = steps /\ x.status = "running" /\ x.gate = NoStep
      /\ x.results = [results EXCEPT ![gate] = "approved"]
  OBVIOUS
<1>2. /\ after.steps = steps /\ after.status = "running" /\ after.gate = NoStep
      /\ after.results = [results EXCEPT ![gate] = "approved"]
  OBVIOUS
<1>3. x = [k \in {"steps", "status", "gate", "results"} |-> x[k]]
  OBVIOUS
<1>4. after = [k \in {"steps", "status", "gate", "results"} |-> after[k]]
  OBVIOUS
<1> HIDE DEF x
<1>5. x = after
  BY <1>1, <1>2, <1>3, <1>4, SameFields
<1>6. QED BY <1>5 DEF x

LEMMA StartedFields ==
    ASSUME NEW steps, NEW results, NEW before, NEW after,
           before = [steps |-> <<>>, status |-> "absent", gate |-> NoStep, results |-> results],
           after = [steps |-> steps, status |-> "running", gate |-> NoStep, results |-> results]
    PROVE  after = [before EXCEPT !.steps = steps, !.status = "running"]
<1> DEFINE x == [before EXCEPT !.steps = steps, !.status = "running"]
<1>1. x.steps = steps /\ x.status = "running" /\ x.gate = NoStep /\ x.results = results
  OBVIOUS
<1>2. /\ after.steps = steps /\ after.status = "running" /\ after.gate = NoStep
      /\ after.results = results
  OBVIOUS
<1>3. x = [k \in {"steps", "status", "gate", "results"} |-> x[k]]
  OBVIOUS
<1>4. after = [k \in {"steps", "status", "gate", "results"} |-> after[k]]
  OBVIOUS
<1> HIDE DEF x
<1>5. x = after
  BY <1>1, <1>2, <1>3, <1>4, SameFields
<1>6. QED BY <1>5 DEF x

\* The gate that advance_workflow approves is the one the execution waits at.
LEMMA ResumeIsApprove ==
    ASSUME IInv, WInv, [Next]_vars, Cancellers = {},
           NEW r \in Requests, AdvanceResume(r),
           NEW e, e = walks[r].execution, UniqueIds(Steps(e))
    PROVE  Dag!Approve(e)
<1> DEFINE s == executions[e].current_step
           results == executions[e].step_results
<1>1. walks[r].pc = "advancing" /\ LoopStep(r) /\ walks'[r].pc # "idle"
  BY DEF LoopStep, AdvanceResume, On, IInv, TypeOK
<1>2. /\ e \in ExecutionIds
      /\ Steps(e) \in Seq(Step)
      /\ executions[e] \in Execution
      /\ Consistent(walks[r], executions[e], Steps(e), posted[e], AskedFor)
  BY <1>1, SeenWalking
<1>3. executions[e].status = "paused"
  BY <1>1, <1>2 DEF Consistent, PhaseIsStatus
<1>4. s # NoStep /\ results[s] = "none"
  <2>1. AtGate(executions[e], Steps(e), AskedFor)
    BY <1>2, <1>3 DEF Consistent
  <2>2. QED BY <2>1 DEF AtGate, AskedFor
<1>5. executions' = [executions EXCEPT ![e] = ResumedWith(@, ApprovedResults(results, s))]
  BY DEF AdvanceResume
<1>6. ApprovedResults(results, s) = [results EXCEPT ![s] = "approved"]
  BY <1>4 DEF ApprovedResults
<1>7. /\ executions'[e].status = "running"
      /\ executions'[e].step_results = [results EXCEPT ![s] = "approved"]
      /\ \A f \in ExecutionIds \ {e} : executions'[f] = executions[f]
  BY <1>2, <1>5, <1>6 DEF IInv, TypeOK, ResumedWith
<1>8. /\ Seen[e] = [steps |-> Steps(e), status |-> "paused", gate |-> s, results |-> results]
      /\ AsDag(e)' = [steps |-> Steps(e), status |-> "running", gate |-> NoStep,
                      results |-> [results EXCEPT ![s] = "approved"]]
  BY <1>1, <1>3, <1>7, SeenWalking
<1>9. Seen' = [Seen EXCEPT ![e].status = "running", ![e].gate = NoStep,
                           ![e].results[Seen[e].gate] = "approved"]
  <2>1. [Seen[e] EXCEPT !.status = "running", !.gate = NoStep, !.results[s] = "approved"]
            = AsDag(e)'
    <3> HIDE DEF s, results
    <3>1. PICK before, after : before = Seen[e] /\ after = AsDag(e)'
      OBVIOUS
    <3>2. PICK steps : steps = Steps(e)
      OBVIOUS
    <3>3. /\ before = [steps |-> steps, status |-> "paused", gate |-> s, results |-> results]
          /\ after = [steps |-> steps, status |-> "running", gate |-> NoStep,
                      results |-> [results EXCEPT ![s] = "approved"]]
      BY <3>1, <3>2, <1>8
    <3>4. after = [before EXCEPT !.status = "running", !.gate = NoStep,
                                 !.results[s] = "approved"]
      BY <3>3, ApprovedFields
    <3>5. QED BY <3>1, <3>4
  <2>2. s = Seen[e].gate
    BY <1>8
  <2>3. Seen' = [Seen EXCEPT ![e] = AsDag(e)']
    BY <1>1, <1>2, <1>7, WalkMoves, SeenElsewhere
  <2>4. QED BY <2>1, <2>2, <2>3
<1>10. Seen[e].status = "paused"
  BY <1>8
<1>11. QED BY <1>9, <1>10 DEF Dag!Approve, Seen

\* The walker's count of completed steps decides what DagExecution decides by
\* looking at each step: identifiers are distinct.
LEMMA CountedMeansDone ==
    ASSUME NEW steps \in Seq(Step), UniqueIds(steps), NEW completed \in SUBSET Names(steps)
    PROVE  Cardinality(completed) = Len(steps) <=>
               \A i \in DOMAIN steps : steps[i].step_id \in completed
<1> DEFINE f == [i \in 1..Len(steps) |-> steps[i].step_id]
<1>1. Len(steps) \in Nat /\ DOMAIN steps = 1..Len(steps)
  OBVIOUS
<1>2. f \in Bijection(1..Len(steps), Names(steps))
  BY <1>1 DEF Bijection, Injection, IsInjective, Surjection, Names, UniqueIds
<1>3. IsFiniteSet(1..Len(steps)) /\ Cardinality(1..Len(steps)) = Len(steps)
  BY <1>1, FS_Interval
<1>4. Cardinality(Names(steps)) = Len(steps)
  <2>1. ExistsBijection(1..Len(steps), Names(steps))
    BY <1>2 DEF ExistsBijection
  <2>2. QED BY <2>1, <1>3, FS_Bijection
<1>5. completed = Names(steps) <=> \A i \in DOMAIN steps : steps[i].step_id \in completed
  BY DEF Names
<1>6. QED BY <1>4, <1>5, AllNames

LEMMA VerdictIsConclude ==
    ASSUME IInv, WInv, [Next]_vars, Cancellers = {},
           NEW r \in Requests, Verdict(r),
           NEW e, e = walks[r].execution, UniqueIds(Steps(e))
    PROVE  Dag!Conclude(e)
<1> DEFINE steps == Steps(e)
           results == executions[e].step_results
           completed == walks[r].completed
           verdict == FinalStatus(steps, completed, walks[r].failed)
<1>1. /\ walks[r].pc = "walking" /\ ReadySteps(steps, completed, walks[r].failed) = {}
      /\ executions' = [executions EXCEPT ![e].status = verdict]
      /\ LoopStep(r) /\ walks'[r].pc # "idle"
  BY DEF LoopStep, Verdict, On, IInv, TypeOK, Walk
<1>2. /\ e \in ExecutionIds /\ e \in Existing
      /\ steps \in Seq(Step)
      /\ executions[e] \in Execution
      /\ Consistent(walks[r], executions[e], steps, posted[e], AskedFor)
  BY <1>1, SeenWalking
<1>3. executions[e].status = "running"
  BY <1>1, <1>2 DEF Consistent, PhaseIsStatus
<1>4. completed = CompletedIn(results) /\ walks[r].failed = FailedIn(results)
  BY <1>1, <1>2 DEF Consistent, Follows
<1>5. /\ results \in [StepIds -> Result]
      /\ \A z \in StepIds : results[z] # "none" => z \in Names(steps)
      /\ completed \in SUBSET Names(steps)
  BY <1>1, <1>2 DEF Consistent, Accounted, Execution
<1>6. \A i \in DOMAIN steps : /\ steps[i].step_id \in StepIds
                              /\ steps[i].depends_on \in SUBSET StepIds
  BY <1>2, StepTypes
<1>7. Dag!Ready(e) = {}
  <2>1. ASSUME NEW i \in DOMAIN steps, results[steps[i].step_id] = "none",
               steps[i].depends_on \subseteq CompletedIn(results)
        PROVE  FALSE
    <3>1. /\ steps[i].step_id \notin CompletedIn(results) \cup FailedIn(results)
          /\ steps[i].depends_on \cap FailedIn(results) = {}
      BY <2>1 DEF CompletedIn, FailedIn
    <3>2. i \in ReadySteps(steps, completed, walks[r].failed)
      BY <3>1, <2>1, <1>4 DEF ReadySteps
    <3>3. QED BY <3>2, <1>1
  <2>2. QED BY <2>1, <1>2, ReadyMeans
<1>8. /\ Dag!Done(e) = completed
  BY <1>2, <1>4, ReadyMeans
<1>9. verdict = IF \A i \in DOMAIN steps : steps[i].step_id \in completed
                THEN "completed" ELSE "failed"
  <2>1. Cardinality(completed) = Len(steps) <=>
            \A i \in DOMAIN steps : steps[i].step_id \in completed
    BY <1>2, <1>5, CountedMeansDone
  <2>2. (\A i \in DOMAIN steps : steps[i].step_id \in completed) => walks[r].failed = {}
    <3> SUFFICES ASSUME \A i \in DOMAIN steps : steps[i].step_id \in completed,
                        NEW z \in walks[r].failed
                 PROVE  FALSE
      OBVIOUS
    <3>1. z \in StepIds /\ results[z] = "failed"
      BY <1>4 DEF FailedIn
    <3>2. z \in completed
      BY <3>1, <1>5 DEF Names
    <3>3. QED BY <3>1, <3>2, <1>4 DEF CompletedIn
  <2>3. QED BY <2>1, <2>2 DEF FinalStatus
<1>10. /\ executions'[e].status = verdict /\ executions'[e].step_results = results
       /\ \A f \in ExecutionIds \ {e} : executions'[f] = executions[f]
  BY <1>1, <1>2 DEF IInv, TypeOK, Execution
<1>11. verdict # "paused"
  BY <1>9
<1>12. /\ Seen[e] = [steps |-> steps, status |-> "running", gate |-> NoStep, results |-> results]
       /\ AsDag(e)' = [steps |-> steps, status |-> verdict, gate |-> NoStep,
                       results |-> results]
  BY <1>1, <1>3, <1>10, <1>11, SeenWalking
<1>13. Seen' = [Seen EXCEPT ![e].status = verdict]
  BY <1>1, <1>2, <1>10, <1>12, WalkMoves, SeenElsewhere DEF Seen
<1>14. Seen[e].status = "running" /\ Seen[e].steps = steps
  BY <1>12
<1> HIDE DEF steps, completed, verdict
<1>15. QED BY <1>7, <1>8, <1>9, <1>13, <1>14 DEF Dag!Conclude, Seen

LEMMA ExecuteIsStart ==
    ASSUME IInv, PostedSteps, [Next]_vars,
           NEW r \in Requests, NEW w \in WorkflowIds, NEW e \in ExecutionIds, Execute(r, w, e),
           UniqueIds(workflows[w].steps)
    PROVE  Dag!Start(e)
<1> DEFINE steps == workflows[w].steps
<1>1. e \notin Existing /\ ~WellFormed(e)
  BY DEF Execute, FreshExecution, WellFormed
<1>2. /\ executions' = [executions EXCEPT ![e] = NewExecution(w)] /\ workflows' = workflows
      /\ steps \in Definitions
  BY DEF Execute, PostedSteps
<1>3. /\ executions'[e] = NewExecution(w)
      /\ \A f \in ExecutionIds \ {e} : executions'[f] = executions[f]
  BY <1>2 DEF IInv, TypeOK
<1>4. /\ WellFormed(e)' /\ Steps(e)' = steps
      /\ walks[r].pc = "idle" /\ walks'[r].pc # "idle" /\ walks'[r].execution = e
      /\ \A q \in Requests \ {r} : walks'[q] = walks[q]
      /\ ~Stranded(e)'
  <2>1. walks' = [walks EXCEPT ![r] = NewWalk("walking", e)] /\ walks[r].pc = "idle"
    BY DEF Execute
  <2>2. walks'[r].pc # "idle" /\ walks'[r].execution = e
    BY <2>1 DEF IInv, TypeOK, NewWalk
  <2>3. ~Stranded(e)'
    BY <2>2 DEF Stranded, WalksOn
  <2>4. WellFormed(e)' /\ Steps(e)' = steps
    BY <1>2, <1>3 DEF WellFormed, Existing, Steps, NewExecution
  <2>5. QED BY <2>1, <2>2, <2>3, <2>4 DEF IInv, TypeOK
<1>5. /\ Seen[e] = Dag!Blank
      /\ AsDag(e)' = [steps |-> steps, status |-> "running", gate |-> NoStep,
                      results |-> NoResults]
  BY <1>1, <1>3, <1>4, UnseenAs DEF Seen, AsDag, NewExecution
<1>6. AsDag(e)' = [Dag!Blank EXCEPT !.steps = steps, !.status = "running"]
  <2>1. Dag!Blank = [steps |-> <<>>, status |-> "absent", gate |-> NoStep, results |-> NoResults]
    BY DEF Dag!Blank, NoResults
  <2> HIDE DEF steps
  <2>2. QED BY <1>5, <2>1, StartedFields
<1>7. Seen' = [Seen EXCEPT ![e] = [Dag!Blank EXCEPT !.steps = steps, !.status = "running"]]
  BY <1>3, <1>4, <1>6, SeenElsewhere
<1>8. Seen[e].status = "absent"
  BY <1>5 DEF Dag!Blank
<1> HIDE DEF steps
<1>9. QED BY <1>2, <1>7, <1>8 DEF Dag!Start, Seen, steps

\* A step that moves the current step of an execution which is not paused, or
\* writes no execution and strands none, is none of DagExecution's business.
LEMMA NothingSeen ==
    ASSUME IInv, [Next]_vars, executions' = executions,
           \A e \in ExecutionIds : Stranded(e)' <=> Stranded(e)
    PROVE  Seen' = Seen
BY SeenTheSame DEF Seen

\* A request that returns, resolves a batch or comes to a paused execution.
LEMMA StrandsNone ==
    ASSUME IInv, WInv, NEW r \in Requests, executions' = executions,
           \A q \in Requests \ {r} : walks'[q] = walks[q],
           NEW e \in ExecutionIds,
           walks[r].pc # "idle" => walks[r].execution = e,
           walks'[r].pc # "idle" => walks'[r].execution = e,
           walks[r].pc \in {"pausing", "finishing"} \/ walks'[r].pc # "idle",
           walks[r].pc # "idle" \/ executions[e].status = "paused"
    PROVE  \A f \in ExecutionIds : Stranded(f)' <=> Stranded(f)
<1>1. \A f \in ExecutionIds \ {e} : Stranded(f)' <=> Stranded(f)
  BY DEF Stranded, WalksOn
<1>2. CASE executions[e].status # "running"
  BY <1>1, <1>2 DEF Stranded
<1>3. CASE executions[e].status = "running"
  <2>1. walks[r].pc # "idle"
    BY <1>3
  <2>2. Consistent(walks[r], executions[e], Steps(e), posted[e], AskedFor)
    BY <2>1, Walking
  <2>3. walks[r].pc \notin {"pausing", "finishing"}
    BY <1>3, <2>2 DEF Consistent, Accounted
  <2>4. ~Stranded(e) /\ ~Stranded(e)'
    BY <2>1, <2>3 DEF Stranded, WalksOn
  <2>5. QED BY <1>1, <2>4
<1>4. QED BY <1>2, <1>3

LEMMA PostIsUnseen ==
    ASSUME IInv, WInv, [Next]_vars,
           NEW r \in Requests, NEW i \in walks[r].ready, Post(r, i),
           NEW e, e = walks[r].execution, UniqueIds(Steps(e))
    PROVE  Seen' = Seen
<1>1. /\ walks[r].pc = "walking"
      /\ executions' = [executions EXCEPT ![e].current_step = Steps(e)[i].step_id]
      /\ LoopStep(r) /\ walks'[r].pc # "idle"
  BY DEF LoopStep, Post, On, IInv, TypeOK, Walk
<1>2. e \in ExecutionIds /\ executions[e] \in Execution
  BY <1>1, SeenWalking
<1>3. executions[e].status # "paused"
  BY <1>1 DEF IInv, PausedIsIdle
<1>4. /\ executions'[e].status = executions[e].status
      /\ executions'[e].step_results = executions[e].step_results
      /\ \A f \in ExecutionIds \ {e} : executions'[f] = executions[f]
  BY <1>1, <1>2 DEF IInv, TypeOK, Execution
<1>5. AsDag(e)' = Seen[e]
  <2>1. PICK steps : steps = Steps(e)
    OBVIOUS
  <2>2. /\ Seen[e] = [steps |-> steps, status |-> executions[e].status, gate |-> NoStep,
                      results |-> executions[e].step_results]
        /\ AsDag(e)' = [steps |-> steps, status |-> executions[e].status, gate |-> NoStep,
                        results |-> executions[e].step_results]
    BY <2>1, <1>1, <1>3, <1>4, SeenWalking
  <2>3. QED BY <2>2
<1>6. Seen' = [Seen EXCEPT ![e] = AsDag(e)']
  BY <1>1, <1>2, <1>4, WalkMoves, SeenElsewhere
<1>7. QED BY <1>2, <1>5, <1>6 DEF Seen

\* A walk on an execution with repeated step identifiers.
LEMMA UniquelyWalked ==
    ASSUME IInv, [Next]_vars, NEW r \in Requests, LoopStep(r) \/ Answered(r),
           NEW e \in Existing, e = walks[r].execution, ~UniqueIds(Steps(e)),
           \A f \in ExecutionIds \ {e} : executions'[f] = executions[f]
    PROVE  Seen' = Seen
<1>1. e \in ExecutionIds
  BY DEF Existing
<1>2. Seen' = [Seen EXCEPT ![e] = AsDag(e)']
  BY <1>1, WalkMoves, SeenElsewhere
<1>3. AsDag(e)' = Seen[e]
  BY <1>1, UnseenStays DEF Seen
<1>4. QED BY <1>1, <1>2, <1>3 DEF Seen

\* The execution whose walk cannot read an answer is abandoned at a step that
\* was ready.
LEMMA AnswerLostIsAbandon ==
    ASSUME IInv, WInv, [Next]_vars, Cancellers = {},
           NEW r \in Requests,
           AnswerRaises(r) \/ \E i \in walks[r].ready : AnswerMisread(r, i),
           NEW e, e = walks[r].execution, UniqueIds(Steps(e))
    PROVE  Dag!Abandon(e)
<1> DEFINE results == executions[e].step_results
           s == executions[e].current_step
<1>1. /\ walks[r].pc = "posting" /\ Answered(r) /\ walks' = [walks EXCEPT ![r] = NoWalk]
  BY DEF Answered, AnswerRaises, AnswerMisread
<1>2. walks'[r].pc = "idle"
  BY <1>1 DEF IInv, TypeOK, NoWalk, NewWalk
<1>3. /\ e \in ExecutionIds /\ e \in Existing
      /\ Steps(e) \in Seq(Step) /\ walks[r].ready \subseteq DOMAIN Steps(e)
      /\ executions[e] \in Execution
      /\ Consistent(walks[r], executions[e], Steps(e), posted[e], AskedFor)
  BY <1>1, SeenWalking
<1>4. walks[r] \in Walk
  BY DEF IInv, TypeOK
<1>5. executions[e].status = "running"
  BY <1>1, <1>3 DEF Consistent, PhaseIsStatus
<1>6. PICK i \in walks[r].ready : Handling(r, i) /\ Steps(e)[i].step_id = s
  BY <1>1, <1>3 DEF Consistent, Strands, Awaits, Handling
<1>7. \A j \in walks[r].ready : Handling(r, j) => j = i
  BY <1>4, <1>6 DEF Handling, Walk
<1>8. s \in StepIds /\ results \in [StepIds -> Result]
  BY <1>3, <1>6, StepTypes DEF Execution
<1>9. results[s] = "none" /\ Steps(e)[i].depends_on \subseteq CompletedIn(results)
  BY <1>1, <1>3, <1>6 DEF Consistent, Follows
<1>10. Steps(e)[i] \in Dag!Ready(e)
  BY <1>3, <1>6, <1>9, ReadyMeans
<1>11. ~Steps(e)[i].requires_approval
  <2>1. posted[e][s] > 0
    BY <1>1, <1>3 DEF Consistent, Strands
  <2>2. QED BY <1>3, <1>6, <2>1 DEF Consistent, SentRightly
<1>12. PICK o \in {"none", "unreadable"} :
           executions' = [executions EXCEPT ![e].step_results[s] = o]
  <2>1. CASE AnswerRaises(r)
    <3>1. executions[e] = [executions[e] EXCEPT !.step_results[s] = "none"]
      BY <1>3, <1>8, <1>9 DEF Execution
    <3>2. executions' = [executions EXCEPT ![e].step_results[s] = "none"]
      BY <2>1, <3>1, <1>3 DEF AnswerRaises, IInv, TypeOK
    <3>3. QED BY <3>2
  <2>2. CASE \E j \in walks[r].ready : AnswerMisread(r, j)
    BY <2>2, <1>6, <1>7 DEF AnswerMisread
  <2>3. QED BY <2>1, <2>2
<1>13. /\ executions'[e].status = "running"
       /\ executions'[e].step_results = [results EXCEPT ![s] = o]
       /\ \A f \in ExecutionIds \ {e} : executions'[f] = executions[f]
  BY <1>3, <1>5, <1>12 DEF IInv, TypeOK, Execution
<1>14. /\ Seen[e] = [steps |-> Steps(e), status |-> "running", gate |-> NoStep,
                     results |-> results]
       /\ AsDag(e)' = [steps |-> Steps(e), status |-> "abandoned", gate |-> NoStep,
                       results |-> [results EXCEPT ![s] = o]]
  BY <1>1, <1>2, <1>5, <1>13, SeenWalking
<1>15. Seen' = [Seen EXCEPT ![e].status = "abandoned", ![e].results[s] = o]
  BY <1>1, <1>3, <1>13, <1>14, WalkMoves, SeenElsewhere DEF Seen
<1>16. Seen[e].status = "running"
  BY <1>14
<1>17. QED BY <1>6, <1>10, <1>11, <1>15, <1>16 DEF Dag!Abandon, Seen

LEMMA WalkIsDag ==
    ASSUME IInv, WInv, [Next]_vars, Cancellers = {},
           NEW r \in Requests, LoopStep(r) \/ Answered(r)
    PROVE  Dag!DagNext \/ Seen' = Seen
<1>1. PICK e : e = walks[r].execution
  OBVIOUS
<1>2. walks[r].pc # "idle"
  BY WalkMoves
<1>3. e \in ExecutionIds /\ e \in Existing
  BY <1>1, <1>2, WalkTypes
<1>4. CASE ~UniqueIds(Steps(e))
  <2>1. \A f \in ExecutionIds \ {e} : executions'[f] = executions[f]
    <3>1. CASE NextBatch(r) \/ FinishWalk(r) \/ PauseWorkflow(r)
      BY <3>1 DEF NextBatch, FinishWalk, PauseWorkflow
    <3>2. CASE Verdict(r) \/ AdvanceResume(r)
      BY <3>2, <1>1 DEF Verdict, AdvanceResume, IInv, TypeOK
    <3>3. ASSUME NEW i \in walks[r].ready, Post(r, i)
          PROVE  \A f \in ExecutionIds \ {e} : executions'[f] = executions[f]
      BY <3>3, <1>1 DEF Post, IInv, TypeOK
    <3>4. ASSUME NEW i \in walks[r].ready, NEW a \in ApprovalIds, Gate(r, a, i)
          PROVE  \A f \in ExecutionIds \ {e} : executions'[f] = executions[f]
      BY <3>4, <1>1 DEF Gate, IInv, TypeOK
    <3>5. ASSUME NEW i \in walks[r].ready, NEW o \in Outcome, Answer(r, i, o)
          PROVE  \A f \in ExecutionIds \ {e} : executions'[f] = executions[f]
      BY <3>5, <1>1 DEF Answer, IInv, TypeOK
    <3>6. ASSUME NEW i \in walks[r].ready, AnswerMisread(r, i)
          PROVE  \A f \in ExecutionIds \ {e} : executions'[f] = executions[f]
      BY <3>6, <1>1 DEF AnswerMisread, IInv, TypeOK
    <3>7. CASE AnswerRaises(r)
      BY <3>7 DEF AnswerRaises
    <3>8. QED BY <3>1, <3>2, <3>3, <3>4, <3>5, <3>6, <3>7 DEF LoopStep, Answered
  <2>2. QED BY <2>1, <1>1, <1>3, <1>4, UniquelyWalked
<1>5. CASE UniqueIds(Steps(e))
  <2>1. CASE NextBatch(r) \/ FinishWalk(r) \/ PauseWorkflow(r)
    <3>1. executions' = executions
      BY <2>1 DEF NextBatch, FinishWalk, PauseWorkflow
    <3>2. walks[r].pc \in {"pausing", "finishing"} \/ walks'[r].pc # "idle"
      BY <2>1 DEF NextBatch, FinishWalk, PauseWorkflow, On, IInv, TypeOK, Walk
    <3>3. \A f \in ExecutionIds : Stranded(f)' <=> Stranded(f)
      BY <1>1, <1>2, <1>3, <3>1, <3>2, WalkMoves, StrandsNone
    <3>4. QED BY <3>1, <3>3, NothingSeen
  <2>2. CASE Verdict(r)
    BY <2>2, <1>1, <1>3, <1>5, VerdictIsConclude DEF Dag!DagNext, Dag!Progress
  <2>3. CASE AdvanceResume(r)
    BY <2>3, <1>1, <1>3, <1>5, ResumeIsApprove DEF Dag!DagNext
  <2>4. ASSUME NEW i \in walks[r].ready, Post(r, i) PROVE Seen' = Seen
    BY <2>4, <1>1, <1>5, PostIsUnseen
  <2>5. ASSUME NEW i \in walks[r].ready, NEW a \in ApprovalIds, Gate(r, a, i)
        PROVE  Dag!DagNext
    BY <2>5, <1>1, <1>3, <1>5, GateIsPause DEF Dag!DagNext, Dag!Progress
  <2>6. ASSUME NEW i \in walks[r].ready, NEW o \in Outcome, Answer(r, i, o)
        PROVE  Dag!DagNext
    BY <2>6, <1>1, <1>3, <1>5, AnswerIsRecord DEF Dag!DagNext, Dag!Progress
  <2>7. CASE AnswerRaises(r) \/ \E i \in walks[r].ready : AnswerMisread(r, i)
    BY <2>7, <1>1, <1>3, <1>5, AnswerLostIsAbandon DEF Dag!DagNext, Dag!Progress
  <2>8. QED BY <2>1, <2>2, <2>3, <2>4, <2>5, <2>6, <2>7 DEF LoopStep, Answered
<1>6. QED BY <1>4, <1>5

LEMMA ExecuteIsDag ==
    ASSUME IInv, PostedSteps, [Next]_vars,
           NEW r \in Requests, NEW w \in WorkflowIds, NEW e \in ExecutionIds, Execute(r, w, e)
    PROVE  Dag!DagNext \/ Seen' = Seen
<1>1. CASE UniqueIds(workflows[w].steps)
  BY <1>1, ExecuteIsStart DEF Dag!DagNext
<1>2. CASE ~UniqueIds(workflows[w].steps)
  <2>1. /\ executions' = [executions EXCEPT ![e] = NewExecution(w)] /\ workflows' = workflows
        /\ e \notin Existing
    BY DEF Execute, FreshExecution
  <2>2. /\ Steps(e)' = workflows[w].steps
        /\ \A f \in ExecutionIds \ {e} : executions'[f] = executions[f]
    BY <2>1 DEF IInv, TypeOK, Steps, NewExecution
  <2>3. ~WellFormed(e) /\ ~WellFormed(e)'
    BY <2>1, <2>2, <1>2 DEF WellFormed
  <2>4. AsDag(e)' = AsDag(e)
    BY <2>3 DEF AsDag
  <2>5. Seen' = [Seen EXCEPT ![e] = AsDag(e)']
    <3>1. /\ walks[r].pc = "idle" /\ walks'[r].execution = e
          /\ \A q \in Requests \ {r} : walks'[q] = walks[q]
      BY DEF Execute, IInv, TypeOK, NewWalk
    <3>2. QED BY <2>2, <3>1, SeenElsewhere
  <2>6. QED BY <2>4, <2>5 DEF Seen
<1>3. QED BY <1>1, <1>2

LEMMA NextIsDag ==
    ASSUME IInv, WInv, PostedSteps, [Next]_vars, Cancellers = {}
    PROVE  [Dag!DagNext]_Seen
<1>1. ASSUME NEW r \in Requests, LoopStep(r) \/ Answered(r)
      PROVE  Dag!DagNext \/ Seen' = Seen
  BY <1>1, WalkIsDag
<1>2. ASSUME NEW r \in Requests, NEW w \in WorkflowIds, NEW e \in ExecutionIds, Execute(r, w, e)
      PROVE  Dag!DagNext \/ Seen' = Seen
  BY <1>2, ExecuteIsDag
<1>3. CASE ClientStep
  <2>1. ASSUME NEW r \in Requests, NEW w \in WorkflowIds, NEW e \in ExecutionIds,
               AdvanceBegin(r, w, e)
        PROVE  Seen' = Seen
    <3>1. /\ walks[r].pc = "idle" /\ executions' = executions /\ executions[e].status = "paused"
          /\ walks'[r].pc # "idle" /\ walks'[r].execution = e
          /\ \A q \in Requests \ {r} : walks'[q] = walks[q]
      BY <2>1 DEF AdvanceBegin, IInv, TypeOK, NewWalk
    <3>2. \A f \in ExecutionIds : Stranded(f)' <=> Stranded(f)
      BY <3>1, StrandsNone
    <3>3. QED BY <3>1, <3>2, NothingSeen
  <2>2. ASSUME NEW w \in WorkflowIds, NEW d \in Definitions, CreateWorkflow(w, d)
        PROVE  Seen' = Seen
    BY <2>2, NothingSeen DEF CreateWorkflow, Stranded, WalksOn
  <2>3. QED BY <1>2, <1>3, <2>1, <2>2 DEF ClientStep
<1>4. CASE UNCHANGED engineVars
  BY <1>4, NothingSeen DEF engineVars, Stranded, WalksOn
<1>5. QED BY <1>1, <1>3, <1>4 DEF Next, vars

\* While nobody cancels, the engine implements the safety of DagExecution:
\* whatever the order of requests, answers and advances, an execution of a
\* workflow with distinct step identifiers does only what its DAG allows, one
\* step of the DAG at a time (_walk_dag, advance_workflow).
THEOREM ImplementsDagSafety == Cancellers = {} => (SafetySpec => Dag!DagSafety)
<1> SUFFICES ASSUME Cancellers = {} PROVE SafetySpec => Dag!DagSafety
  OBVIOUS
<1>1. Init => Dag!DagInit
  BY DEF Init, NoExecution, AsDag, WellFormed, Existing, Dag!DagInit, Dag!Blank, NoResults
<1>2. IInv /\ WInv /\ PostedSteps /\ [Next]_vars => [Dag!DagNext]_Seen
  BY NextIsDag
<1>3. QED BY <1>1, <1>2, CountingInvariant, PTL DEF SafetySpec, Dag!DagSafety, Seen
=============================================================================
