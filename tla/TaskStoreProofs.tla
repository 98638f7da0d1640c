-------------------------- MODULE TaskStoreProofs --------------------------
(***************************************************************************)
(* Why resumptions may interleave: a resumption runs the agent on the      *)
(* input of the record, the run ends as its input says, and so each of the *)
(* assignments of resume_task writes what is there already.                *)
(***************************************************************************)
EXTENDS TaskStore, TLAPS

Task    == [role : Roles, intents : SUBSET Intents, budget : Nat]
Outcome == [end : Agent!Ends, steps : Nat]

TypeInv ==
    /\ library \in BOOLEAN
    /\ task \in [Runs -> Task]
    /\ outcome \in [Runs -> Outcome]
    /\ tasks \in [Runs -> Record]
    /\ requests \in [Runs -> Request]

Assigning == {"status", "result", "steps"}

\* A run ends as its input says.
RunsKeepPromise ==
    \A r \in Runs :
        /\ requests[r].at = "new" => outcome[r] = Agent!Idle
        /\ requests[r].at = "running" =>
             outcome[r] \in {Agent!Running, Agent!Promise(task[r])}
        /\ requests[r].at \in Assigning \cup {"answered", "error"} =>
             outcome[r] = Agent!Promise(task[r])

\* A resumption is of a task that exists, and runs on its input.
ResumesTask ==
    \A r \in Runs : requests[r].kind = "resume" =>
        /\ tasks[requests[r].of].status # "absent"
        /\ task[r] = TaskOf(tasks[requests[r].of].input)

\* Only resumptions assign, and an execution has the default budget.
Kinds ==
    \A r \in Runs :
        /\ requests[r].at \in Assigning => requests[r].kind = "resume"
        /\ requests[r].at # "new" => task[r] = TaskOf(task[r])
        /\ requests[r].at = "new" => requests[r].kind = "none"

IInv ==
    /\ TypeInv /\ RunsKeepPromise /\ ResumesTask /\ Kinds
    /\ RecordIsOneRun /\ OneRecordPerExecution

Input == [role : Roles, intents : SUBSET Intents]

---------------------------------------------------------------------------
(***************************************************************************)
(* The contract of a run                                                   *)
(***************************************************************************)

\* Every plan is a sequence.
LEMMA PlanLengthNat ==
    ASSUME NEW t \in Task
    PROVE  Agent!PlanLength(t) \in Nat
<1> DEFINE role == t.role
<1>0. role \in Roles
  BY DEF Task
<1>1. PlanFor(role, ProcedureFor(role)) \in Seq(StepNames)
  <2>1. CASE role = "receptionist"
    BY <2>1 DEF StepNames, ProcedureFor, PlanFor
  <2>2. CASE role = "sales"
    BY <2>2 DEF StepNames, ProcedureFor, PlanFor
  <2>3. CASE role = "scheduling"
    BY <2>3 DEF StepNames, ProcedureFor, PlanFor
  <2>4. CASE role = "other"
    BY <2>4 DEF StepNames, ProcedureFor, PlanFor
  <2> QED BY <1>0, <2>1, <2>2, <2>3, <2>4 DEF Roles
<1>2. Agent!PlanLength(t) = Len(PlanFor(role, ProcedureFor(role)))
  BY DEF Agent!PlanLength, Agent!PlanFor, Agent!ProcedureFor,
         PlanFor, ProcedureFor
<1> QED BY <1>1, <1>2

\* A run ends in one of four ways.
LEMMA PromiseType ==
    ASSUME NEW t \in Task
    PROVE  /\ Agent!Promise(t) \in Outcome
           /\ Agent!Promise(t).end
                \in {"completed", "escalated", "exceeded", "raised"}
           /\ Agent!Promise(t).end # "running"
<1>1. Agent!StepsNeeded(t) \in Nat
  BY PlanLengthNat DEF Task, Agent!StepsNeeded
<1>2. /\ Agent!Verdict(t) \in Outcome
      /\ Agent!Verdict(t).end \in {"completed", "escalated", "exceeded"}
  BY <1>1 DEF Agent!Verdict, Outcome, Agent!Ends
<1>3. /\ Agent!Raised \in Outcome
      /\ Agent!Raised.end = "raised"
  BY DEF Agent!Raised, Outcome, Agent!Ends
<1>4. Agent!Promise(t) \in {Agent!Raised, Agent!Verdict(t)}
  BY DEF Agent!Promise
<1> QED BY <1>2, <1>3, <1>4

\* What run_agent is given is determined by the input, and is its own input.
LEMMA TaskOfType ==
    ASSUME NEW input \in Input
    PROVE  /\ TaskOf(input) \in Task
           /\ TaskOf(TaskOf(input)) = TaskOf(input)
  BY DEF Input, TaskOf, Task, DefaultBudget

---------------------------------------------------------------------------
(***************************************************************************)
(* The resumptions                                                         *)
(***************************************************************************)

\* The record a resumption is of tells already how its run has ended.
LEMMA RecordKnows ==
    ASSUME IInv, NEW r \in Runs, requests[r].kind = "resume",
           outcome[r] = Agent!Promise(task[r])
    PROVE  /\ requests[r].of \in Runs
           /\ tasks[requests[r].of] \in Record
           /\ tasks[requests[r].of].status = StatusOf(outcome[r].end)
           /\ tasks[requests[r].of].result = outcome[r].end
           /\ tasks[requests[r].of].steps = outcome[r].steps
           /\ tasks[requests[r].of].completed_at
                <=> outcome[r].end = "completed"
<1> DEFINE id == requests[r].of
<1>1. id \in Runs /\ tasks[id] \in Record
  BY DEF IInv, TypeInv, Request
<1>2. tasks[id].status # "absent" /\ task[r] = TaskOf(tasks[id].input)
  BY DEF IInv, ResumesTask
<1>3. outcome[r] = Expected(tasks[id].input)
  BY <1>2 DEF Expected
<1> QED BY <1>1, <1>2, <1>3 DEF IInv, RecordIsOneRun

\* A request that has its run goes on to its next place.
LEMMA Moves ==
    ASSUME IInv, NEW r \in Runs,
           NEW at \in Assigning \cup {"answered", "error"},
           outcome[r] = Agent!Promise(task[r]),
           requests[r].at \notin {"new", "answered"},
           at \in Assigning => requests[r].kind = "resume",
           at = "answered" => requests[r].kind # "execute",
           requests' = [requests EXCEPT ![r].at = at],
           UNCHANGED <<agentVars, tasks>>
    PROVE  IInv'
<1> USE DEF agentVars
<1>1. /\ requests \in [Runs -> Request]
      /\ requests'[r].at = at
      /\ requests'[r].kind = requests[r].kind
      /\ requests'[r].of = requests[r].of
      /\ \A q \in Runs \ {r} : requests'[q] = requests[q]
  BY DEF IInv, TypeInv, Request
<1>2. TypeInv'
  BY <1>1 DEF IInv, TypeInv, Assigning, Request
<1>3. RunsKeepPromise'
  BY <1>1 DEF IInv, RunsKeepPromise, Agent!Promise, Assigning
<1>4. ResumesTask'
  BY <1>1 DEF IInv, ResumesTask
<1>5. Kinds'
  BY <1>1 DEF IInv, Kinds, Assigning
<1>6. RecordIsOneRun'
  BY DEF IInv, RecordIsOneRun, Expected, Agent!Promise
<1>7. OneRecordPerExecution'
  BY <1>1 DEF IInv, OneRecordPerExecution, Assigning
<1> QED BY <1>2, <1>3, <1>4, <1>5, <1>6, <1>7 DEF IInv

\* A run that has ended, ended as its input says.
LEMMA EndedAsPromised ==
    ASSUME IInv, NEW r \in Runs, requests[r].at # "new",
           outcome[r].end # "running"
    PROVE  outcome[r] = Agent!Promise(task[r])
<1>1. requests[r].at \in {"running", "answered", "error"} \cup Assigning
  BY DEF IInv, TypeInv, Request, Assigning
<1>2. outcome[r] # Agent!Running
  BY DEF Agent!Running
<1> QED BY <1>1, <1>2 DEF IInv, RunsKeepPromise

\* Each assignment of a resumption writes what is there already.
LEMMA ResumptionsKeepTasks ==
    ASSUME IInv, NEW r \in Runs,
           ResumeStatus(r) \/ ResumeResult(r) \/ ResumeSteps(r)
             \/ ResumeStamp(r)
    PROVE  /\ UNCHANGED tasks
           /\ outcome[r] = Agent!Promise(task[r])
           /\ requests[r].kind = "resume"
<1>1. /\ outcome[r] = Agent!Promise(task[r])
      /\ requests[r].kind = "resume"
  <2>1. CASE ResumeStatus(r)
    BY <2>1, EndedAsPromised DEF ResumeStatus, Returned
  <2>2. CASE requests[r].at \in Assigning
    BY <2>2 DEF IInv, Kinds, RunsKeepPromise
  <2> QED BY <2>1, <2>2 DEF ResumeResult, ResumeSteps, ResumeStamp, Assigning
<1> DEFINE id == requests[r].of
<1>2. /\ id \in Runs
      /\ tasks[id] \in Record
      /\ tasks[id].status = StatusOf(outcome[r].end)
      /\ tasks[id].result = outcome[r].end
      /\ tasks[id].steps = outcome[r].steps
      /\ tasks[id].completed_at <=> outcome[r].end = "completed"
  BY <1>1, RecordKnows
<1>3. tasks \in [Runs -> Record]
  BY DEF IInv, TypeInv
<1>4. tasks' = tasks
  <2>1. CASE ResumeStatus(r)
    BY <2>1, <1>2, <1>3 DEF ResumeStatus, Record
  <2>2. CASE ResumeResult(r)
    BY <2>2, <1>2, <1>3 DEF ResumeResult, Record
  <2>3. CASE ResumeSteps(r)
    BY <2>3, <1>2, <1>3 DEF ResumeSteps, Record
  <2>4. CASE ResumeStamp(r)
    <3>1. tasks[id].completed_at \in BOOLEAN
      BY <1>2 DEF Record
    <3>2. (tasks[id].completed_at \/ outcome[r].end = "completed")
            = tasks[id].completed_at
      BY <3>1, <1>2
    <3>3. tasks' = [tasks EXCEPT ![id].completed_at =
                      @ \/ outcome[r].end = "completed"]
      BY <2>4 DEF ResumeStamp
    <3> QED BY <3>2, <3>3, <1>2, <1>3 DEF Record
  <2> QED BY <2>1, <2>2, <2>3, <2>4
<1> QED BY <1>1, <1>4

---------------------------------------------------------------------------
(***************************************************************************)
(* The other steps                                                         *)
(***************************************************************************)

\* run_agent is called, for whatever request, with an input.
LEMMA RunForKeeps ==
    ASSUME IInv, NEW r \in Runs, NEW of \in Runs, NEW input \in Input,
           NEW kind \in {"execute", "resume", "simulate"},
           RunFor(r, kind, of, input),
           kind = "resume" =>
             tasks[of].status # "absent" /\ input = tasks[of].input
    PROVE  IInv'
<1>1. /\ requests[r].at = "new"
      /\ outcome[r] = Agent!Idle
      /\ task' = [task EXCEPT ![r] = TaskOf(input)]
      /\ outcome' = [outcome EXCEPT ![r] = Agent!Running]
      /\ requests' = [requests EXCEPT ![r] = At(kind, of, "running")]
      /\ UNCHANGED <<library, tasks>>
  BY DEF RunFor, Agent!Begin
<1>2. /\ task \in [Runs -> Task] /\ outcome \in [Runs -> Outcome]
      /\ requests \in [Runs -> Request] /\ tasks \in [Runs -> Record]
      /\ library \in BOOLEAN
  BY DEF IInv, TypeInv
<1>3. /\ TaskOf(input) \in Task
      /\ TaskOf(TaskOf(input)) = TaskOf(input)
      /\ Agent!Running \in Outcome
      /\ At(kind, of, "running") \in Request
  BY TaskOfType DEF Agent!Running, Outcome, Agent!Ends, At, Request
<1>4. /\ requests'[r].at = "running"
      /\ requests'[r].kind = kind
      /\ requests'[r].of = of
      /\ task'[r] = TaskOf(input)
      /\ outcome'[r] = Agent!Running
      /\ \A q \in Runs \ {r} :
           /\ requests'[q] = requests[q]
           /\ task'[q] = task[q]
           /\ outcome'[q] = outcome[q]
  BY <1>1, <1>2 DEF At
<1>5. TypeInv'
  BY <1>1, <1>2, <1>3 DEF TypeInv
<1>6. RunsKeepPromise'
  BY <1>1, <1>4 DEF IInv, RunsKeepPromise, Agent!Promise, Assigning
<1>7. ResumesTask'
  BY <1>1, <1>4 DEF IInv, ResumesTask
<1>8. Kinds'
  BY <1>1, <1>3, <1>4 DEF IInv, Kinds, Assigning
<1>9. RecordIsOneRun'
  BY <1>1 DEF IInv, RecordIsOneRun, Expected, Agent!Promise
<1>10. OneRecordPerExecution'
  BY <1>1, <1>4 DEF IInv, OneRecordPerExecution
<1> QED BY <1>5, <1>6, <1>7, <1>8, <1>9, <1>10 DEF IInv

\* A run ends.
LEMMA RunStepKeeps ==
    ASSUME IInv, NEW r \in Runs, RunStep(r)
    PROVE  IInv'
<1>1. /\ outcome[r] = Agent!Running
      /\ outcome' = [outcome EXCEPT ![r] = Agent!Promise(task[r])]
      /\ UNCHANGED <<library, task, tasks, requests>>
  BY DEF RunStep, Agent!End
<1>2. /\ task \in [Runs -> Task] /\ outcome \in [Runs -> Outcome]
      /\ requests \in [Runs -> Request] /\ tasks \in [Runs -> Record]
      /\ library \in BOOLEAN
  BY DEF IInv, TypeInv
<1>3. /\ Agent!Promise(task[r]) \in Outcome
      /\ Agent!Promise(task[r]).end # "running"
  BY <1>2, PromiseType
<1>4. requests[r].at = "running"
  <2>1. Agent!Running # Agent!Idle
    BY DEF Agent!Running, Agent!Idle
  <2>2. Agent!Running # Agent!Promise(task[r])
    BY <1>3 DEF Agent!Running
  <2>3. requests[r].at \in {"new", "running", "answered", "error"}
                             \cup Assigning
    BY <1>2 DEF Request, Assigning
  <2> QED BY <1>1, <2>1, <2>2, <2>3 DEF IInv, RunsKeepPromise
<1>5. /\ outcome'[r] = Agent!Promise(task[r])
      /\ \A q \in Runs \ {r} : outcome'[q] = outcome[q]
  BY <1>1, <1>2
<1>6. TypeInv'
  BY <1>1, <1>2, <1>3 DEF TypeInv
<1>7. RunsKeepPromise'
  BY <1>1, <1>4, <1>5 DEF IInv, RunsKeepPromise, Agent!Promise, Assigning
<1>8. ResumesTask' /\ Kinds' /\ OneRecordPerExecution'
  BY <1>1 DEF IInv, ResumesTask, Kinds, OneRecordPerExecution
<1>9. RecordIsOneRun'
  BY <1>1 DEF IInv, RecordIsOneRun, Expected, Agent!Promise
<1> QED BY <1>6, <1>7, <1>8, <1>9 DEF IInv

\* The record of an execution, whose task had none, is that of its run.
LEMMA ExecuteEndKeeps ==
    ASSUME IInv, NEW r \in Runs, ExecuteEnd(r)
    PROVE  IInv' /\ tasks[r].status = "absent"
<1> DEFINE input  == [role |-> task[r].role, intents |-> task[r].intents]
           end    == outcome[r].end
           record == [input        |-> input,
                      status       |-> StatusOf(end),
                      result       |-> end,
                      steps        |-> outcome[r].steps,
                      completed_at |-> end = "completed"]
<1>1. /\ requests[r].kind = "execute"
      /\ requests[r].at = "running"
      /\ end \in {"completed", "escalated", "exceeded"}
      /\ tasks' = [tasks EXCEPT ![r] = record]
      /\ requests' = [requests EXCEPT ![r].at = "answered"]
      /\ UNCHANGED <<library, task, outcome>>
  BY DEF ExecuteEnd, Returned, agentVars
<1>2. /\ task \in [Runs -> Task] /\ outcome \in [Runs -> Outcome]
      /\ requests \in [Runs -> Request] /\ tasks \in [Runs -> Record]
      /\ library \in BOOLEAN
  BY DEF IInv, TypeInv
<1>3. tasks[r].status = "absent"
  BY <1>1 DEF IInv, OneRecordPerExecution
<1>4. /\ outcome[r] = Agent!Promise(task[r])
      /\ task[r] = TaskOf(input)
  <2>1. task[r] = TaskOf(task[r])
    BY <1>1 DEF IInv, Kinds
  <2>2. TaskOf(task[r]) = TaskOf(input)
    BY DEF TaskOf
  <2> QED BY <1>1, <2>1, <2>2, EndedAsPromised
<1>5. record \in Record /\ record.status # "absent"
  BY <1>1, <1>2 DEF Task, Outcome, Record, StatusOf
<1>6. /\ requests'[r].at = "answered"
      /\ requests'[r].kind = "execute"
      /\ requests'[r].of = requests[r].of
      /\ tasks'[r] = record
      /\ \A q \in Runs \ {r} :
           requests'[q] = requests[q] /\ tasks'[q] = tasks[q]
  BY <1>1, <1>2 DEF Request
<1>7. TypeInv'
  <2>1. requests' \in [Runs -> Request]
    BY <1>1, <1>2 DEF Request
  <2>2. tasks' \in [Runs -> Record]
    BY <1>1, <1>2, <1>5
  <2> QED BY <1>1, <1>2, <2>1, <2>2 DEF TypeInv
<1>8. RunsKeepPromise'
  BY <1>1, <1>4, <1>6 DEF IInv, RunsKeepPromise, Agent!Promise, Assigning
<1>9. ResumesTask'
  <2> SUFFICES ASSUME NEW q \in Runs, requests'[q].kind = "resume"
               PROVE  /\ tasks'[requests'[q].of].status # "absent"
                      /\ task'[q] = TaskOf(tasks'[requests'[q].of].input)
    BY DEF ResumesTask
  <2>1. q # r /\ requests'[q] = requests[q]
    BY <1>6
  <2>2. /\ tasks[requests[q].of].status # "absent"
        /\ task[q] = TaskOf(tasks[requests[q].of].input)
    BY <2>1 DEF IInv, ResumesTask
  <2>3. requests[q].of \in Runs \ {r}
    BY <1>2, <1>3, <2>2 DEF Request
  <2> QED BY <1>1, <1>6, <2>1, <2>2, <2>3
<1>10. Kinds'
  BY <1>1, <1>6 DEF IInv, Kinds, Assigning
<1>11. RecordIsOneRun'
  <2>1. outcome[r] = Expected(record.input)
    BY <1>4 DEF Expected
  <2>2. /\ record.status = StatusOf(Expected(record.input).end)
        /\ record.result = Expected(record.input).end
        /\ record.steps = Expected(record.input).steps
        /\ record.completed_at
             <=> Expected(record.input).end = "completed"
    BY <2>1
  <2> QED BY <1>1, <1>6, <2>2
          DEF IInv, RecordIsOneRun, Expected, Agent!Promise
<1>12. OneRecordPerExecution'
  BY <1>5, <1>6 DEF IInv, OneRecordPerExecution
<1> QED BY <1>3, <1>7, <1>8, <1>9, <1>10, <1>11, <1>12 DEF IInv

---------------------------------------------------------------------------
(***************************************************************************)
(* Every step                                                              *)
(***************************************************************************)

LEMMA InitEstablishes == Init => IInv
<1> SUFFICES ASSUME Init PROVE IInv
  OBVIOUS
<1> USE DEF Init, Agent!Init
<1>1. /\ Absent \in Record /\ Absent.status = "absent"
      /\ Agent!NoTask \in Task
      /\ Agent!Idle \in Outcome
      /\ \A r \in Runs : At("none", r, "new") \in Request
  BY DEF Absent, Record, Agent!NoTask, Task, Agent!Idle, Outcome, Agent!Ends,
         At, Request, Roles
<1>2. \A r \in Runs : /\ requests[r].kind = "none"
                      /\ requests[r].at = "new"
  BY DEF At
<1>3. TypeInv
  BY <1>1 DEF TypeInv
<1>4. RunsKeepPromise /\ ResumesTask /\ Kinds
  BY <1>2 DEF RunsKeepPromise, ResumesTask, Kinds, Assigning
<1>5. RecordIsOneRun /\ OneRecordPerExecution
  BY <1>1, <1>2 DEF RecordIsOneRun, OneRecordPerExecution
<1> QED BY <1>3, <1>4, <1>5 DEF IInv

\* A step of a handler keeps the invariant, and the status of every record.
LEMMA HandlerKeeps ==
    ASSUME IInv, NEW r \in Runs, HandlerStep(r)
    PROVE  /\ IInv'
           /\ \A id \in Runs : tasks[id].status # "absent" =>
                tasks'[id].status = tasks[id].status
<1>1. CASE RunStep(r)
  BY <1>1, RunStepKeeps DEF RunStep
<1>2. CASE ExecuteEnd(r)
  <2>1. IInv' /\ tasks[r].status = "absent"
    BY <1>2, ExecuteEndKeeps
  <2>2. \A id \in Runs \ {r} : tasks'[id] = tasks[id]
    BY <1>2 DEF ExecuteEnd, IInv, TypeInv
  <2> QED BY <2>1, <2>2
<1>3. CASE ResumeStatus(r) \/ ResumeResult(r) \/ ResumeSteps(r)
             \/ ResumeStamp(r)
  <2>1. /\ UNCHANGED <<agentVars, tasks>>
        /\ outcome[r] = Agent!Promise(task[r])
        /\ requests[r].kind = "resume"
    BY <1>3, ResumptionsKeepTasks
       DEF ResumeStatus, ResumeResult, ResumeSteps, ResumeStamp
  <2>2. PICK at \in Assigning \cup {"answered", "error"} :
             requests' = [requests EXCEPT ![r].at = at]
    BY <1>3 DEF ResumeStatus, ResumeResult, ResumeSteps, ResumeStamp,
                Assigning
  <2>3. requests[r].at \notin {"new", "answered"}
    BY <1>3 DEF ResumeStatus, ResumeResult, ResumeSteps, ResumeStamp, Returned
  <2>4. IInv'
    BY <2>1, <2>2, <2>3, Moves
  <2> QED BY <2>1, <2>4
<1>4. CASE SimulateEnd(r)
  <2>1. outcome[r] = Agent!Promise(task[r])
    BY <1>4, EndedAsPromised DEF SimulateEnd, Returned
  <2>2. IInv'
    BY <1>4, <2>1, Moves DEF SimulateEnd, Returned, Assigning
  <2> QED BY <1>4, <2>2 DEF SimulateEnd
<1>5. CASE Error(r)
  <2>1. outcome[r] = Agent!Promise(task[r])
    BY <1>5, EndedAsPromised DEF Error
  <2>2. IInv'
    BY <1>5, <2>1, Moves DEF Error, Assigning
  <2> QED BY <1>5, <2>2 DEF Error
<1> QED BY <1>1, <1>2, <1>3, <1>4, <1>5 DEF HandlerStep

\* A request of a client makes a run, and keeps _tasks.
LEMMA ClientKeeps ==
    ASSUME IInv, NEW r \in Runs, ClientStep(r)
    PROVE  IInv' /\ UNCHANGED tasks
<1>1. ASSUME NEW input \in Inputs, Execute(r, input) \/ Simulate(r, input)
      PROVE  IInv' /\ UNCHANGED tasks
  <2>1. input \in Input
    BY InputsAssumption DEF Input
  <2>2. PICK kind \in {"execute", "simulate"} : RunFor(r, kind, r, input)
    BY <1>1 DEF Execute, Simulate
  <2>3. IInv'
    BY <2>1, <2>2, RunForKeeps
  <2> QED BY <2>2, <2>3 DEF RunFor
<1>2. ASSUME NEW id \in Runs, Resume(r, id)
      PROVE  IInv' /\ UNCHANGED tasks
  <2>1. /\ tasks[id].status # "absent"
        /\ RunFor(r, "resume", id, tasks[id].input)
    BY <1>2 DEF Resume
  <2>2. tasks[id].input \in Input
    BY DEF IInv, TypeInv, Record, Input
  <2>3. IInv'
    BY <2>1, <2>2, RunForKeeps
  <2> QED BY <2>1, <2>3 DEF RunFor
<1> QED BY <1>1, <1>2 DEF ClientStep

LEMMA StutterKeeps ==
    ASSUME IInv, UNCHANGED storeVars
    PROVE  IInv'
<1> USE DEF storeVars
<1>1. TypeInv'
  BY DEF IInv, TypeInv
<1>2. RunsKeepPromise' /\ ResumesTask' /\ Kinds'
  BY DEF IInv, RunsKeepPromise, ResumesTask, Kinds, Agent!Promise
<1>3. RecordIsOneRun' /\ OneRecordPerExecution'
  BY DEF IInv, RecordIsOneRun, OneRecordPerExecution, Expected, Agent!Promise
<1> QED BY <1>1, <1>2, <1>3 DEF IInv

LEMMA StepKeeps == IInv /\ [Next]_storeVars => IInv'
  BY HandlerKeeps, ClientKeeps, StutterKeeps DEF Next

LEMMA Inductive == SafetySpec => []IInv
<1>1. Init => IInv
  BY InitEstablishes
<1>2. IInv /\ [Next]_storeVars => IInv'
  BY StepKeeps
<1> QED BY <1>1, <1>2, PTL DEF SafetySpec

---------------------------------------------------------------------------
(***************************************************************************)
(* The results                                                             *)
(***************************************************************************)

\* The type of the store (_tasks and the requests of main.py).
THEOREM StoreTypeCorrect == SafetySpec => []StoreTypeOK
<1>1. IInv => StoreTypeOK
  BY DEF IInv, TypeInv, Outcome, StoreTypeOK
<1> QED BY <1>1, Inductive, PTL

\* A record is that of one run at every moment, however many resumptions
\* assign its fields one by one at the same time (resume_task).
THEOREM RecordsAreOfOneRun == SafetySpec => []RecordIsOneRun
<1>1. IInv => RecordIsOneRun
  BY DEF IInv
<1> QED BY <1>1, Inductive, PTL

\* There is one record for each execution that was answered and none for
\* anything else (execute_task, resume_task, simulate_agent).
THEOREM RecordsAreOfExecutions == SafetySpec => []OneRecordPerExecution
<1>1. IInv => OneRecordPerExecution
  BY DEF IInv
<1> QED BY <1>1, Inductive, PTL

\* No resumption changes the status of a task: an escalated one is never
\* completed without an approval (resume_task).
THEOREM EscalationsStand == SafetySpec => EscalationStands
<1>1. IInv /\ [Next]_storeVars =>
        [\A id \in Runs : tasks[id].status # "absent" =>
            tasks'[id].status = tasks[id].status]_storeVars
  BY HandlerKeeps, ClientKeeps DEF Next
<1> QED BY <1>1, Inductive, PTL DEF SafetySpec, EscalationStands
===========================================================================
