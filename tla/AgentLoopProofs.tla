-------------------------- MODULE AgentLoopProofs --------------------------
(***************************************************************************)
(* The loop keeps the contract of a run, for every set of runs and budgets *)
(* and every recursion limit.                                              *)
(*                                                                         *)
(* The invariant says, for each node, how the place in the plan, the       *)
(* length of the history and the count of supersteps are related, and what *)
(* a run that has gone on must have found: no call was asked for, and the  *)
(* budget was not used up.                                                 *)
(***************************************************************************)
EXTENDS AgentLoop, TLAPS

PlanOf(t) == PlanFor(t.role, ProcedureFor(t.role))

Before    == {"choose_action", "execute_action", "observe_result"}
After     == {"evaluate_progress", "write_memory", "returned"}
Preparing == {"idle", "load_context", "retrieve_memory", "build_plan"}

\* Nothing has been executed while the run prepares.
Untouched(r) ==
    node[r] \in Preparing => index[r] = 0 /\ history[r] = <<>>

\* The plan is the one its input determines, once it is built.
Planned(r) ==
    /\ node[r] = "build_plan" => procedure[r] = ProcedureFor(task[r].role)
    /\ node[r] \in Before \cup After => plan[r] = PlanOf(task[r])

\* The supersteps are those of the preparation and of the steps so far.
Counted(r) ==
    LET n == Len(history[r])
    IN  /\ library => supersteps[r] <= RecursionLimit
        /\ node[r] \in {"idle", "load_context"} => supersteps[r] = 0
        /\ node[r] = "retrieve_memory"   => supersteps[r] = 1
        /\ node[r] = "build_plan"        => supersteps[r] = 2
        /\ node[r] = "choose_action"     => supersteps[r] = 5 * n + 3
        /\ node[r] = "execute_action"    => supersteps[r] = 5 * n + 4
        /\ node[r] = "observe_result"    => supersteps[r] = 5 * n + 5
        /\ node[r] = "evaluate_progress" => supersteps[r] = 5 * n + 1
        /\ node[r] = "write_memory"      => supersteps[r] = 5 * n + 2
        /\ node[r] = "returned"          => supersteps[r] = 5 * n + 3

\* A run that goes on has no call to ask for and budget left.
WentOn(r) ==
    LET n == Len(history[r])
    IN  /\ node[r] \in Before =>
             /\ n < Len(PlanOf(task[r]))
             /\ n >= 1 => ~Contract!AsksForCall(task[r]) /\ n < task[r].budget
        /\ node[r] \in After =>
             /\ n \in 1 .. Len(PlanOf(task[r]))
             /\ n >= 2 =>
                  ~Contract!AsksForCall(task[r]) /\ n - 1 < task[r].budget

\* The tool waits for its approval exactly when a call was asked for.
ToolKnown(r) ==
    /\ node[r] = "execute_action" =>
         (RequiresApproval(tool[r]) <=> Contract!AsksForCall(task[r]))
    /\ node[r] \in {"observe_result", "evaluate_progress"} =>
         (toolStatus[r] = "pending_approval" <=> Contract!AsksForCall(task[r]))

\* The index is the number of finished steps.
Placed(r) ==
    LET n == Len(history[r])
    IN  /\ node[r] \in Before => index[r] = n
        /\ node[r] = "evaluate_progress" => index[r] = n - 1
        /\ node[r] \in {"write_memory", "returned"} =>
             index[r] = IF evaluation[r].should_continue THEN n ELSE n - 1

\* The evaluation is the one the input determines for the steps so far.
Evaluated(r) ==
    /\ node[r] \in {"write_memory", "returned"} =>
         evaluation[r] = EvaluationOf(
            IF Contract!AsksForCall(task[r]) THEN "pending_approval"
                                             ELSE "success",
            Len(history[r]), task[r].budget,
            Len(history[r]) >= Len(PlanOf(task[r])))
    /\ node[r] = "returned" => ~evaluation[r].should_continue

\* A run that raised could not have ended within the limit.
Exhausted(r) ==
    node[r] = "raised" =>
        /\ library /\ Contract!Supersteps(task[r]) > RecursionLimit
        /\ Len(history[r]) \in {index[r], index[r] + 1}
        /\ Len(history[r]) >= 2 => ~Contract!AsksForCall(task[r])

\* The history numbers the steps, and its calls wait for their approval.
Recorded(r) ==
    \A i \in 1 .. Len(history[r]) :
        /\ history[r][i].index = i - 1
        /\ history[r][i].status = "pending_approval"
             <=> Contract!AsksForCall(task[r])

RunInv(r) ==
    /\ Untouched(r) /\ Planned(r) /\ Counted(r) /\ WentOn(r)
    /\ ToolKnown(r) /\ Placed(r) /\ Evaluated(r) /\ Exhausted(r)
    /\ Recorded(r)

IInv == TypeOK /\ \A r \in Runs : RunInv(r)

---------------------------------------------------------------------------
(***************************************************************************)
(* The tables                                                              *)
(***************************************************************************)

\* Every plan has three, four or five steps.
LEMMA PlanLengths ==
    ASSUME NEW role \in Roles
    PROVE  /\ ProcedureFor(role) \in Seq(StepNames)
           /\ PlanFor(role, ProcedureFor(role)) \in Seq(StepNames)
           /\ Len(PlanFor(role, ProcedureFor(role))) \in 3 .. 5
<1>1. CASE role = "receptionist"
  BY <1>1 DEF StepNames, ProcedureFor, PlanFor
<1>2. CASE role = "sales"
  BY <1>2 DEF StepNames, ProcedureFor, PlanFor
<1>3. CASE role = "scheduling"
  BY <1>3 DEF StepNames, ProcedureFor, PlanFor
<1>4. CASE role = "other"
  BY <1>4 DEF StepNames, ProcedureFor, PlanFor
<1> QED BY <1>1, <1>2, <1>3, <1>4 DEF Roles

\* The tool that waits for an approval is chosen for a call and only then.
LEMMA CallIsAsked ==
    ASSUME NEW t, NEW step
    PROVE  /\ ToolFor(t.intents, step) \in Tools
           /\ RequiresApproval(ToolFor(t.intents, step))
                <=> Contract!AsksForCall(t)
BY DEF ToolFor, Tools, RequiresApproval, Contract!AsksForCall

---------------------------------------------------------------------------
(***************************************************************************)
(* What a step of one run leaves alone                                     *)
(***************************************************************************)

Same(q) ==
    /\ library' = library /\ node'[q] = node[q]
    /\ supersteps'[q] = supersteps[q] /\ task'[q] = task[q]
    /\ procedure'[q] = procedure[q] /\ plan'[q] = plan[q]
    /\ index'[q] = index[q] /\ tool'[q] = tool[q]
    /\ toolStatus'[q] = toolStatus[q] /\ history'[q] = history[q]
    /\ evaluation'[q] = evaluation[q]

\* The invariant of a run that is not stepped, and its outcome, stand.
LEMMA Frame ==
    ASSUME NEW q \in Runs, RunInv(q), Same(q)
    PROVE  RunInv(q)' /\ OutcomeOf(q)' = OutcomeOf(q)
BY DEF RunInv, Same, Untouched, Planned, Counted, WentOn, ToolKnown, Placed,
       Evaluated, Exhausted, Recorded, OutcomeOf

\* A step of run r leaves every other run as it was.
LEMMA OthersSame ==
    ASSUME TypeOK, NEW r \in Runs,
           Step(r) \/ \E t \in Tasks : Begin(r, t),
           NEW q \in Runs, q # r
    PROVE  Same(q)
BY DEF TypeOK, Step, Same, Begin, LoadContext, RetrieveMemory, BuildPlan,
       ChooseAction, ExecuteAction, ObserveResult, EvaluateProgress,
       WriteMemory, LimitReached, Visit, inputVars, planVars, toolVars
LEMMA RunTypes ==
    ASSUME TypeOK, NEW r \in Runs
    PROVE  /\ index[r] \in 0 .. 4 /\ supersteps[r] \in Nat
           /\ task[r].role \in Roles /\ task[r].budget \in Nat
           /\ tool[r] \in Tools
           /\ toolStatus[r] \in {"success", "pending_approval"}
           /\ history[r] \in Seq(Entry) /\ Len(history[r]) \in Nat
           /\ evaluation[r] \in Evaluation
BY DEF TypeOK

---------------------------------------------------------------------------
(***************************************************************************)
(* One lemma per action: the types, and the invariant of the run           *)
(***************************************************************************)

LEMMA InitIInv == Init => IInv
<1> SUFFICES ASSUME Init PROVE IInv
  OBVIOUS
<1>1. TypeOK
  BY DEF Init, TypeOK, Roles, Tools, Evaluation, Reasons, NotEvaluated
<1>2. ASSUME NEW r \in Runs PROVE RunInv(r)
  BY LimitAssumption DEF Init, RunInv, Untouched, Planned, Counted, WentOn,
     ToolKnown, Placed, Evaluated, Exhausted, Recorded, Before, After,
     Preparing
<1> QED BY <1>1, <1>2 DEF IInv

LEMMA BeginInv ==
    ASSUME IInv, NEW r \in Runs, NEW t \in Tasks, Begin(r, t)
    PROVE  TypeOK' /\ RunInv(r)'
<1> USE DEF IInv, TypeOK, Begin, planVars, toolVars
<1>1. t \in [role : Roles, intents : SUBSET Intents, budget : Nat]
  BY BudgetsAssumption DEF Tasks
<1>2. TypeOK'
  BY <1>1 DEF Nodes
<1>3. RunInv(r)'
  BY DEF RunInv, Untouched, Planned, Counted, WentOn, ToolKnown, Placed,
         Evaluated, Exhausted, Recorded, Before, After, Preparing
<1> QED BY <1>2, <1>3

LEMMA LoadContextInv ==
    ASSUME IInv, NEW r \in Runs, LoadContext(r)
    PROVE  TypeOK' /\ RunInv(r)'
<1> USE DEF IInv, TypeOK, LoadContext, Visit, inputVars, planVars, toolVars
<1>1. TypeOK'
  BY DEF Nodes
<1>2. RunInv(r)'
  BY LimitAssumption DEF RunInv, Untouched, Planned, Counted, WentOn,
     ToolKnown, Placed, Evaluated, Exhausted, Recorded, Before, After,
     Preparing
<1> QED BY <1>1, <1>2

LEMMA RetrieveMemoryInv ==
    ASSUME IInv, NEW r \in Runs, RetrieveMemory(r)
    PROVE  TypeOK' /\ RunInv(r)'
<1> USE DEF IInv, TypeOK, RetrieveMemory, Visit, inputVars, toolVars
<1>1. TypeOK'
  BY PlanLengths DEF Nodes
<1>2. RunInv(r)'
  BY LimitAssumption DEF RunInv, Untouched, Planned, Counted, WentOn,
     ToolKnown, Placed, Evaluated, Exhausted, Recorded, Before, After,
     Preparing
<1> QED BY <1>1, <1>2

LEMMA BuildPlanInv ==
    ASSUME IInv, NEW r \in Runs, BuildPlan(r)
    PROVE  TypeOK' /\ RunInv(r)'
<1> USE DEF IInv, TypeOK, BuildPlan, Visit, inputVars, toolVars
<1>1. procedure[r] = ProcedureFor(task[r].role)
  BY DEF RunInv, Planned
<1>2. /\ PlanOf(task[r]) \in Seq(StepNames)
      /\ Len(PlanOf(task[r])) \in 3 .. 5
  BY PlanLengths DEF PlanOf
<1>3. plan' = [plan EXCEPT ![r] = PlanOf(task[r])]
  BY <1>1 DEF PlanOf
<1>4. TypeOK'
  BY <1>2, <1>3 DEF Nodes
<1>5. /\ task'[r] = task[r] /\ plan'[r] = PlanOf(task[r])
      /\ index'[r] = 0 /\ history'[r] = <<>> /\ node'[r] = "choose_action"
  BY <1>3 DEF RunInv, Untouched, Preparing
<1>6. Counted(r)'
  BY <1>5, LimitAssumption DEF RunInv, Counted
<1> HIDE DEF IInv, TypeOK, BuildPlan, Visit
<1>7. WentOn(r)'
  <2>1. Len(history'[r]) = 0 /\ PlanOf(task'[r]) = PlanOf(task[r])
    BY <1>5
  <2>2. node'[r] \in Before /\ node'[r] \notin After
    BY <1>5 DEF Before, After
  <2>3. 0 < Len(PlanOf(task[r])) /\ ~(0 >= 1)
    BY <1>2
  <2> QED BY <2>1, <2>2, <2>3 DEF WentOn
<1>8. RunInv(r)'
  BY <1>5, <1>6, <1>7 DEF RunInv, Untouched, Planned, ToolKnown, Placed,
     Evaluated, Exhausted, Recorded, Before, After, Preparing
<1> QED BY <1>4, <1>8

LEMMA ChooseActionInv ==
    ASSUME IInv, NEW r \in Runs, ChooseAction(r)
    PROVE  TypeOK' /\ RunInv(r)'
<1> USE DEF IInv, TypeOK, ChooseAction, Visit, inputVars, planVars
<1>1. /\ tool'[r] \in Tools
      /\ RequiresApproval(tool'[r]) <=> Contract!AsksForCall(task[r])
  BY CallIsAsked
<1>2. TypeOK'
  BY <1>1 DEF Nodes
<1>3. RunInv(r)'
  BY <1>1, LimitAssumption DEF RunInv, Untouched, Planned, Counted, WentOn,
     ToolKnown, Placed, Evaluated, Exhausted, Recorded, Before, After,
     Preparing
<1> QED BY <1>2, <1>3

LEMMA ExecuteActionInv ==
    ASSUME IInv, NEW r \in Runs, ExecuteAction(r)
    PROVE  TypeOK' /\ RunInv(r)'
<1> USE DEF IInv, TypeOK, ExecuteAction, Visit, inputVars, planVars
<1>1. TypeOK'
  BY DEF Nodes
<1>2. RunInv(r)'
  BY LimitAssumption DEF RunInv, Untouched, Planned, Counted, WentOn,
     ToolKnown, Placed, Evaluated, Exhausted, Recorded, Before, After,
     Preparing
<1> QED BY <1>1, <1>2

LEMMA ObserveResultInv ==
    ASSUME IInv, NEW r \in Runs, ObserveResult(r)
    PROVE  TypeOK' /\ RunInv(r)'
<1> USE DEF IInv, TypeOK, ObserveResult, Visit, inputVars, planVars, toolVars
<1> DEFINE entry == [index |-> index[r], tool |-> tool[r],
                     status |-> toolStatus[r]]
<1>1. entry \in Entry
  <2> HIDE DEF TypeOK, ObserveResult, Visit
  <2> QED BY RunTypes DEF Entry
<1>2. /\ history'[r] = Append(history[r], entry)
      /\ history'[r] \in Seq(Entry)
      /\ Len(history'[r]) = Len(history[r]) + 1
      /\ Len(history[r]) \in Nat
  BY <1>1
<1>3. TypeOK'
  BY <1>1 DEF Nodes
<1>4. Recorded(r)'
  <2>1. /\ index[r] = Len(history[r])
        /\ toolStatus[r] = "pending_approval" <=> Contract!AsksForCall(task[r])
    BY DEF RunInv, Placed, ToolKnown, Before
  <2> SUFFICES ASSUME NEW i \in 1 .. Len(history'[r])
               PROVE  /\ history'[r][i].index = i - 1
                      /\ history'[r][i].status = "pending_approval"
                           <=> Contract!AsksForCall(task[r])
    BY DEF Recorded
  <2>2. CASE i = Len(history[r]) + 1
    BY <1>1, <1>2, <2>1, <2>2
  <2>3. CASE i \in 1 .. Len(history[r])
    BY <1>1, <1>2, <2>3 DEF RunInv, Recorded
  <2> QED BY <1>2, <2>2, <2>3
<1>5. RunInv(r)'
  BY <1>2, <1>4, LimitAssumption DEF RunInv, Untouched, Planned, Counted,
     WentOn, ToolKnown, Placed, Evaluated, Exhausted, Before, After, Preparing
<1> QED BY <1>3, <1>5

LEMMA EvaluateProgressInv ==
    ASSUME IInv, NEW r \in Runs, EvaluateProgress(r)
    PROVE  TypeOK' /\ RunInv(r)'
<1> USE DEF IInv, TypeOK, Visit, inputVars, planVars, toolVars
<1> DEFINE n     == Len(history[r])
           found == EvaluationOf(toolStatus[r], n, task[r].budget,
                                 IsLastStep(index[r], Len(plan[r])))
<1>1. /\ node[r] = "evaluate_progress" /\ node'[r] = "write_memory"
      /\ task'[r] = task[r] /\ plan'[r] = plan[r] /\ history'[r] = history[r]
      /\ evaluation'[r] = found
      /\ index'[r] = IF found.should_continue THEN index[r] + 1 ELSE index[r]
      /\ supersteps'[r] = supersteps[r] + 1
  BY DEF EvaluateProgress
<1>2. /\ plan[r] = PlanOf(task[r]) /\ Len(plan[r]) \in 3 .. 5
      /\ n \in 1 .. Len(plan[r]) /\ index[r] = n - 1
      /\ n >= 2 => ~Contract!AsksForCall(task[r]) /\ n - 1 < task[r].budget
      /\ toolStatus[r] = "pending_approval" <=> Contract!AsksForCall(task[r])
  BY <1>1, PlanLengths
  DEF RunInv, Planned, WentOn, Placed, ToolKnown, After, PlanOf
<1>3. found = EvaluationOf(IF Contract!AsksForCall(task[r])
                           THEN "pending_approval" ELSE "success",
                           n, task[r].budget, n >= Len(PlanOf(task[r])))
  BY <1>2 DEF IsLastStep
<1>4. /\ found \in Evaluation
      /\ found.should_continue => n < Len(plan[r])
  BY <1>2 DEF EvaluationOf, Stop, StepCompleted, Evaluation, Reasons, IsLastStep
<1>5. index'[r] \in 0 .. 4
  <2> HIDE DEF found, IInv, TypeOK
  <2>1. PICK size \in 3 .. 5 : size = Len(plan[r])
    BY <1>2
  <2>2. PICK m \in 1 .. size : m = n
    BY <1>2, <2>1
  <2> HIDE DEF n
  <2>3. index[r] = m - 1 /\ (found.should_continue => m < size)
    BY <1>2, <1>4, <2>1, <2>2
  <2>4. CASE found.should_continue
    BY <1>1, <2>3, <2>4
  <2>5. CASE ~found.should_continue
    BY <1>1, <2>3, <2>5
  <2> QED BY <2>4, <2>5
<1>6. TypeOK'
  BY <1>1, <1>4, <1>5 DEF EvaluateProgress, Nodes
<1>7. Evaluated(r)' /\ Placed(r)'
  BY <1>1, <1>2, <1>3 DEF Evaluated, Placed, Before
<1>8. Counted(r)'
  BY <1>1, LimitAssumption DEF RunInv, Counted, EvaluateProgress
<1>9. RunInv(r)'
  BY <1>1, <1>2, <1>7, <1>8 DEF RunInv, Untouched, Planned, WentOn, ToolKnown,
     Exhausted, Recorded, Before, After, Preparing
<1> QED BY <1>6, <1>9

LEMMA WriteMemoryInv ==
    ASSUME IInv, NEW r \in Runs, WriteMemory(r)
    PROVE  TypeOK' /\ RunInv(r)'
<1> USE DEF IInv, TypeOK, Visit, inputVars, planVars, toolVars
<1> DEFINE n == Len(history[r])
           asks == Contract!AsksForCall(task[r])
           last == n >= Len(PlanOf(task[r]))
<1>1. /\ node[r] = "write_memory" /\ node'[r] = NodeAfter(evaluation[r])
      /\ supersteps'[r] = supersteps[r] + 1
      /\ library => supersteps[r] < RecursionLimit
      /\ UNCHANGED <<library, task, procedure, plan, index, tool, toolStatus,
                     history, evaluation>>
  BY DEF WriteMemory
<1>2. /\ plan[r] = PlanOf(task[r]) /\ Len(PlanOf(task[r])) \in 3 .. 5
      /\ n \in 1 .. Len(PlanOf(task[r]))
      /\ n >= 2 => ~asks /\ n - 1 < task[r].budget
      /\ index[r] = IF evaluation[r].should_continue THEN n ELSE n - 1
      /\ supersteps[r] = 5 * n + 2
      /\ evaluation[r] = EvaluationOf(IF asks THEN "pending_approval"
                                       ELSE "success", n, task[r].budget, last)
  BY <1>1, PlanLengths
  DEF RunInv, Planned, WentOn, Placed, Counted, Evaluated, After, PlanOf
<1>3. /\ evaluation[r].should_continue <=> ~asks /\ n < task[r].budget /\ ~last
      /\ evaluation[r].completed <=> ~asks /\ n < task[r].budget /\ last
  <2>1. asks \in BOOLEAN /\ last \in BOOLEAN
    BY DEF Contract!AsksForCall
  <2>2. n \in Nat /\ task[r].budget \in Nat
    BY RunTypes
  <2> HIDE DEF asks, last, n, IInv, TypeOK
  <2>3. CASE asks
    BY <1>2, <2>1, <2>2, <2>3 DEF EvaluationOf, Stop, StepCompleted
  <2>4. CASE ~asks
    BY <1>2, <2>1, <2>2, <2>4 DEF EvaluationOf, Stop, StepCompleted
  <2> QED BY <2>3, <2>4
<1>4. TypeOK'
  <2>1. node'[r] \in {"choose_action", "returned"}
    BY <1>1 DEF NodeAfter
  <2> QED BY <2>1 DEF WriteMemory, Nodes
<1>5. Recorded(r)' /\ supersteps'[r] = 5 * n + 3
  BY <1>1, <1>2 DEF RunInv, Recorded
<1>6. CASE evaluation[r].should_continue
  <2>1. node'[r] = "choose_action"
    BY <1>1, <1>3, <1>6 DEF NodeAfter
  <2> QED
    <3> HIDE DEF IInv, TypeOK
    <3>1. Counted(r)'
      BY <1>1, <1>2, <1>5, <2>1, LimitAssumption, RunTypes DEF IInv, Counted
    <3>2. WentOn(r)' /\ Placed(r)'
      BY <1>1, <1>2, <1>3, <1>6, <2>1 DEF WentOn, Placed, Before, After
    <3>3. Untouched(r)' /\ Planned(r)'
      BY <1>1, <1>2, <2>1 DEF Untouched, Planned, Preparing
    <3>4. ToolKnown(r)' /\ Evaluated(r)' /\ Exhausted(r)'
      BY <2>1 DEF ToolKnown, Evaluated, Exhausted
    <3> QED BY <1>4, <1>5, <3>1, <3>2, <3>3, <3>4 DEF RunInv
<1>7. CASE ~evaluation[r].should_continue
  <2>1. node'[r] = "returned"
    BY <1>1, <1>7 DEF NodeAfter
  <2> QED
    <3> HIDE DEF IInv, TypeOK
    <3>1. Counted(r)'
      BY <1>1, <1>2, <1>5, <2>1, LimitAssumption, RunTypes DEF IInv, Counted
    <3>2. WentOn(r)' /\ Placed(r)' /\ Evaluated(r)'
      BY <1>1, <1>2, <1>7, <2>1 DEF WentOn, Placed, Evaluated, Before, After
    <3>3. Untouched(r)' /\ Planned(r)'
      BY <1>1, <1>2, <2>1 DEF Untouched, Planned, Preparing
    <3>4. ToolKnown(r)' /\ Exhausted(r)'
      BY <2>1 DEF ToolKnown, Exhausted
    <3> QED BY <1>4, <1>5, <3>1, <3>2, <3>3, <3>4 DEF RunInv
<1> QED BY <1>4, <1>6, <1>7

\* A run that goes on has executed fewer steps than it needs, and one that
\* has just executed a step not more.
LEMMA StepsLeft ==
    ASSUME IInv, NEW r \in Runs
    PROVE  /\ Contract!StepsNeeded(task[r]) \in 1 .. 5
           /\ node[r] \in Before =>
                Len(history[r]) + 1 <= Contract!StepsNeeded(task[r])
           /\ node[r] \in After =>
                Len(history[r]) <= Contract!StepsNeeded(task[r])
<1>1. PICK size \in 3 .. 5 : size = Len(PlanOf(task[r]))
  BY PlanLengths, RunTypes DEF IInv, PlanOf
<1>2. PICK n \in Nat : n = Len(history[r])
  BY RunTypes DEF IInv
<1>3. PICK budget \in Nat : budget = task[r].budget
  BY RunTypes DEF IInv
<1> DEFINE asks == Contract!AsksForCall(task[r])
           needed == IF asks \/ budget = 0 THEN 1
                     ELSE IF budget < size THEN budget ELSE size
<1>4. needed = Contract!StepsNeeded(task[r])
  <2>1. Contract!PlanLength(task[r]) = size
    BY <1>1 DEF PlanOf, PlanFor, ProcedureFor, Contract!PlanLength,
       Contract!PlanFor, Contract!ProcedureFor
  <2> QED BY <1>3, <2>1 DEF Contract!StepsNeeded
<1>5. /\ node[r] \in Before =>
            n < size /\ (n >= 1 => ~asks /\ n < budget)
      /\ node[r] \in After =>
            n \in 1 .. size /\ (n >= 2 => ~asks /\ n - 1 < budget)
  BY <1>1, <1>2, <1>3 DEF IInv, RunInv, WentOn
<1> HIDE DEF asks
<1>6. needed \in 1 .. 5
  OBVIOUS
<1>7. node[r] \in Before => n + 1 <= needed
  BY <1>5
<1>8. node[r] \in After => n <= needed
  BY <1>5
<1> QED BY <1>2, <1>4, <1>6, <1>7, <1>8

LEMMA LimitReachedInv ==
    ASSUME IInv, NEW r \in Runs, LimitReached(r)
    PROVE  TypeOK' /\ RunInv(r)'
<1>1. /\ node[r] \in Nodes /\ node'[r] = "raised" /\ library
      /\ supersteps[r] >= RecursionLimit
      /\ UNCHANGED <<library, task, history, index>>
  BY DEF LimitReached, IInv, TypeOK, inputVars
<1>2. TypeOK'
  BY DEF LimitReached, IInv, TypeOK, inputVars, planVars, toolVars, Nodes
<1>3. /\ Contract!Supersteps(task[r]) > RecursionLimit
      /\ Len(history[r]) \in {index[r], index[r] + 1}
      /\ Len(history[r]) >= 2 => ~Contract!AsksForCall(task[r])
  <2>1. PICK n \in Nat : n = Len(history[r])
    BY RunTypes DEF IInv
  <2>2. PICK needed \in 1 .. 5 : needed = Contract!StepsNeeded(task[r])
    BY StepsLeft
  <2>3. /\ supersteps[r] \in Nat /\ index[r] \in Nat /\ RecursionLimit \in Nat
    BY RunTypes, LimitAssumption DEF IInv
  <2>4. Contract!Supersteps(task[r]) = 3 + 5 * needed
    BY <2>2 DEF Contract!Supersteps
  <2>5. CASE node[r] \in {"load_context", "retrieve_memory", "build_plan"}
    <3>1. supersteps[r] <= 2 /\ index[r] = 0 /\ n = 0
      BY <2>1, <2>5 DEF IInv, RunInv, Counted, Untouched, Preparing
    <3> QED BY <1>1, <2>1, <2>3, <2>4, <3>1
  <2>6. CASE node[r] \in Before
    <3>1. /\ supersteps[r] <= 5 * n + 5 /\ index[r] = n /\ n + 1 <= needed
          /\ n >= 1 => ~Contract!AsksForCall(task[r])
      BY <2>1, <2>2, <2>6, StepsLeft
      DEF IInv, RunInv, Counted, Placed, WentOn, Before
    <3> QED BY <1>1, <2>1, <2>3, <2>4, <3>1
  <2>7. CASE node[r] \in {"evaluate_progress", "write_memory"}
    <3>1. /\ supersteps[r] <= 5 * n + 2 /\ index[r] \in {n, n - 1}
          /\ n <= needed
          /\ n >= 2 => ~Contract!AsksForCall(task[r])
      BY <2>1, <2>2, <2>7, StepsLeft
      DEF IInv, RunInv, Counted, Placed, WentOn, After
    <3> QED BY <1>1, <2>1, <2>3, <2>4, <3>1
  <2> QED BY <1>1, <2>5, <2>6, <2>7 DEF Nodes, Before
<1>4. supersteps'[r] = supersteps[r]
  BY DEF LimitReached
<1>5. Recorded(r)' /\ Counted(r)'
  BY <1>1, <1>4 DEF IInv, RunInv, Recorded, Counted
<1>6. Exhausted(r)'
  BY <1>1, <1>3 DEF Exhausted
<1>7. /\ Untouched(r)' /\ Planned(r)' /\ WentOn(r)' /\ ToolKnown(r)'
      /\ Placed(r)' /\ Evaluated(r)'
  BY <1>1 DEF Untouched, Planned, WentOn, ToolKnown, Placed, Evaluated,
     Before, After, Preparing
<1> QED BY <1>2, <1>5, <1>6, <1>7 DEF RunInv

---------------------------------------------------------------------------
(***************************************************************************)
(* The invariant and its consequences                                      *)
(***************************************************************************)

LEMMA StepIInv ==
    ASSUME IInv, NEW r \in Runs,
           Step(r) \/ \E t \in Tasks : Begin(r, t)
    PROVE  IInv'
<1>1. TypeOK' /\ RunInv(r)'
  BY BeginInv, LoadContextInv, RetrieveMemoryInv, BuildPlanInv,
     ChooseActionInv, ExecuteActionInv, ObserveResultInv, EvaluateProgressInv,
     WriteMemoryInv, LimitReachedInv DEF Step
<1>2. ASSUME NEW q \in Runs, q # r
      PROVE  RunInv(q)'
  BY <1>2, OthersSame, Frame DEF IInv
<1> QED BY <1>1, <1>2 DEF IInv

LEMMA StutterIInv ==
    ASSUME IInv, UNCHANGED loopVars
    PROVE  IInv'
<1>1. TypeOK'
  BY DEF IInv, TypeOK, loopVars
<1>2. ASSUME NEW q \in Runs PROVE RunInv(q)'
  BY Frame DEF IInv, Same, loopVars
<1> QED BY <1>1, <1>2 DEF IInv

LEMMA Invariance == SafetySpec => []IInv
<1>1. IInv /\ [Next]_loopVars => IInv'
  BY StepIInv, StutterIInv DEF Next
<1> QED BY InitIInv, <1>1, PTL DEF SafetySpec

\* The state stays within its type: in particular the index of the current
\* step never leaves the plan.
THEOREM LoopTypeCorrect == SafetySpec => []TypeOK
<1>1. IInv => TypeOK
  BY DEF IInv
<1> QED BY <1>1, Invariance, PTL

\* The history of a run is its plan so far, in order and without gaps
\* (observe_result and evaluate_progress).
THEOREM HistoryIsPlanSoFar == SafetySpec => []HistoryFollowsPlan
<1>1. IInv => HistoryFollowsPlan
  <2> SUFFICES ASSUME IInv, NEW r \in Runs,
                      node[r] \in Nodes \cup {"returned", "raised"}
               PROVE  /\ Len(history[r]) \in {index[r], index[r] + 1}
                      /\ \A i \in 1 .. Len(history[r]) :
                            history[r][i].index = i - 1
    BY DEF HistoryFollowsPlan
  <2>1. PICK n \in Nat : n = Len(history[r])
    BY RunTypes DEF IInv
  <2>2. index[r] \in Nat
    BY RunTypes DEF IInv
  <2>3. index[r] \in {n, n - 1}
    BY <2>1, <2>2 DEF IInv, RunInv, Untouched, Placed, Exhausted, Nodes, Before,
       Preparing
  <2> QED BY <2>1, <2>2, <2>3 DEF IInv, RunInv, Recorded
<1> QED BY <1>1, Invariance, PTL

\* Nothing is executed after a tool that waits for its approval, and such a
\* run returns only to say so (execute_action, evaluate_progress and
\* should_continue).
THEOREM PendingEndsTheRun == SafetySpec => []NothingAfterPending
<1>1. IInv => NothingAfterPending
  <2> SUFFICES ASSUME IInv, NEW r \in Runs, NEW i \in 1 .. Len(history[r]),
                      history[r][i].status = "pending_approval"
               PROVE  /\ i = Len(history[r])
                      /\ node[r] = "returned" =>
                           evaluation[r].reason = "awaiting_human_approval"
    BY DEF NothingAfterPending
  <2>1. PICK n \in Nat : n = Len(history[r])
    BY RunTypes DEF IInv
  <2>2. Contract!AsksForCall(task[r])
    BY DEF IInv, RunInv, Recorded
  <2>3. n < 2
    <3>1. node[r] \in Preparing => n = 0
      BY <2>1 DEF IInv, RunInv, Untouched
    <3>2. node[r] \in Before \cup After \cup {"raised"} => ~(n >= 2)
      BY <2>1, <2>2 DEF IInv, RunInv, WentOn, Exhausted
    <3> QED BY <3>1, <3>2 DEF IInv, TypeOK, Nodes, Preparing, Before, After
  <2>4. node[r] = "returned" => evaluation[r].reason = "awaiting_human_approval"
    BY <2>2 DEF IInv, RunInv, Evaluated, EvaluationOf, Stop
  <2> QED BY <2>1, <2>3, <2>4
<1> QED BY <1>1, Invariance, PTL

---------------------------------------------------------------------------
(***************************************************************************)
(* The loop implements AgentRun                                            *)
(***************************************************************************)

\* A run that returns reports the verdict and the steps its input determines.
LEMMA ReturnedVerdict ==
    ASSUME IInv, NEW r \in Runs, node[r] = "returned"
    PROVE  OutcomeOf(r) = Contract!Promise(task[r])
<1>1. PICK size \in 3 .. 5 : size = Len(PlanOf(task[r]))
  BY PlanLengths, RunTypes DEF IInv, PlanOf
<1>2. PICK n \in 1 .. size : n = Len(history[r])
  BY <1>1 DEF IInv, RunInv, WentOn, After
<1>3. PICK budget \in Nat : budget = task[r].budget
  BY RunTypes DEF IInv
<1> DEFINE asks == Contract!AsksForCall(task[r])
           e    == evaluation[r]
<1>4. /\ e = EvaluationOf(IF asks THEN "pending_approval" ELSE "success",
                          n, budget, n >= size)
      /\ ~e.should_continue
  BY <1>1, <1>2, <1>3 DEF IInv, RunInv, Evaluated
<1>4a. n >= 2 => ~asks /\ n - 1 < budget
  BY <1>2, <1>3 DEF IInv, RunInv, WentOn, After
<1>5. Contract!PlanLength(task[r]) = size
  BY <1>1 DEF PlanOf, PlanFor, ProcedureFor, Contract!PlanLength,
     Contract!PlanFor, Contract!ProcedureFor
<1>6. asks \in BOOLEAN
  BY DEF Contract!AsksForCall
<1>7. OutcomeOf(r) =
        [end   |-> IF e.completed THEN "completed"
                   ELSE IF e.reason = "awaiting_human_approval"
                   THEN "escalated" ELSE "exceeded",
         steps |-> n]
  BY <1>2 DEF OutcomeOf
<1>8. OutcomeOf(r) = Contract!Verdict(task[r]) /\ n = Contract!StepsNeeded(task[r])
  <2> HIDE DEF e, asks
  <2>1. CASE asks
    <3>1. e = Stop("awaiting_human_approval", FALSE)
      BY <1>4, <2>1 DEF EvaluationOf
    <3>2. n = 1
      BY <1>4a, <2>1
    <3> QED BY <1>7, <2>1, <3>1, <3>2
            DEF asks, Stop, Contract!Verdict, Contract!StepsNeeded
  <2>2. CASE ~asks /\ n >= budget
    <3>1. e = Stop("budget_exceeded", FALSE)
      BY <1>4, <2>2 DEF EvaluationOf
    <3>2. n = budget \/ (n = 1 /\ budget = 0)
      BY <1>4a, <2>2
    <3>3. Contract!StepsNeeded(task[r]) = n
      BY <1>3, <1>5, <2>2, <3>2 DEF asks, Contract!StepsNeeded
    <3>4. budget <= size
      BY <3>2
    <3> QED BY <1>3, <1>5, <1>7, <2>2, <3>1, <3>3, <3>4
            DEF asks, Stop, Contract!Verdict
  <2>3. CASE ~asks /\ n < budget
    <3>1. ~(n >= budget)
      BY <1>1, <1>2, <1>3, <2>3
    <3>2. n >= size
      <4>1. ~(n >= size) => e = StepCompleted
        BY <1>4, <2>3, <3>1 DEF EvaluationOf
      <4> QED BY <1>4, <4>1 DEF StepCompleted
    <3>3. n = size
      BY <1>1, <1>2, <3>2
    <3>4. e = Stop("goal_achieved", TRUE)
      BY <1>4, <2>3, <3>1, <3>2 DEF EvaluationOf
    <3>5. Contract!StepsNeeded(task[r]) = n
      BY <1>1, <1>2, <1>3, <1>5, <2>3, <3>3 DEF asks, Contract!StepsNeeded
    <3> QED BY <1>1, <1>3, <1>5, <1>7, <2>3, <3>3, <3>4, <3>5
            DEF asks, Stop, Contract!Verdict
  <2> QED BY <1>1, <1>2, <1>3, <2>1, <2>2, <2>3
<1>9. library => ~(Contract!Supersteps(task[r]) > RecursionLimit)
  <2>1. library => 5 * n + 3 <= RecursionLimit
    BY <1>2 DEF IInv, RunInv, Counted
  <2> QED BY <1>2, <1>8, <2>1, LimitAssumption DEF Contract!Supersteps
<1> QED BY <1>8, <1>9 DEF Contract!Promise

\* Before it ends a run is "running", and a run that raised kept its promise.
LEMMA OtherOutcomes ==
    ASSUME IInv, NEW r \in Runs
    PROVE  /\ node[r] \in Nodes => OutcomeOf(r) = Contract!Running
           /\ node[r] = "idle" => OutcomeOf(r) = Contract!Idle
           /\ node[r] = "raised" => OutcomeOf(r) = Contract!Promise(task[r])
<1>1. node[r] = "raised" =>
        library /\ Contract!Supersteps(task[r]) > RecursionLimit
  BY DEF IInv, RunInv, Exhausted
<1> QED BY <1>1 DEF OutcomeOf, Nodes, Contract!Running, Contract!Idle,
           Contract!Raised, Contract!Promise

LEMMA EndedAsPromised ==
    IInv => \A r \in Runs : node[r] \in {"returned", "raised"} =>
                OutcomeOf(r) = Contract!Promise(task[r])
BY ReturnedVerdict, OtherOutcomes

LEMMA EndedAsPromisedNext ==
    IInv' => (\A r \in Runs : node[r] \in {"returned", "raised"} =>
                OutcomeOf(r) = Contract!Promise(task[r]))'
BY EndedAsPromised, PTL

\* A node either leaves the outcome of its run at "running" or ends the run
\* as promised.
LEMMA StepRefines ==
    ASSUME IInv, NEW r \in Runs, Step(r)
    PROVE  Contract!End(r) \/ UNCHANGED Contract!runVars
<1> DEFINE outcome == [q \in Runs |-> OutcomeOf(q)]
<1>1. IInv'
  BY StepIInv
<1>2. UNCHANGED <<library, task>> /\ node[r] \in Nodes
  BY DEF Step, LoadContext, RetrieveMemory, BuildPlan, ChooseAction,
     ExecuteAction, ObserveResult, EvaluateProgress, WriteMemory, LimitReached,
     Visit, inputVars, Nodes
<1>3. \A q \in Runs : q # r => OutcomeOf(q)' = OutcomeOf(q)
  BY OthersSame, Frame DEF IInv
<1>4. OutcomeOf(r) = Contract!Running
  BY <1>2, OtherOutcomes
<1>5. node'[r] \in Nodes \cup {"idle", "returned", "raised"}
  BY <1>1 DEF IInv, TypeOK
<1>6. node'[r] # "idle"
  BY DEF Step, LoadContext, RetrieveMemory, BuildPlan, ChooseAction,
     ExecuteAction, ObserveResult, EvaluateProgress, WriteMemory, LimitReached,
     Visit, NodeAfter, IInv, TypeOK
<1>7. CASE node'[r] \in Nodes
  <2>1. OutcomeOf(r)' = OutcomeOf(r)
    BY <1>2, <1>4, <1>7 DEF OutcomeOf, Nodes, Contract!Running
  <2> QED BY <1>2, <1>3, <2>1 DEF Contract!runVars
<1>8. CASE node'[r] \in {"returned", "raised"}
  <2>1. OutcomeOf(r)' = Contract!Promise(task[r])'
    BY <1>1, <1>8, EndedAsPromisedNext
  <2>2. Contract!Promise(task[r])' = Contract!Promise(task[r])
    BY <1>2 DEF Contract!Promise
  <2> QED BY <1>2, <1>3, <1>4, <2>1, <2>2 DEF Contract!End
<1> QED BY <1>5, <1>6, <1>7, <1>8

LEMMA BeginRefines ==
    ASSUME IInv, NEW r \in Runs, NEW t \in Tasks, Begin(r, t)
    PROVE  Contract!Begin(r, t)
<1>1. /\ node[r] = "idle" /\ node'[r] = "load_context"
      /\ task' = [task EXCEPT ![r] = t] /\ library' = library
  BY DEF Begin, IInv, TypeOK
<1>2. \A q \in Runs : q # r => OutcomeOf(q)' = OutcomeOf(q)
  BY OthersSame, Frame DEF IInv
<1>3. OutcomeOf(r) = Contract!Idle /\ OutcomeOf(r)' = Contract!Running
  BY <1>1 DEF OutcomeOf, Contract!Idle, Contract!Running
<1> QED BY <1>1, <1>2, <1>3 DEF Contract!Begin

\* The reasoning loop implements the contract of a run, its safety part: a
\* run begins, and ends once, with the verdict and the steps its input
\* determines (run_agent and the functions it calls).
THEOREM LoopImplementsRun == SafetySpec => Contract!SafetySpec
<1>1. Init => Contract!Init
  BY DEF Init, Contract!Init, Contract!NoTask, Contract!Idle, OutcomeOf
<1>2. IInv /\ [Next]_loopVars => [Contract!Next]_(Contract!runVars)
  <2> SUFFICES ASSUME IInv, [Next]_loopVars
               PROVE  Contract!Next \/ UNCHANGED Contract!runVars
    BY Zenon
  <2>1. ASSUME NEW r \in Runs, Step(r)
        PROVE  Contract!Next \/ UNCHANGED Contract!runVars
    BY <2>1, StepRefines DEF Contract!Next
  <2>2. ASSUME NEW r \in Runs, NEW t \in Tasks, Begin(r, t)
        PROVE  Contract!Next
    <3>1. t \in Contract!Tasks
      BY DEF Tasks, Roles, Intents, Contract!Tasks, Contract!Roles,
         Contract!Intents
    <3> QED BY <2>2, <3>1, BeginRefines DEF Contract!Next
  <2>3. CASE UNCHANGED loopVars
    BY <2>3 DEF loopVars, Contract!runVars, OutcomeOf
  <2> QED BY <2>1, <2>2, <2>3 DEF Next
<1> QED BY <1>1, <1>2, Invariance, PTL DEF SafetySpec, Contract!SafetySpec

===========================================================================
