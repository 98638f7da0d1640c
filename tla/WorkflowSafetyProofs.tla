------------------------ MODULE WorkflowSafetyProofs ------------------------
(***************************************************************************)
(* The safety of the DAG walker, for every value of the constants: what is *)
(* sent to the agent runtime, when, and how often; what a pause waits for; *)
(* and what the verdict "completed" means.                                 *)
(*                                                                         *)
(* An execution has at most one walk (SingleWalker), so one predicate on   *)
(* an execution, its walk, its steps and what was sent for it states the   *)
(* invariant, and each action is a lemma about that predicate.             *)
(***************************************************************************)
EXTENDS WorkflowEngineProofs, FiniteSetTheorems

\* The identifiers of a list of steps.
Names(steps) == {steps[i].step_id : i \in DOMAIN steps}

\* The walk is awaiting the agent runtime for step s.
Awaits(walk, steps, s) ==
    /\ walk.pc = "posting"
    /\ \E i \in walk.ready :
          (\A j \in walk.ready : i <= j) /\ steps[i].step_id = s

\* The local sets of the walk are those of the results; the rest of its batch
\* has no results yet and nothing left to wait for; the gate the execution was
\* last paused at, if any, has its result.
Follows(walk, x, steps) ==
    LET results == x.step_results IN
    /\ walk.pc \in {"walking", "posting", "finishing"} =>
          walk.completed = CompletedIn(results) /\ walk.failed = FailedIn(results)
    /\ walk.pc \in {"walking", "posting"} =>
          /\ \A i \in walk.ready :
                /\ results[steps[i].step_id] = "none"
                /\ steps[i].depends_on \subseteq CompletedIn(results)
          /\ \A i \in DOMAIN steps :
                steps[i].requires_approval /\ steps[i].step_id = x.current_step =>
                    results[steps[i].step_id] # "none"

\* No walk is left, and none will be: the execution is not paused.
Lost(walk, x) == walk.pc = "idle" /\ x.status \in {"running", "failed"}

\* Only ungated steps were sent, each once and after its dependencies; the one
\* without a result is that the walk awaits, or awaited when it was lost.
SentRightly(walk, x, steps, sent) ==
    /\ \A i \in DOMAIN steps :
          sent[steps[i].step_id] > 0 =>
              /\ ~steps[i].requires_approval
              /\ steps[i].depends_on \subseteq CompletedIn(x.step_results)
    /\ \A s \in StepIds :
          /\ sent[s] <= 1
          /\ sent[s] > 0 =>
                \/ x.step_results[s] # "none"
                \/ Awaits(walk, steps, s)
                \/ Lost(walk, x) /\ s = x.current_step
          /\ Awaits(walk, steps, s) => sent[s] > 0

\* The execution is paused at a gate that is still closed, and an approval of
\* that gate was asked for.
AtGate(x, steps, asked) ==
    /\ x.current_step \in asked
    /\ x.step_results[x.current_step] = "none"
    /\ \E i \in DOMAIN steps :
          /\ steps[i].step_id = x.current_step
          /\ steps[i].requires_approval
          /\ steps[i].depends_on \subseteq CompletedIn(x.step_results)

\* A walk awaits the step the execution is at, which was sent.  So the execution
\* stands there when an answer that cannot be read ends the walk, and a result
\* that says nothing is only in executions whose walk ended so.
Strands(walk, x, steps, sent) ==
    /\ walk.pc = "posting" => Awaits(walk, steps, x.current_step) /\ sent[x.current_step] > 0
    /\ walk.pc = "idle" /\ x.status = "running" =>
          /\ x.current_step \in StepIds
          /\ sent[x.current_step] > 0
          /\ UniqueIds(steps) => x.step_results[x.current_step] \in {"none", "unreadable"}
    /\ \A s \in StepIds : x.step_results[s] = "unreadable" => Lost(walk, x)

\* What holds with repeated step identifiers too: a running execution has not
\* reached its pause or its verdict, results belong to steps of the workflow,
\* and a walk without failures counts only steps that are done.
Accounted(walk, x, steps) ==
    LET results == x.step_results IN
    /\ x.status = "running" => walk.pc \in {"walking", "posting", "idle"}
    /\ x.current_step \in Names(steps) \cup {NoStep}
    /\ \A s \in StepIds : results[s] # "none" => s \in Names(steps)
    /\ walk.pc \in {"walking", "posting"} =>
          /\ x.status \notin {"completed", "paused"}
          /\ walk.completed \subseteq Names(steps)
          /\ walk.failed = {} => walk.completed \subseteq CompletedIn(results)
    /\ x.status = "completed" => Names(steps) \subseteq CompletedIn(results)

\* Without cancel_workflow the status tells the phase of the walk.
PhaseIsStatus(walk, x) ==
    Cancellers = {} =>
        /\ walk.pc \in {"walking", "posting"} => x.status = "running"
        /\ walk.pc \in {"advancing", "pausing"} => x.status = "paused"

Consistent(walk, x, steps, sent, asked) ==
    /\ Accounted(walk, x, steps)
    /\ PhaseIsStatus(walk, x)
    /\ Strands(walk, x, steps, sent)
    /\ UniqueIds(steps) =>
          /\ Follows(walk, x, steps)
          /\ SentRightly(walk, x, steps, sent)
          /\ x.status = "paused" => AtGate(x, steps, asked)

\* The steps for which an approval was ever created.
AskedFor == {approvals[a].task_id : a \in ApprovalIds} \ {NoStep}

\* Each execution is consistent with its walk, or with having none.
AllConsistent ==
    \A e \in Existing :
        \/ \E r \in Requests :
              /\ walks[r].pc # "idle"
              /\ walks[r].execution = e
              /\ Consistent(walks[r], executions[e], Steps(e), posted[e], AskedFor)
        \/ /\ WalksOn(e) = {}
           /\ Consistent(NoWalk, executions[e], Steps(e), posted[e], AskedFor)

NothingSentBefore ==
    \A e \in ExecutionIds \ Existing : \A s \in StepIds : posted[e][s] = 0

\* An identifier that no approval has yet is not about any step.
UnusedApprovals ==
    \A a \in ApprovalIds : approvals[a].status = "absent" => approvals[a].task_id = NoStep

\* The inductive invariant of the walker, on top of IInv.
WInv ==
    /\ AllConsistent
    /\ NothingSentBefore
    /\ UnusedApprovals

-----------------------------------------------------------------------------
(* The sets derived from the results.                                      *)

LEMMA ResultAdded ==
    ASSUME NEW results \in [StepIds -> Result], NEW s \in StepIds, results[s] = "none",
           NEW o \in Outcome \cup {"approved"}
    PROVE  LET after == [results EXCEPT ![s] = o] IN
           /\ CompletedIn(after) = CompletedIn(results) \cup IF o = "failed" THEN {} ELSE {s}
           /\ FailedIn(after) = FailedIn(results) \cup IF o = "failed" THEN {s} ELSE {}
           /\ s \notin CompletedIn(results) \cup FailedIn(results)
BY DEF CompletedIn, FailedIn, Result, Outcome

LEMMA StepTypes ==
    ASSUME NEW steps \in Seq(Step), NEW i \in DOMAIN steps
    PROVE  /\ steps[i].step_id \in StepIds
           /\ steps[i].depends_on \in SUBSET StepIds
           /\ steps[i].requires_approval \in BOOLEAN
<1>1. steps[i] \in Step
  OBVIOUS
<1>2. QED BY <1>1 DEF Step

\* As many completed steps as there are steps: all of them.
LEMMA AllNames ==
    ASSUME NEW steps \in Seq(Step), NEW completed \in SUBSET Names(steps)
    PROVE  /\ IsFiniteSet(completed)
           /\ Cardinality(completed) = Len(steps) => completed = Names(steps)
<1> DEFINE f == [i \in 1..Len(steps) |-> steps[i].step_id]
<1>1. Len(steps) \in Nat /\ DOMAIN steps = 1..Len(steps)
  OBVIOUS
<1>2. f \in Surjection(1..Len(steps), Names(steps))
  BY <1>1 DEF Surjection, Names
<1>3. IsFiniteSet(1..Len(steps)) /\ Cardinality(1..Len(steps)) = Len(steps)
  BY <1>1, FS_Interval
<1>4. IsFiniteSet(Names(steps)) /\ Cardinality(Names(steps)) <= Len(steps)
  BY <1>2, <1>3, FS_Surjection
<1>5. /\ IsFiniteSet(completed)
      /\ Cardinality(completed) <= Cardinality(Names(steps))
      /\ Cardinality(Names(steps)) = Cardinality(completed) => completed = Names(steps)
  BY <1>4, FS_Subset
<1>6. Cardinality(completed) \in Nat /\ Cardinality(Names(steps)) \in Nat
  BY <1>4, <1>5, FS_CardinalityType
<1>7. QED BY <1>1, <1>4, <1>5, <1>6

-----------------------------------------------------------------------------
(* Consistency through each piece of the code.                             *)

LEMMA ExecuteConsistent ==
    ASSUME NEW e, NEW w, NEW steps \in Seq(Step), NEW asked,
           NEW sent, \A s \in StepIds : sent[s] = 0
    PROVE  Consistent(NewWalk("walking", e), NewExecution(w), steps, sent, asked)
<1> DEFINE walk == NewWalk("walking", e)
           x == NewExecution(w)
<1>1. /\ walk.pc = "walking" /\ walk.completed = {} /\ walk.failed = {} /\ walk.ready = {}
      /\ x.status = "running" /\ x.current_step = NoStep
      /\ \A s \in StepIds : x.step_results[s] = "none"
      /\ CompletedIn(x.step_results) = {} /\ FailedIn(x.step_results) = {}
  BY DEF NewWalk, NewExecution, NoResults, CompletedIn, FailedIn
<1>2. \A i \in DOMAIN steps : steps[i].step_id \in StepIds
  BY StepTypes
<1> HIDE DEF walk, x
<1>3. Accounted(walk, x, steps) /\ PhaseIsStatus(walk, x)
  BY <1>1 DEF Accounted, PhaseIsStatus
<1>4. Follows(walk, x, steps)
  BY <1>1, <1>2, ApprovalConstants DEF Follows
<1>5. SentRightly(walk, x, steps, sent)
  BY <1>1, <1>2 DEF SentRightly, Awaits
<1>6. Strands(walk, x, steps, sent)
  BY <1>1 DEF Strands
<1>7. QED BY <1>1, <1>3, <1>4, <1>5, <1>6 DEF Consistent, walk, x

LEMMA NextBatchConsistent ==
    ASSUME NEW walk \in Walk, NEW x \in Execution, NEW steps \in Seq(Step), NEW sent, NEW asked,
           Consistent(walk, x, steps, sent, asked),
           walk.pc = "walking"
    PROVE  Consistent([walk EXCEPT !.ready = ReadySteps(steps, walk.completed, walk.failed)],
                      x, steps, sent, asked)
<1> DEFINE batch == ReadySteps(steps, walk.completed, walk.failed)
           after == [walk EXCEPT !.ready = batch]
<1>1. /\ after.pc = "walking" /\ after.completed = walk.completed
      /\ after.failed = walk.failed /\ after.ready = batch
  BY DEF Walk
<1>2. \A i \in DOMAIN steps : steps[i].step_id \in StepIds
  BY StepTypes
<1>3. x.step_results \in [StepIds -> Result]
  BY DEF Execution
<1> HIDE DEF after
<1>4. Accounted(after, x, steps) /\ PhaseIsStatus(after, x)
  BY <1>1 DEF Consistent, Accounted, PhaseIsStatus
<1>5. ASSUME UniqueIds(steps) PROVE Follows(after, x, steps)
  <2>1. Follows(walk, x, steps)
    BY <1>5 DEF Consistent
  <2>2. \A i \in batch : /\ x.step_results[steps[i].step_id] = "none"
                         /\ steps[i].depends_on \subseteq CompletedIn(x.step_results)
    BY <2>1, <1>2, <1>3 DEF Follows, ReadySteps, CompletedIn, FailedIn
  <2>3. QED BY <2>1, <2>2, <1>1 DEF Follows
<1>6. ASSUME UniqueIds(steps) PROVE SentRightly(after, x, steps, sent)
  BY <1>1, <1>6 DEF Consistent, SentRightly, Awaits, Lost
<1>7. Strands(after, x, steps, sent)
  BY <1>1 DEF Consistent, Strands, Lost
<1>8. QED BY <1>4, <1>5, <1>6, <1>7 DEF Consistent, after

LEMMA GateConsistent ==
    ASSUME NEW walk \in Walk, NEW x \in Execution, NEW steps \in Seq(Step), NEW sent, NEW asked,
           Consistent(walk, x, steps, sent, asked),
           walk.pc = "walking", walk.ready \subseteq DOMAIN steps,
           NEW i \in walk.ready, steps[i].requires_approval
    PROVE  Consistent([walk EXCEPT !.pc = "pausing"], PausedAt(x, steps[i].step_id), steps,
                      sent, asked \cup {steps[i].step_id})
<1> DEFINE s == steps[i].step_id
           after == [walk EXCEPT !.pc = "pausing"]
           y == PausedAt(x, s)
<1>1. /\ after.pc = "pausing"
      /\ y.status = "paused" /\ y.current_step = s /\ y.step_results = x.step_results
  BY DEF Walk, PausedAt
<1>2. s \in Names(steps)
  BY DEF Names
<1> HIDE DEF after, y
<1>3. Accounted(after, y, steps) /\ PhaseIsStatus(after, y)
  BY <1>1, <1>2 DEF Consistent, Accounted, PhaseIsStatus
<1>4. ASSUME UniqueIds(steps) PROVE Follows(after, y, steps)
  BY <1>1 DEF Follows
<1>5. ASSUME UniqueIds(steps) PROVE SentRightly(after, y, steps, sent)
  BY <1>1, <1>5 DEF Consistent, SentRightly, Awaits, Lost
<1>6. ASSUME UniqueIds(steps) PROVE AtGate(y, steps, asked \cup {s})
  BY <1>1, <1>6 DEF Consistent, Follows, AtGate
<1>7. Strands(after, y, steps, sent)
  BY <1>1 DEF Consistent, Strands, Lost
<1>8. QED BY <1>3, <1>4, <1>5, <1>6, <1>7 DEF Consistent, after, y

LEMMA PostConsistent ==
    ASSUME NEW walk \in Walk, NEW x \in Execution, NEW steps \in Seq(Step),
           NEW sent \in [StepIds -> 0..2], NEW asked,
           Consistent(walk, x, steps, sent, asked),
           walk.pc = "walking", walk.ready \subseteq DOMAIN steps,
           NEW i \in walk.ready, \A j \in walk.ready : i <= j, ~steps[i].requires_approval,
           NEW s, s = steps[i].step_id,
           NEW sending, sent[s] = 0 => sending[s] = 1, sending[s] > 0,
           \A z \in StepIds \ {s} : sending[z] = sent[z]
    PROVE  Consistent([walk EXCEPT !.pc = "posting"], [x EXCEPT !.current_step = s], steps,
                      sending, asked)
<1> DEFINE after == [walk EXCEPT !.pc = "posting"]
           y == [x EXCEPT !.current_step = s]
<1>1. /\ after.pc = "posting" /\ after.ready = walk.ready
      /\ after.completed = walk.completed /\ after.failed = walk.failed
      /\ y.status = x.status /\ y.current_step = s /\ y.step_results = x.step_results
  BY DEF Walk, Execution
<1>2. s \in Names(steps) /\ s \in StepIds
  BY StepTypes DEF Names
<1> HIDE DEF after, y
<1>3. Accounted(after, y, steps) /\ PhaseIsStatus(after, y)
  BY <1>1, <1>2 DEF Consistent, Accounted, PhaseIsStatus
<1>4. ASSUME UniqueIds(steps) PROVE Follows(after, y, steps)
  BY <1>1, <1>4 DEF Consistent, Follows, UniqueIds
<1>5. ASSUME UniqueIds(steps) PROVE SentRightly(after, y, steps, sending)
  <2>1. Follows(walk, x, steps) /\ SentRightly(walk, x, steps, sent)
    BY <1>5 DEF Consistent
  <2>2. /\ x.step_results[s] = "none"
        /\ steps[i].depends_on \subseteq CompletedIn(x.step_results)
    BY <2>1 DEF Follows
  <2>3. sent[s] = 0
    BY <2>1, <2>2, <1>2 DEF SentRightly, Awaits, Lost
  <2>4. \A z \in StepIds : Awaits(after, steps, z) <=> z = s
    <3> SUFFICES ASSUME NEW j \in walk.ready, \A k \in walk.ready : j <= k
                 PROVE  j = i
      BY <1>1, <1>2 DEF Awaits
    <3>1. i <= j /\ j <= i /\ i \in Nat /\ j \in Nat
      BY DEF Walk
    <3>2. QED BY <3>1
  <2>5. \A z \in StepIds : ~Awaits(walk, steps, z)
    BY DEF Awaits
  <2>6. ASSUME NEW z \in StepIds
        PROVE  /\ sending[z] <= 1
               /\ sending[z] > 0 => \/ y.step_results[z] # "none"
                                    \/ Awaits(after, steps, z)
                                    \/ Lost(after, y) /\ z = y.current_step
               /\ Awaits(after, steps, z) => sending[z] > 0
    <3>1. CASE z = s
      BY <3>1, <2>3, <2>4
    <3>2. CASE z # s
      BY <3>2, <2>1, <2>4, <2>5, <1>1 DEF SentRightly, Lost
    <3>3. QED BY <3>1, <3>2
  <2>7. ASSUME NEW j \in DOMAIN steps, sending[steps[j].step_id] > 0
        PROVE  ~steps[j].requires_approval /\ steps[j].depends_on \subseteq CompletedIn(y.step_results)
    <3>1. CASE steps[j].step_id = s
      BY <3>1, <1>1, <1>5, <2>2 DEF UniqueIds
    <3>2. CASE steps[j].step_id # s
      <4>1. steps[j].step_id \in StepIds
        BY StepTypes
      <4>2. sent[steps[j].step_id] > 0
        BY <3>2, <4>1, <2>7
      <4>3. QED BY <4>2, <2>1, <1>1 DEF SentRightly
    <3>3. QED BY <3>1, <3>2
  <2>8. QED BY <2>6, <2>7 DEF SentRightly
<1>6. ASSUME UniqueIds(steps), y.status = "paused" PROVE FALSE
  BY <1>1, <1>6 DEF Consistent, Accounted
<1>7. Strands(after, y, steps, sending)
  BY <1>1 DEF Consistent, Strands, Lost, Awaits
<1>8. QED BY <1>3, <1>4, <1>5, <1>6, <1>7 DEF Consistent, after, y

LEMMA AnswerConsistent ==
    ASSUME NEW walk \in Walk, NEW x \in Execution, NEW steps \in Seq(Step), NEW sent, NEW asked,
           Consistent(walk, x, steps, sent, asked),
           walk.pc = "posting", walk.ready \subseteq DOMAIN steps,
           NEW i \in walk.ready, \A j \in walk.ready : i <= j,
           NEW s, s = steps[i].step_id, NEW o \in Outcome
    PROVE  Consistent(IF o = "failed" THEN Recorded(walk, i, {}, {s})
                                      ELSE Recorded(walk, i, {s}, {}),
                      [x EXCEPT !.step_results[s] = o], steps, sent, asked)
<1> DEFINE after == IF o = "failed" THEN Recorded(walk, i, {}, {s})
                                    ELSE Recorded(walk, i, {s}, {})
           y == [x EXCEPT !.step_results[s] = o]
           results == x.step_results
           new == [results EXCEPT ![s] = o]
<1>1. /\ after.pc = "walking" /\ after.ready = walk.ready \ {i}
      /\ after.completed = walk.completed \cup IF o = "failed" THEN {} ELSE {s}
      /\ after.failed = walk.failed \cup IF o = "failed" THEN {s} ELSE {}
      /\ walk.completed \in SUBSET StepIds
  BY DEF Recorded, Walk
<1>2. /\ y.status = x.status /\ y.current_step = x.current_step /\ y.step_results = new
      /\ results \in [StepIds -> Result]
  BY DEF Execution
<1>3. s \in Names(steps) /\ s \in StepIds /\ i \in DOMAIN steps
  BY StepTypes DEF Names
<1>4. /\ new \in [StepIds -> Result] /\ new[s] = o /\ o # "none"
      /\ \A z \in StepIds \ {s} : new[z] = results[z]
  BY <1>2, <1>3 DEF Result, Outcome
<1> HIDE DEF after, y, new
<1>5. Accounted(after, y, steps)
  <2>1. Accounted(walk, x, steps)
    BY DEF Consistent
  <2>2. x.status \notin {"completed", "paused"} /\ walk.completed \subseteq Names(steps)
    BY <2>1 DEF Accounted
  <2>3. \A z \in StepIds : new[z] # "none" => z \in Names(steps)
    BY <2>1, <1>3, <1>4 DEF Accounted
  <2>4. after.failed = {} => after.completed \subseteq CompletedIn(new)
    BY <2>1, <1>1, <1>3, <1>4 DEF Accounted, CompletedIn
  <2>5. QED BY <2>1, <2>2, <2>3, <2>4, <1>1, <1>2, <1>3 DEF Accounted
<1>6. PhaseIsStatus(after, y)
  BY <1>1, <1>2 DEF Consistent, PhaseIsStatus
<1>7. ASSUME UniqueIds(steps)
      PROVE  Follows(after, y, steps) /\ SentRightly(after, y, steps, sent)
  <2>1. Follows(walk, x, steps) /\ SentRightly(walk, x, steps, sent)
    BY <1>7 DEF Consistent
  <2>2. results[s] = "none"
    BY <2>1 DEF Follows
  <2>3. /\ CompletedIn(new) = CompletedIn(results) \cup IF o = "failed" THEN {} ELSE {s}
        /\ FailedIn(new) = FailedIn(results) \cup IF o = "failed" THEN {s} ELSE {}
    BY <2>2, <1>2, <1>3, ResultAdded DEF new
  <2>4. after.completed = CompletedIn(new) /\ after.failed = FailedIn(new)
    BY <2>1, <2>3, <1>1 DEF Follows
  <2>5. \A j \in walk.ready \ {i} : steps[j].step_id \in StepIds \ {s}
    BY <1>3, <1>7, StepTypes DEF UniqueIds
  <2>6. \A j \in after.ready :
            /\ new[steps[j].step_id] = "none"
            /\ steps[j].depends_on \subseteq CompletedIn(new)
    BY <2>1, <2>3, <2>5, <1>1, <1>4 DEF Follows
  <2>7. \A j \in DOMAIN steps : steps[j].step_id \in StepIds
    BY StepTypes
  <2>8. \A j \in DOMAIN steps :
            steps[j].requires_approval /\ steps[j].step_id = y.current_step =>
                new[steps[j].step_id] # "none"
    BY <2>1, <2>7, <1>2, <1>4 DEF Follows
  <2>9. Follows(after, y, steps)
    BY <2>4, <2>6, <2>8, <1>2 DEF Follows
  <2>10. \A z \in StepIds : Awaits(walk, steps, z) => z = s
    <3> SUFFICES ASSUME NEW z \in StepIds, NEW j \in walk.ready,
                        \A k \in walk.ready : j <= k, steps[j].step_id = z
                 PROVE  z = s
      BY DEF Awaits
    <3>1. i <= j /\ j <= i /\ i \in Nat /\ j \in Nat
      BY DEF Walk
    <3>2. i = j
      BY <3>1
    <3>3. QED BY <3>2
  <2>11. \A z \in StepIds : sent[z] > 0 => new[z] # "none"
    BY <2>1, <2>10, <1>4 DEF SentRightly, Lost
  <2>12. SentRightly(after, y, steps, sent)
    BY <2>1, <2>3, <2>11, <1>1, <1>2 DEF SentRightly, Awaits
  <2>13. QED BY <2>9, <2>12
<1>8. y.status # "paused"
  BY <1>2 DEF Consistent, Accounted
<1>9. Strands(after, y, steps, sent)
  BY <1>1, <1>2, <1>3, <1>4 DEF Consistent, Strands, Lost, Outcome
<1>10. QED BY <1>5, <1>6, <1>7, <1>8, <1>9 DEF Consistent, after, y

LEMMA VerdictConsistent ==
    ASSUME NEW walk \in Walk, NEW x \in Execution, NEW steps \in Seq(Step), NEW sent, NEW asked,
           Consistent(walk, x, steps, sent, asked),
           walk.pc = "walking"
    PROVE  Consistent([walk EXCEPT !.pc = "finishing"],
                      [x EXCEPT !.status = FinalStatus(steps, walk.completed, walk.failed)],
                      steps, sent, asked)
<1> DEFINE after == [walk EXCEPT !.pc = "finishing"]
           y == [x EXCEPT !.status = FinalStatus(steps, walk.completed, walk.failed)]
<1>1. /\ after.pc = "finishing" /\ after.completed = walk.completed
      /\ after.failed = walk.failed
      /\ y.status = FinalStatus(steps, walk.completed, walk.failed)
      /\ y.current_step = x.current_step /\ y.step_results = x.step_results
  BY DEF Walk, Execution
<1> HIDE DEF after, y
<1>2. Accounted(walk, x, steps)
  BY DEF Consistent
<1>3. y.status \in {"completed", "failed"}
  BY <1>1 DEF FinalStatus
<1>4. ASSUME y.status = "completed" PROVE Names(steps) \subseteq CompletedIn(x.step_results)
  <2>1. walk.failed = {} /\ Cardinality(walk.completed) = Len(steps)
    BY <1>1, <1>4 DEF FinalStatus
  <2>2. walk.completed \in SUBSET Names(steps)
    BY <1>2 DEF Accounted
  <2>3. walk.completed = Names(steps)
    BY <2>1, <2>2, AllNames
  <2>4. QED BY <2>1, <2>3, <1>2 DEF Accounted
<1>5. Accounted(after, y, steps) /\ PhaseIsStatus(after, y)
  BY <1>1, <1>2, <1>3, <1>4 DEF Accounted, PhaseIsStatus
<1>6. UniqueIds(steps) => Follows(after, y, steps)
  BY <1>1 DEF Consistent, Follows
<1>7. UniqueIds(steps) => SentRightly(after, y, steps, sent)
  BY <1>1 DEF Consistent, SentRightly, Awaits, Lost
<1>8. Strands(after, y, steps, sent)
  BY <1>1 DEF Consistent, Strands, Lost
<1>9. QED BY <1>3, <1>5, <1>6, <1>7, <1>8 DEF Consistent, after, y

LEMMA AdvanceBeginConsistent ==
    ASSUME NEW e, NEW x, NEW steps, NEW sent, NEW asked,
           Consistent(NoWalk, x, steps, sent, asked), x.status = "paused"
    PROVE  Consistent(NewWalk("advancing", e), x, steps, sent, asked)
<1> DEFINE walk == NewWalk("advancing", e)
<1>1. walk.pc = "advancing" /\ NoWalk.pc = "idle"
  BY DEF NewWalk, NoWalk
<1> HIDE DEF walk
<1>2. Accounted(walk, x, steps) /\ PhaseIsStatus(walk, x)
  BY <1>1 DEF Consistent, Accounted, PhaseIsStatus
<1>3. UniqueIds(steps) => Follows(walk, x, steps) /\ SentRightly(walk, x, steps, sent)
  BY <1>1 DEF Consistent, Follows, SentRightly, Awaits, Lost
<1>4. Strands(walk, x, steps, sent)
  BY <1>1 DEF Consistent, Strands, Lost
<1>5. QED BY <1>2, <1>3, <1>4 DEF Consistent, walk

LEMMA AdvanceResumeConsistent ==
    ASSUME NEW walk \in Walk, NEW x \in Execution, NEW steps \in Seq(Step), NEW sent, NEW asked,
           Consistent(walk, x, steps, sent, asked),
           walk.pc = "advancing", NEW e,
           NEW results, results = ApprovedResults(x.step_results, x.current_step)
    PROVE  Consistent([pc |-> "walking", execution |-> e, ready |-> {},
                       completed |-> CompletedIn(results), failed |-> FailedIn(results)],
                      ResumedWith(x, results), steps, sent, asked)
<1> DEFINE after == [pc |-> "walking", execution |-> e, ready |-> {},
                     completed |-> CompletedIn(results), failed |-> FailedIn(results)]
           y == ResumedWith(x, results)
           s == x.current_step
           old == x.step_results
<1>1. /\ after.pc = "walking" /\ after.ready = {}
      /\ after.completed = CompletedIn(results) /\ after.failed = FailedIn(results)
      /\ y.status = "running" /\ y.current_step = s /\ y.step_results = results
  BY DEF ResumedWith
<1>2. old \in [StepIds -> Result] /\ s \in StepIds \cup {NoStep}
  BY DEF Execution
<1>3. Accounted(walk, x, steps)
  BY DEF Consistent
<1>4. /\ results \in [StepIds -> Result]
      /\ \A z \in StepIds \ {s} : results[z] = old[z]
      /\ s \in StepIds => results[s] # "none"
      /\ \A z \in StepIds : old[z] # "none" => results[z] = old[z]
  BY <1>2, ApprovalConstants DEF ApprovedResults, Result
<1>5. CompletedIn(old) \subseteq CompletedIn(results)
  BY <1>4 DEF CompletedIn
<1>6. \A z \in StepIds : results[z] # "none" => z \in Names(steps)
  BY <1>3, <1>4, ApprovalConstants DEF Accounted
<1> HIDE DEF after, y
<1>7. Accounted(after, y, steps) /\ PhaseIsStatus(after, y)
  <2>1. CompletedIn(results) \subseteq Names(steps)
    BY <1>6 DEF CompletedIn
  <2>2. QED BY <2>1, <1>1, <1>3, <1>6 DEF Accounted, PhaseIsStatus
<1>8. Follows(after, y, steps)
  <2>1. \A i \in DOMAIN steps : steps[i].step_id \in StepIds
    BY StepTypes
  <2>2. QED BY <2>1, <1>1, <1>4 DEF Follows
<1>9. ASSUME UniqueIds(steps) PROVE SentRightly(after, y, steps, sent)
  <2>1. SentRightly(walk, x, steps, sent)
    BY <1>9 DEF Consistent
  <2>2. \A z \in StepIds : ~Awaits(walk, steps, z)
    BY DEF Awaits
  <2>3. \A z \in StepIds : sent[z] > 0 => results[z] # "none"
    BY <2>1, <2>2, <1>4 DEF SentRightly, Lost
  <2>4. QED BY <2>1, <2>3, <1>1, <1>5 DEF SentRightly, Awaits
<1>10. Strands(after, y, steps, sent)
  <2>1. \A z \in StepIds : old[z] # "unreadable"
    BY DEF Consistent, Strands, Lost
  <2>2. \A z \in StepIds : results[z] # "unreadable"
    BY <2>1, <1>2 DEF ApprovedResults
  <2>3. QED BY <2>2, <1>1 DEF Strands
<1>11. QED BY <1>1, <1>7, <1>8, <1>9, <1>10 DEF Consistent, after, y

\* cancel_workflow writes a status that promises nothing.
LEMMA CancelConsistent ==
    ASSUME NEW walk, NEW x \in Execution, NEW steps, NEW sent, NEW asked,
           Consistent(walk, x, steps, sent, asked), Cancellers # {}
    PROVE  Consistent(walk, [x EXCEPT !.status = "failed"], steps, sent, asked)
<1> DEFINE y == [x EXCEPT !.status = "failed"]
<1>1. /\ y.status = "failed" /\ y.current_step = x.current_step
      /\ y.step_results = x.step_results
  BY DEF Execution
<1> HIDE DEF y
<1>2. Accounted(walk, y, steps) /\ PhaseIsStatus(walk, y)
  BY <1>1 DEF Consistent, Accounted, PhaseIsStatus
<1>3. UniqueIds(steps) => Follows(walk, y, steps) /\ SentRightly(walk, y, steps, sent)
  BY <1>1 DEF Consistent, Follows, SentRightly, Lost
<1>4. Strands(walk, y, steps, sent)
  BY <1>1 DEF Consistent, Strands, Lost
<1>5. QED BY <1>1, <1>2, <1>3, <1>4 DEF Consistent, y

\* The request of a walk that paused or ended returns.
LEMMA ReturnConsistent ==
    ASSUME NEW walk, NEW x, NEW steps, NEW sent, NEW asked,
           Consistent(walk, x, steps, sent, asked), walk.pc \in {"pausing", "finishing"}
    PROVE  Consistent(NoWalk, x, steps, sent, asked)
<1>1. NoWalk.pc = "idle"
  BY DEF NewWalk, NoWalk
<1>2. Accounted(NoWalk, x, steps) /\ PhaseIsStatus(NoWalk, x)
  BY <1>1 DEF Consistent, Accounted, PhaseIsStatus
<1>3. UniqueIds(steps) => Follows(NoWalk, x, steps) /\ SentRightly(NoWalk, x, steps, sent)
  BY <1>1 DEF Consistent, Follows, SentRightly, Awaits, Lost
<1>4. Strands(NoWalk, x, steps, sent)
  BY <1>1 DEF Consistent, Accounted, Strands, Lost
<1>5. QED BY <1>2, <1>3, <1>4 DEF Consistent

\* The walk ends at an answer it cannot read, recorded or not.
LEMMA LostConsistent ==
    ASSUME NEW walk \in Walk, NEW x \in Execution, NEW steps \in Seq(Step), NEW sent, NEW asked,
           Consistent(walk, x, steps, sent, asked),
           walk.pc = "posting", walk.ready \subseteq DOMAIN steps, x.status # "absent",
           NEW y,
           \/ y = x
           \/ \E i \in walk.ready :
                 /\ \A j \in walk.ready : i <= j
                 /\ y = [x EXCEPT !.step_results[steps[i].step_id] = "unreadable"]
    PROVE  Consistent(NoWalk, y, steps, sent, asked)
<1> DEFINE results == x.step_results
           new == y.step_results
           s == x.current_step
<1>1. NoWalk.pc = "idle"
  BY DEF NewWalk, NoWalk
<1>2. Awaits(walk, steps, s) /\ sent[s] > 0 /\ \A z \in StepIds : results[z] # "unreadable"
  BY DEF Consistent, Strands, Lost
<1>3. PICK i \in walk.ready : (\A j \in walk.ready : i <= j) /\ steps[i].step_id = s
  BY <1>2 DEF Awaits
<1>4. \A j \in walk.ready : (\A k \in walk.ready : j <= k) => j = i
  BY <1>3 DEF Walk
<1>5. s \in StepIds /\ s \in Names(steps) /\ results \in [StepIds -> Result]
  BY <1>3, StepTypes DEF Names, Execution
<1>6. /\ y.status = x.status /\ y.current_step = s
      /\ new[s] = results[s] \/ new[s] = "unreadable"
      /\ \A z \in StepIds \ {s} : new[z] = results[z]
  BY <1>3, <1>4, <1>5 DEF Execution
<1>7. x.status \in {"running", "failed"}
  BY DEF Consistent, Accounted, Execution, ExecutionState, WorkflowState
<1> HIDE DEF new
<1>8. Accounted(NoWalk, y, steps) /\ PhaseIsStatus(NoWalk, y)
  BY <1>1, <1>5, <1>6, <1>7 DEF Consistent, Accounted, PhaseIsStatus, new
<1>9. ASSUME UniqueIds(steps)
      PROVE  Follows(NoWalk, y, steps) /\ SentRightly(NoWalk, y, steps, sent)
  <2>1. SentRightly(walk, x, steps, sent) /\ results[s] = "none"
    BY <1>3, <1>9 DEF Consistent, Follows
  <2>2. CompletedIn(results) \subseteq CompletedIn(new)
    BY <2>1, <1>6 DEF CompletedIn
  <2>3. \A z \in StepIds : Awaits(walk, steps, z) => z = s
    BY <1>3, <1>4 DEF Awaits
  <2>4. \A z \in StepIds : sent[z] > 0 => z = s \/ new[z] # "none"
    BY <2>1, <2>3, <1>6 DEF SentRightly, Lost
  <2>5. Follows(NoWalk, y, steps)
    BY <1>1 DEF Follows
  <2>6. QED BY <2>1, <2>2, <2>4, <2>5, <1>1, <1>6, <1>7 DEF SentRightly, Awaits, Lost, new
<1>10. Strands(NoWalk, y, steps, sent)
  <2>1. UniqueIds(steps) => results[s] = "none"
    BY <1>3 DEF Consistent, Follows
  <2>2. QED BY <2>1, <1>1, <1>2, <1>5, <1>6, <1>7 DEF Strands, Lost, new
<1>11. QED BY <1>6, <1>7, <1>8, <1>9, <1>10 DEF Consistent

\* More approvals do no harm.
LEMMA MoreAsked ==
    ASSUME NEW walk, NEW x, NEW steps, NEW sent, NEW asked, NEW more,
           Consistent(walk, x, steps, sent, asked), asked \subseteq more
    PROVE  Consistent(walk, x, steps, sent, more)
BY DEF Consistent, AtGate

-----------------------------------------------------------------------------
(* From one execution to the state.                                        *)

\* The walk of an execution that is being walked is consistent with it.
LEMMA WalkConsistent ==
    ASSUME IInv, AllConsistent, NEW r \in Requests, walks[r].pc # "idle"
    PROVE  LET e == walks[r].execution IN
           Consistent(walks[r], executions[e], Steps(e), posted[e], AskedFor)
<1> DEFINE e == walks[r].execution
<1>1. e \in Existing
  BY DEF IInv, WalkedExists
<1>2. WalksOn(e) # {}
  BY DEF WalksOn
<1>3. PICK q \in Requests :
          /\ walks[q].pc # "idle"
          /\ walks[q].execution = e
          /\ Consistent(walks[q], executions[e], Steps(e), posted[e], AskedFor)
  BY <1>1, <1>2 DEF AllConsistent
<1>4. q = r
  BY <1>3 DEF IInv, SingleWalker
<1>5. QED BY <1>3, <1>4

\* An execution without a walk is consistent with that.
LEMMA UnwalkedConsistent ==
    ASSUME AllConsistent, NEW e \in Existing, WalksOn(e) = {}
    PROVE  Consistent(NoWalk, executions[e], Steps(e), posted[e], AskedFor)
BY DEF AllConsistent, WalksOn

\* Request r is, from now on, at "walk" on execution e, whose record is x, whose
\* steps are "steps" and for which "sent" was sent; the rest stays.
LEMMA ChangeKeeps ==
    ASSUME IInv, AllConsistent, UNCHANGED workflows, AskedFor \subseteq AskedFor',
           NEW r \in Requests, NEW e \in ExecutionIds, NEW walk, NEW x, NEW sent, NEW steps,
           walks'[r] = walk, \A q \in Requests \ {r} : walks'[q] = walks[q],
           executions'[e] = x, posted'[e] = sent,
           \A f \in ExecutionIds \ {e} : executions'[f] = executions[f] /\ posted'[f] = posted[f],
           walk.pc # "idle", walk.execution = e,
           x.status # "absent",
           steps = workflows[x.workflow_id].steps,
           walks[r].pc # "idle" => walks[r].execution = e,
           \A q \in Requests \ {r} : walks[q].pc # "idle" => walks[q].execution # e,
           Consistent(walk, x, steps, sent, AskedFor')
    PROVE  AllConsistent'
<1> DEFINE stepsAfter(f) == workflows'[executions'[f].workflow_id].steps
<1>1. /\ walks'[r] = walk /\ executions'[e] = x /\ posted'[e] = sent
      /\ \A q \in Requests \ {r} : walks'[q] = walks[q]
      /\ \A f \in ExecutionIds \ {e} : /\ executions'[f] = executions[f]
                                      /\ posted'[f] = posted[f]
                                      /\ stepsAfter(f) = Steps(f)
  BY DEF IInv, TypeOK, Steps
<1>2. stepsAfter(e) = steps
  BY <1>1
<1>3. Existing' = Existing \cup {e}
  BY <1>1 DEF Existing
<1> SUFFICES ASSUME NEW f \in Existing'
             PROVE  \/ \E q \in Requests :
                          /\ walks'[q].pc # "idle"
                          /\ walks'[q].execution = f
                          /\ Consistent(walks'[q], executions'[f], stepsAfter(f), posted'[f], AskedFor')
                    \/ /\ {q \in Requests : walks'[q].pc # "idle" /\ walks'[q].execution = f} = {}
                       /\ Consistent(NoWalk, executions'[f], stepsAfter(f), posted'[f], AskedFor')
  BY DEF AllConsistent, WalksOn, Steps
<1>4. CASE f = e
  BY <1>1, <1>2, <1>4
<1>5. CASE f # e
  <2>1. f \in Existing /\ f \in ExecutionIds
    BY <1>3, <1>5 DEF Existing
  <2>2. /\ executions'[f] = executions[f] /\ posted'[f] = posted[f] /\ stepsAfter(f) = Steps(f)
    BY <1>1, <1>5, <2>1
  <2>3. ASSUME NEW q \in Requests, walks[q].pc # "idle", walks[q].execution = f
        PROVE  /\ walks'[q] = walks[q]
               /\ Consistent(walks[q], executions[f], Steps(f), posted[f], AskedFor')
    <3>1. Consistent(walks[q], executions[f], Steps(f), posted[f], AskedFor)
      BY <2>3, WalkConsistent
    <3>2. QED BY <1>1, <1>5, <2>3, <3>1, MoreAsked
  <2>4. CASE WalksOn(f) # {}
    <3>1. PICK q \in Requests : walks[q].pc # "idle" /\ walks[q].execution = f
      BY <2>4 DEF WalksOn
    <3>2. QED BY <3>1, <2>2, <2>3
  <2>5. CASE WalksOn(f) = {}
    <3>1. Consistent(NoWalk, executions[f], Steps(f), posted[f], AskedFor')
      BY <2>1, <2>5, UnwalkedConsistent, MoreAsked
    <3>2. {q \in Requests : walks'[q].pc # "idle" /\ walks'[q].execution = f} = {}
      BY <2>5, <1>1, <1>5 DEF WalksOn
    <3>3. QED BY <3>1, <3>2, <2>2
  <2>6. QED BY <2>4, <2>5
<1>6. QED BY <1>4, <1>5

\* The request of a walk ends; the execution it walked may have changed.
LEMMA ReturnKeeps ==
    ASSUME IInv, AllConsistent, UNCHANGED <<posted, approvals>>,
           \A w \in WorkflowIds : workflows'[w].steps = workflows[w].steps,
           NEW r \in Requests, walks' = [walks EXCEPT ![r] = NoWalk], walks[r].pc # "idle",
           NEW e, e = walks[r].execution,
           \A f \in ExecutionIds \ {e} : executions'[f] = executions[f],
           executions'[e].status = executions[e].status,
           executions'[e].workflow_id = executions[e].workflow_id,
           Consistent(NoWalk, executions'[e], Steps(e), posted[e], AskedFor)
    PROVE  AllConsistent'
<1> DEFINE stepsAfter(f) == workflows'[executions'[f].workflow_id].steps
<1>1. /\ walks'[r] = NoWalk /\ NoWalk.pc = "idle"
      /\ \A q \in Requests \ {r} : walks'[q] = walks[q]
  BY DEF IInv, TypeOK, NoWalk, NewWalk
<1>2. Existing' = Existing /\ AskedFor' = AskedFor
  BY DEF Existing, AskedFor
<1>3. \A f \in Existing : f \in ExecutionIds /\ stepsAfter(f) = Steps(f)
  <2> SUFFICES ASSUME NEW f \in Existing PROVE f \in ExecutionIds /\ stepsAfter(f) = Steps(f)
    OBVIOUS
  <2>1. f \in ExecutionIds /\ executions[f].workflow_id \in WorkflowIds
    BY DEF IInv, HasWorkflow, Existing
  <2>2. executions'[f].workflow_id = executions[f].workflow_id
    BY <2>1
  <2>3. QED BY <2>1, <2>2 DEF Steps
<1> SUFFICES ASSUME NEW f \in Existing
             PROVE  \/ \E q \in Requests :
                          /\ walks'[q].pc # "idle"
                          /\ walks'[q].execution = f
                          /\ Consistent(walks'[q], executions'[f], Steps(f), posted[f], AskedFor)
                    \/ /\ {q \in Requests : walks'[q].pc # "idle" /\ walks'[q].execution = f} = {}
                       /\ Consistent(NoWalk, executions'[f], Steps(f), posted[f], AskedFor)
  BY <1>2, <1>3 DEF AllConsistent, WalksOn, Steps
<1>4. CASE e = f
  <2>1. \A q \in Requests \ {r} : walks[q].pc # "idle" => walks[q].execution # e
    BY DEF IInv, SingleWalker
  <2>2. {q \in Requests : walks'[q].pc # "idle" /\ walks'[q].execution = f} = {}
    BY <1>1, <1>4, <2>1
  <2>3. QED BY <1>4, <2>2
<1>5. CASE e # f /\ WalksOn(f) # {}
  <2>1. PICK q \in Requests : walks[q].pc # "idle" /\ walks[q].execution = f
    BY <1>5 DEF WalksOn
  <2>2. QED BY <2>1, <1>1, <1>3, <1>5, WalkConsistent
<1>6. CASE e # f /\ WalksOn(f) = {}
  <2>1. Consistent(NoWalk, executions'[f], Steps(f), posted[f], AskedFor)
    BY <1>3, <1>6, UnwalkedConsistent
  <2>2. {q \in Requests : walks'[q].pc # "idle" /\ walks'[q].execution = f} = {}
    BY <1>1, <1>6 DEF WalksOn
  <2>3. QED BY <2>1, <2>2
<1>7. QED BY <1>4, <1>5, <1>6

\* Steps that leave walks and what was sent alone, and of the executions touch
\* at most the status of some, as cancel_workflow does.
LEMMA QuietKeeps ==
    ASSUME IInv, AllConsistent, UNCHANGED <<walks, posted>>, AskedFor \subseteq AskedFor',
           \A f \in Existing : workflows'[executions[f].workflow_id].steps = Steps(f),
           Existing' = Existing,
           \A f \in ExecutionIds :
               \/ executions'[f] = executions[f]
               \/ Cancellers # {} /\ executions'[f] = [executions[f] EXCEPT !.status = "failed"]
    PROVE  AllConsistent'
<1> DEFINE stepsAfter(f) == workflows'[executions'[f].workflow_id].steps
<1>1. \A f \in Existing : stepsAfter(f) = Steps(f)
  BY DEF IInv, TypeOK, Existing, Execution
<1>2. ASSUME NEW f \in Existing, NEW walk,
             Consistent(walk, executions[f], Steps(f), posted[f], AskedFor)
      PROVE  Consistent(walk, executions'[f], Steps(f), posted[f], AskedFor')
  <2>1. executions[f] \in Execution /\ f \in ExecutionIds
    BY DEF IInv, TypeOK, Existing
  <2>2. CASE executions'[f] = executions[f]
    BY <1>2, <2>2, MoreAsked
  <2>3. CASE Cancellers # {} /\ executions'[f] = [executions[f] EXCEPT !.status = "failed"]
    <3>1. Consistent(walk, executions[f], Steps(f), posted[f], AskedFor')
      BY <1>2, MoreAsked
    <3>2. QED BY <3>1, <2>1, <2>3, CancelConsistent
  <2>4. QED BY <2>1, <2>2, <2>3
<1> SUFFICES ASSUME NEW f \in Existing
             PROVE  \/ \E q \in Requests :
                          /\ walks[q].pc # "idle"
                          /\ walks[q].execution = f
                          /\ Consistent(walks[q], executions'[f], Steps(f), posted[f], AskedFor')
                    \/ /\ WalksOn(f) = {}
                       /\ Consistent(NoWalk, executions'[f], Steps(f), posted[f], AskedFor')
  BY <1>1 DEF AllConsistent, WalksOn, Steps
<1>3. QED BY <1>2 DEF AllConsistent

-----------------------------------------------------------------------------
(* The invariant is inductive: one lemma per action.                       *)

\* What a step of a request's own walk starts from.
LEMMA Walking ==
    ASSUME IInv, WInv, NEW r \in Requests, walks[r].pc # "idle"
    PROVE  LET e == walks[r].execution IN
           /\ walks[r] \in Walk /\ e \in ExecutionIds /\ e \in Existing
           /\ executions[e] \in Execution /\ executions[e].status # "absent"
           /\ Steps(e) \in Seq(Step)
           /\ posted[e] \in [StepIds -> 0..2]
           /\ walks[r].ready \subseteq DOMAIN Steps(e)
           /\ \A q \in Requests \ {r} : walks[q].pc # "idle" => walks[q].execution # e
           /\ Consistent(walks[r], executions[e], Steps(e), posted[e], AskedFor)
<1> DEFINE e == walks[r].execution
<1>1. /\ walks[r] \in Walk /\ e \in ExecutionIds /\ e \in Existing
      /\ executions[e] \in Execution /\ Steps(e) \in Seq(Step)
  BY WalkTypes
<1>2. executions[e].status # "absent" /\ posted[e] \in [StepIds -> 0..2]
  BY <1>1 DEF Existing, IInv, TypeOK
<1>3. walks[r].ready \subseteq DOMAIN Steps(e)
  BY DEF IInv, BatchInSteps
<1>4. \A q \in Requests \ {r} : walks[q].pc # "idle" => walks[q].execution # e
  BY DEF IInv, SingleWalker
<1>5. Consistent(walks[r], executions[e], Steps(e), posted[e], AskedFor)
  BY WalkConsistent DEF WInv
<1>6. QED BY <1>1, <1>2, <1>3, <1>4, <1>5

LEMMA ExecuteWInv ==
    ASSUME IInv, WInv, NEW r \in Requests, NEW w \in WorkflowIds, NEW e \in ExecutionIds,
           Execute(r, w, e)
    PROVE  WInv'
<1> DEFINE walk == NewWalk("walking", e)
           x == NewExecution(w)
           steps == workflows[w].steps
<1>1. /\ walks[r].pc = "idle" /\ e \notin Existing
      /\ workflows' = workflows /\ posted' = posted /\ approvals' = approvals
      /\ walks' = [walks EXCEPT ![r] = walk] /\ executions' = [executions EXCEPT ![e] = x]
  BY DEF Execute, FreshExecution, approvalVars
<1>2. /\ walk.pc = "walking" /\ walk.execution = e
      /\ x.status = "running" /\ x.workflow_id = w
  BY DEF NewWalk, NewExecution
<1>3. steps \in Seq(Step)
  <2>1. workflows[w] \in Workflow
    BY DEF IInv, TypeOK
  <2>2. steps \in Definitions \cup {<<>>} /\ <<>> \in Seq(Step)
    BY <2>1 DEF Workflow
  <2>3. QED BY <2>2, EngineConstants
<1>4. \A s \in StepIds : posted[e][s] = 0
  BY <1>1 DEF WInv, NothingSentBefore
<1>5. Consistent(walk, x, steps, posted[e], AskedFor)
  BY <1>3, <1>4, ExecuteConsistent
<1>6. \A q \in Requests : walks[q].pc # "idle" => walks[q].execution # e
  BY <1>1 DEF IInv, WalkedExists
<1>7. /\ walks'[r] = walk /\ \A q \in Requests \ {r} : walks'[q] = walks[q]
      /\ executions'[e] = x /\ \A f \in ExecutionIds \ {e} : executions'[f] = executions[f]
      /\ AskedFor' = AskedFor
  BY <1>1 DEF IInv, TypeOK, AskedFor
<1> HIDE DEF walk, x, steps
<1>8. AllConsistent'
  <2>1. steps = workflows[x.workflow_id].steps
    BY <1>2 DEF steps
  <2>2. QED BY <2>1, <1>1, <1>2, <1>5, <1>6, <1>7, ChangeKeeps DEF WInv
<1>9. Existing \subseteq Existing'
  BY <1>1, <1>2 DEF IInv, TypeOK, Existing
<1>10. NothingSentBefore' /\ UnusedApprovals'
  BY <1>1, <1>9 DEF WInv, NothingSentBefore, UnusedApprovals
<1>11. QED BY <1>8, <1>10 DEF WInv

LEMMA AdvanceBeginWInv ==
    ASSUME IInv, WInv, NEW r \in Requests, NEW w \in WorkflowIds, NEW e \in ExecutionIds,
           AdvanceBegin(r, w, e)
    PROVE  WInv'
<1> DEFINE walk == NewWalk("advancing", e)
<1>1. /\ walks[r].pc = "idle" /\ executions[e].status = "paused" /\ e \in Existing
      /\ workflows' = workflows /\ posted' = posted /\ approvals' = approvals
      /\ executions' = executions
      /\ walks' = [walks EXCEPT ![r] = walk]
  BY DEF AdvanceBegin, Existing, approvalVars
<1>2. walk.pc = "advancing" /\ walk.execution = e
  BY DEF NewWalk
<1>3. \A q \in Requests : walks[q].pc # "idle" => walks[q].execution # e
  BY <1>1, EngineConstants DEF AdvanceBegin, MayEnter, IInv, TypeOK, LoopHeld, PausedIsIdle, Walk
<1>4. WalksOn(e) = {}
  BY <1>3 DEF WalksOn
<1>5. Consistent(walk, executions[e], Steps(e), posted[e], AskedFor)
  BY <1>1, <1>4, UnwalkedConsistent, AdvanceBeginConsistent DEF WInv
<1>6. /\ walks'[r] = walk /\ \A q \in Requests \ {r} : walks'[q] = walks[q]
      /\ AskedFor' = AskedFor
  BY <1>1 DEF IInv, TypeOK, AskedFor
<1> HIDE DEF walk
<1>7. AllConsistent'
  <2>1. Steps(e) = workflows[executions[e].workflow_id].steps
    BY DEF Steps
  <2>2. QED BY <2>1, <1>1, <1>2, <1>3, <1>5, <1>6, ChangeKeeps DEF WInv
<1>8. NothingSentBefore' /\ UnusedApprovals'
  BY <1>1 DEF WInv, NothingSentBefore, UnusedApprovals, Existing
<1>9. QED BY <1>7, <1>8 DEF WInv

\* A step of a request's own walk.
LEMMA WalkStepKeeps ==
    ASSUME IInv, WInv, NEW r \in Requests, walks[r].pc # "idle",
           NEW e, e = walks[r].execution,
           NEW walk, NEW x, NEW sent,
           UNCHANGED workflows, AskedFor \subseteq AskedFor',
           walks'[r] = walk, \A q \in Requests \ {r} : walks'[q] = walks[q],
           executions'[e] = x, posted'[e] = sent,
           \A f \in ExecutionIds \ {e} : executions'[f] = executions[f] /\ posted'[f] = posted[f],
           walk.pc # "idle", walk.execution = e,
           x.status # "absent", x.workflow_id = executions[e].workflow_id,
           Consistent(walk, x, Steps(e), sent, AskedFor')
    PROVE  AllConsistent' /\ NothingSentBefore'
<1>1. /\ e \in ExecutionIds /\ e \in Existing
      /\ \A q \in Requests \ {r} : walks[q].pc # "idle" => walks[q].execution # e
  BY Walking
<1>2. Steps(e) = workflows[x.workflow_id].steps
  BY DEF Steps
<1>3. AllConsistent'
  BY <1>1, <1>2, ChangeKeeps DEF WInv
<1>4. Existing' = Existing
  BY <1>1 DEF IInv, TypeOK, Existing
<1>5. NothingSentBefore'
  BY <1>1, <1>4 DEF WInv, NothingSentBefore
<1>6. QED BY <1>3, <1>5

LEMMA AdvanceResumeWInv ==
    ASSUME IInv, WInv, NEW r \in Requests, AdvanceResume(r)
    PROVE  WInv'
<1>1. PICK e : e = walks[r].execution
  OBVIOUS
<1>2. PICK results : results = ApprovedResults(executions[e].step_results, executions[e].current_step)
  OBVIOUS
<1> DEFINE walk == [pc |-> "walking", execution |-> e, ready |-> {},
                    completed |-> CompletedIn(results), failed |-> FailedIn(results)]
           x == ResumedWith(executions[e], results)
<1>3. /\ walks[r].pc = "advancing"
      /\ workflows' = workflows /\ posted' = posted /\ approvals' = approvals
      /\ walks' = [walks EXCEPT ![r] = walk] /\ executions' = [executions EXCEPT ![e] = x]
  BY <1>1, <1>2 DEF AdvanceResume, On, approvalVars
<1>4. walk.pc = "walking" /\ walk.execution = e
  OBVIOUS
<1>5. x.status = "running" /\ x.workflow_id = executions[e].workflow_id
  BY DEF ResumedWith
<1>6. Consistent(walk, x, Steps(e), posted[e], AskedFor)
  BY <1>1, <1>2, <1>3, Walking, AdvanceResumeConsistent
<1>7. /\ walks'[r] = walk /\ \A q \in Requests \ {r} : walks'[q] = walks[q]
      /\ executions'[e] = x /\ \A f \in ExecutionIds \ {e} : executions'[f] = executions[f]
      /\ AskedFor' = AskedFor
  BY <1>1, <1>3, Walking DEF IInv, TypeOK, AskedFor
<1> HIDE DEF walk, x
<1>8. AllConsistent' /\ NothingSentBefore'
  BY <1>1, <1>3, <1>4, <1>5, <1>6, <1>7, WalkStepKeeps
<1>9. UnusedApprovals'
  BY <1>3 DEF WInv, UnusedApprovals
<1>10. QED BY <1>8, <1>9 DEF WInv

LEMMA NextBatchWInv ==
    ASSUME IInv, WInv, NEW r \in Requests, NextBatch(r)
    PROVE  WInv'
<1>1. PICK e : e = walks[r].execution
  OBVIOUS
<1> DEFINE walk == [walks[r] EXCEPT !.ready =
                        ReadySteps(Steps(e), walks[r].completed, walks[r].failed)]
<1>2. /\ walks[r].pc = "walking"
      /\ workflows' = workflows /\ posted' = posted /\ approvals' = approvals
      /\ executions' = executions
      /\ walks' = [walks EXCEPT ![r] = walk]
  BY <1>1 DEF NextBatch, On, approvalVars
<1>3. walk.pc = "walking" /\ walk.execution = e
  BY <1>1, <1>2, Walking DEF Walk
<1>4. Consistent(walk, executions[e], Steps(e), posted[e], AskedFor)
  BY <1>1, <1>2, Walking, NextBatchConsistent
<1>5. /\ walks'[r] = walk /\ \A q \in Requests \ {r} : walks'[q] = walks[q]
      /\ AskedFor' = AskedFor
  BY <1>2 DEF IInv, TypeOK, AskedFor
<1>6. executions[e].status # "absent"
  BY <1>1, <1>2, Walking
<1> HIDE DEF walk
<1>7. AllConsistent' /\ NothingSentBefore'
  BY <1>1, <1>2, <1>3, <1>4, <1>5, <1>6, WalkStepKeeps
<1>8. UnusedApprovals'
  BY <1>2 DEF WInv, UnusedApprovals
<1>9. QED BY <1>7, <1>8 DEF WInv

LEMMA GateWInv ==
    ASSUME IInv, WInv, NEW r \in Requests, NEW i \in walks[r].ready, NEW a \in ApprovalIds,
           Gate(r, a, i)
    PROVE  WInv'
<1>1. PICK e : e = walks[r].execution
  OBVIOUS
<1>2. PICK s : s = Steps(e)[i].step_id
  OBVIOUS
<1> DEFINE walk == [walks[r] EXCEPT !.pc = "pausing"]
           x == PausedAt(executions[e], s)
<1>3. /\ walks[r].pc = "walking" /\ Steps(e)[i].requires_approval
      /\ approvals[a].status = "absent"
      /\ approvals' = [approvals EXCEPT ![a] = NewApproval(s)]
      /\ workflows' = workflows /\ posted' = posted
      /\ walks' = [walks EXCEPT ![r] = walk] /\ executions' = [executions EXCEPT ![e] = x]
  BY <1>1, <1>2 DEF Gate, On, FreshApproval
<1>4. walk.pc = "pausing" /\ walk.execution = e
  BY <1>1, <1>3, Walking DEF Walk
<1>5. x.status = "paused" /\ x.workflow_id = executions[e].workflow_id
  BY DEF PausedAt
<1>6. approvals'[a].task_id = s /\ approvals'[a].status = "pending"
  BY <1>3 DEF NewApproval, IInv, TypeOK, ApprovalsTypeOK
<1>7. approvals[a].task_id = NoStep
  BY <1>3 DEF WInv, UnusedApprovals
<1>8. s # NoStep /\ posted[e] \in [StepIds -> 0..2]
  BY <1>1, <1>2, <1>3, Walking, StepTypes, ApprovalConstants
<1>9. AskedFor \cup {s} \subseteq AskedFor'
  BY <1>3, <1>6, <1>7, <1>8 DEF IInv, TypeOK, ApprovalsTypeOK, AskedFor
<1>10. Consistent(walk, x, Steps(e), posted[e], AskedFor')
  <2>1. Consistent(walk, x, Steps(e), posted[e], AskedFor \cup {s})
    BY <1>1, <1>2, <1>3, Walking, GateConsistent
  <2>2. QED BY <2>1, <1>9, MoreAsked
<1>11. /\ walks'[r] = walk /\ \A q \in Requests \ {r} : walks'[q] = walks[q]
       /\ executions'[e] = x /\ \A f \in ExecutionIds \ {e} : executions'[f] = executions[f]
  BY <1>1, <1>3, Walking DEF IInv, TypeOK
<1> HIDE DEF walk, x
<1>12. AllConsistent' /\ NothingSentBefore'
  BY <1>1, <1>3, <1>4, <1>5, <1>9, <1>10, <1>11, WalkStepKeeps
<1>13. UnusedApprovals'
  BY <1>3, <1>6 DEF WInv, UnusedApprovals, IInv, TypeOK, ApprovalsTypeOK
<1>14. QED BY <1>12, <1>13 DEF WInv

LEMMA PostWInv ==
    ASSUME IInv, WInv, NEW r \in Requests, NEW i \in walks[r].ready, Post(r, i)
    PROVE  WInv'
<1>1. PICK e : e = walks[r].execution
  OBVIOUS
<1>2. PICK s : s = Steps(e)[i].step_id
  OBVIOUS
<1> DEFINE walk == [walks[r] EXCEPT !.pc = "posting"]
           x == [executions[e] EXCEPT !.current_step = s]
           sent == [posted[e] EXCEPT ![s] = IF @ = 2 THEN 2 ELSE @ + 1]
<1>3. /\ walks[r].pc = "walking" /\ ~Steps(e)[i].requires_approval
      /\ \A j \in walks[r].ready : i <= j
      /\ workflows' = workflows /\ approvals' = approvals
      /\ posted' = [posted EXCEPT ![e] = sent]
      /\ walks' = [walks EXCEPT ![r] = walk] /\ executions' = [executions EXCEPT ![e] = x]
  BY <1>1, <1>2 DEF Post, On, Handling, Ungated, approvalVars
<1>4. walk.pc = "posting" /\ walk.execution = e
  BY <1>1, <1>3, Walking DEF Walk
<1>5. x.status = executions[e].status /\ x.workflow_id = executions[e].workflow_id
  BY <1>1, <1>3, Walking DEF Execution
<1>6. executions[e].status # "absent"
  BY <1>1, <1>3, Walking
<1>7. Consistent(walk, x, Steps(e), sent, AskedFor)
  <2>1. posted[e] \in [StepIds -> 0..2] /\ s \in StepIds
    BY <1>1, <1>2, <1>3, Walking, StepTypes
  <2>2. (posted[e][s] = 0 => sent[s] = 1) /\ sent[s] > 0
    BY <2>1
  <2>3. \A z \in StepIds \ {s} : sent[z] = posted[e][z]
    BY <2>1
  <2>4. /\ walks[r] \in Walk /\ executions[e] \in Execution /\ Steps(e) \in Seq(Step)
        /\ walks[r].ready \subseteq DOMAIN Steps(e)
        /\ Consistent(walks[r], executions[e], Steps(e), posted[e], AskedFor)
    BY <1>1, <1>3, Walking
  <2> HIDE DEF sent
  <2>5. QED BY <1>2, <1>3, <2>1, <2>2, <2>3, <2>4, PostConsistent
<1>8. /\ walks'[r] = walk /\ \A q \in Requests \ {r} : walks'[q] = walks[q]
      /\ executions'[e] = x /\ \A f \in ExecutionIds \ {e} : executions'[f] = executions[f]
      /\ posted'[e] = sent /\ \A f \in ExecutionIds \ {e} : posted'[f] = posted[f]
      /\ AskedFor' = AskedFor
  BY <1>1, <1>3, Walking DEF IInv, TypeOK, AskedFor
<1> HIDE DEF walk, x, sent
<1>9. AllConsistent' /\ NothingSentBefore'
  BY <1>1, <1>3, <1>4, <1>5, <1>6, <1>7, <1>8, WalkStepKeeps
<1>10. UnusedApprovals'
  BY <1>3 DEF WInv, UnusedApprovals
<1>11. QED BY <1>9, <1>10 DEF WInv

LEMMA AnswerWInv ==
    ASSUME IInv, WInv, NEW r \in Requests, NEW i \in walks[r].ready, NEW o \in Outcome,
           Answer(r, i, o)
    PROVE  WInv'
<1>1. PICK e : e = walks[r].execution
  OBVIOUS
<1>2. PICK s : s = Steps(e)[i].step_id
  OBVIOUS
<1> DEFINE walk == IF o = "failed" THEN Recorded(walks[r], i, {}, {s})
                                   ELSE Recorded(walks[r], i, {s}, {})
           x == [executions[e] EXCEPT !.step_results[s] = o]
<1>3. /\ walks[r].pc = "posting" /\ \A j \in walks[r].ready : i <= j
      /\ workflows' = workflows /\ approvals' = approvals /\ posted' = posted
      /\ walks' = [walks EXCEPT ![r] = walk] /\ executions' = [executions EXCEPT ![e] = x]
  BY <1>1, <1>2 DEF Answer, Handling, approvalVars
<1>4. walk.pc = "walking" /\ walk.execution = e
  BY <1>1 DEF Recorded
<1>5. x.status = executions[e].status /\ x.workflow_id = executions[e].workflow_id
  BY <1>1, <1>3, Walking DEF Execution
<1>6. executions[e].status # "absent"
  BY <1>1, <1>3, Walking
<1>7. Consistent(walk, x, Steps(e), posted[e], AskedFor)
  BY <1>1, <1>2, <1>3, Walking, AnswerConsistent
<1>8. /\ walks'[r] = walk /\ \A q \in Requests \ {r} : walks'[q] = walks[q]
      /\ executions'[e] = x /\ \A f \in ExecutionIds \ {e} : executions'[f] = executions[f]
      /\ AskedFor' = AskedFor
  BY <1>1, <1>3, Walking DEF IInv, TypeOK, AskedFor
<1> HIDE DEF walk, x
<1>9. AllConsistent' /\ NothingSentBefore'
  BY <1>1, <1>3, <1>4, <1>5, <1>6, <1>7, <1>8, WalkStepKeeps
<1>10. UnusedApprovals'
  BY <1>3 DEF WInv, UnusedApprovals
<1>11. QED BY <1>9, <1>10 DEF WInv

LEMMA VerdictWInv ==
    ASSUME IInv, WInv, NEW r \in Requests, Verdict(r)
    PROVE  WInv'
<1>1. PICK e : e = walks[r].execution
  OBVIOUS
<1> DEFINE walk == [walks[r] EXCEPT !.pc = "finishing"]
           x == [executions[e] EXCEPT !.status =
                     FinalStatus(Steps(e), walks[r].completed, walks[r].failed)]
<1>2. /\ walks[r].pc = "walking"
      /\ workflows' = workflows /\ approvals' = approvals /\ posted' = posted
      /\ walks' = [walks EXCEPT ![r] = walk] /\ executions' = [executions EXCEPT ![e] = x]
  BY <1>1 DEF Verdict, On, approvalVars
<1>3. walk.pc = "finishing" /\ walk.execution = e
  BY <1>1, <1>2, Walking DEF Walk
<1>4. x.status # "absent" /\ x.workflow_id = executions[e].workflow_id
  BY <1>1, <1>2, Walking DEF Execution, FinalStatus
<1>5. Consistent(walk, x, Steps(e), posted[e], AskedFor)
  BY <1>1, <1>2, Walking, VerdictConsistent
<1>6. /\ walks'[r] = walk /\ \A q \in Requests \ {r} : walks'[q] = walks[q]
      /\ executions'[e] = x /\ \A f \in ExecutionIds \ {e} : executions'[f] = executions[f]
      /\ AskedFor' = AskedFor
  BY <1>1, <1>2, Walking DEF IInv, TypeOK, AskedFor
<1> HIDE DEF walk, x
<1>7. AllConsistent' /\ NothingSentBefore'
  BY <1>1, <1>2, <1>3, <1>4, <1>5, <1>6, WalkStepKeeps
<1>8. UnusedApprovals'
  BY <1>2 DEF WInv, UnusedApprovals
<1>9. QED BY <1>7, <1>8 DEF WInv

\* PauseWorkflow and FinishWalk.
LEMMA ReturnWInv ==
    ASSUME IInv, WInv, NEW r \in Requests, PauseWorkflow(r) \/ FinishWalk(r)
    PROVE  WInv'
<1>1. /\ walks[r].pc \in {"pausing", "finishing"} /\ walks' = [walks EXCEPT ![r] = NoWalk]
      /\ executions' = executions /\ posted' = posted /\ approvals' = approvals
  BY DEF PauseWorkflow, FinishWalk, On, approvalVars
<1>2. \A w \in WorkflowIds : workflows'[w].steps = workflows[w].steps
  BY DEF PauseWorkflow, FinishWalk, SetWorkflow, IInv, TypeOK, Workflow
<1>3. AllConsistent'
  <2>1. PICK e : e = walks[r].execution
    OBVIOUS
  <2>2. Consistent(NoWalk, executions[e], Steps(e), posted[e], AskedFor)
    BY <1>1, <2>1, Walking, ReturnConsistent
  <2>3. QED BY <1>1, <1>2, <2>1, <2>2, ReturnKeeps DEF WInv
<1>4. NothingSentBefore' /\ UnusedApprovals'
  BY <1>1 DEF WInv, NothingSentBefore, UnusedApprovals, Existing
<1>5. QED BY <1>3, <1>4 DEF WInv

\* AnswerRaises and AnswerMisread.
LEMMA AnswerLostWInv ==
    ASSUME IInv, WInv, NEW r \in Requests,
           AnswerRaises(r) \/ \E i \in walks[r].ready : AnswerMisread(r, i)
    PROVE  WInv'
<1>1. PICK e : e = walks[r].execution
  OBVIOUS
<1>2. /\ walks[r].pc = "posting" /\ walks' = [walks EXCEPT ![r] = NoWalk]
      /\ workflows' = workflows /\ posted' = posted /\ approvals' = approvals
  BY DEF AnswerRaises, AnswerMisread, approvalVars
<1>3. /\ e \in ExecutionIds /\ e \in Existing /\ executions[e] \in Execution
      /\ executions[e].status # "absent"
      /\ Consistent(walks[r], executions[e], Steps(e), posted[e], AskedFor)
      /\ walks[r] \in Walk /\ Steps(e) \in Seq(Step)
      /\ walks[r].ready \subseteq DOMAIN Steps(e)
  BY <1>1, <1>2, Walking
<1>4. PICK x :
          /\ executions' = [executions EXCEPT ![e] = x]
          /\ \/ x = executions[e]
             \/ \E i \in walks[r].ready :
                   /\ \A j \in walks[r].ready : i <= j
                   /\ x = [executions[e] EXCEPT !.step_results[Steps(e)[i].step_id] = "unreadable"]
  <2>1. CASE AnswerRaises(r)
    <3>1. executions' = [executions EXCEPT ![e] = executions[e]]
      BY <2>1, <1>3 DEF AnswerRaises, IInv, TypeOK
    <3>2. QED BY <3>1
  <2>2. CASE \E i \in walks[r].ready : AnswerMisread(r, i)
    BY <2>2, <1>1 DEF AnswerMisread, Handling
  <2>3. QED BY <2>1, <2>2
<1>5. /\ executions'[e] = x /\ \A f \in ExecutionIds \ {e} : executions'[f] = executions[f]
      /\ x.status = executions[e].status /\ x.workflow_id = executions[e].workflow_id
  BY <1>3, <1>4 DEF IInv, TypeOK, Execution
<1>6. Consistent(NoWalk, x, Steps(e), posted[e], AskedFor)
  BY <1>2, <1>3, <1>4, LostConsistent
<1>7. AllConsistent'
  BY <1>1, <1>2, <1>5, <1>6, ReturnKeeps DEF WInv
<1>8. Existing' = Existing
  BY <1>5 DEF Existing
<1>9. NothingSentBefore' /\ UnusedApprovals'
  BY <1>2, <1>8 DEF WInv, NothingSentBefore, UnusedApprovals
<1>10. QED BY <1>7, <1>9 DEF WInv

\* Steps that change no walk, nothing sent and no approval.
LEMMA QuietWInv ==
    ASSUME IInv, WInv, UNCHANGED <<walks, posted, approvals, executions>>,
           \A f \in Existing : workflows'[executions[f].workflow_id].steps = Steps(f)
    PROVE  WInv'
<1>1. AskedFor' = AskedFor /\ Existing' = Existing
  BY DEF AskedFor, Existing
<1>2. AllConsistent'
  BY <1>1, QuietKeeps DEF WInv
<1>3. QED BY <1>1, <1>2 DEF WInv, NothingSentBefore, UnusedApprovals

LEMMA CreateWorkflowWInv ==
    ASSUME IInv, WInv, NEW w \in WorkflowIds, NEW d \in Definitions, CreateWorkflow(w, d)
    PROVE  WInv'
<1>1. \A f \in Existing : workflows'[executions[f].workflow_id].steps = Steps(f)
  BY DEF IInv, TypeOK, HasWorkflow, CreateWorkflow, FreshWorkflow, Steps
<1>2. QED BY <1>1, QuietWInv DEF CreateWorkflow, approvalVars

LEMMA CancelBeginWInv ==
    ASSUME IInv, WInv, NEW t \in Cancellers, NEW w \in WorkflowIds, CancelBegin(t, w)
    PROVE  WInv'
<1>1. \A f \in Existing : workflows'[executions[f].workflow_id].steps = Steps(f)
  BY DEF IInv, TypeOK, HasWorkflow, Workflow, CancelBegin, SetWorkflow, Steps
<1>2. QED BY <1>1, QuietWInv DEF CancelBegin, approvalVars

LEMMA CancelReadsWInv ==
    ASSUME IInv, WInv, NEW t \in Cancellers,
           CancelInterrupted(t) \/ CancelTest(t) \/ CancelSkip(t) \/ CancelDone(t)
    PROVE  WInv'
<1>1. UNCHANGED <<workflows, executions, walks, posted, approvals>>
  BY DEF CancelInterrupted, CancelTest, CancelSkip, CancelDone, approvalVars
<1>2. QED BY <1>1, QuietWInv DEF Steps

LEMMA CancelWriteWInv ==
    ASSUME IInv, WInv, NEW t \in Cancellers, CancelWrite(t)
    PROVE  WInv'
<1>1. PICK e : e = cancellers[t].index
  OBVIOUS
<1>2. /\ e \in Existing /\ e \in ExecutionIds
      /\ executions' = [executions EXCEPT ![e] = [executions[e] EXCEPT !.status = "failed"]]
      /\ UNCHANGED <<workflows, walks, posted, approvals>>
  BY <1>1 DEF CancelWrite, IInv, CancelExists, Existing, approvalVars
<1>3. Existing' = Existing /\ AskedFor' = AskedFor
  BY <1>2 DEF Existing, AskedFor, IInv, TypeOK, Execution
<1>4. \A f \in ExecutionIds :
          \/ executions'[f] = executions[f]
          \/ Cancellers # {} /\ executions'[f] = [executions[f] EXCEPT !.status = "failed"]
  BY <1>2 DEF IInv, TypeOK
<1>5. AllConsistent'
  BY <1>2, <1>3, <1>4, QuietKeeps DEF WInv, Steps
<1>6. QED BY <1>2, <1>3, <1>5 DEF WInv, NothingSentBefore, UnusedApprovals

\* The approval endpoints never change what an approval is about, and create
\* approvals in the range left to them.
LEMMA ApprovalTasks ==
    ASSUME IInv, UnusedApprovals, ApprovalsNext
    PROVE  \A a \in ApprovalIds :
               /\ approvals'[a].status = "absent" => approvals'[a].task_id = NoStep
               /\ approvals'[a].task_id # approvals[a].task_id =>
                     approvals[a].task_id = NoStep /\ a <= MaxRequested
<1> USE DEF IInv, TypeOK, ApprovalsTypeOK, UnusedApprovals, Approval, Decision
<1> DEFINE Kept(a) ==
               /\ approvals'[a].status = "absent" => approvals'[a].task_id = NoStep
               /\ approvals'[a].task_id # approvals[a].task_id =>
                     approvals[a].task_id = NoStep /\ a <= MaxRequested
<1> SUFFICES ASSUME NEW a \in ApprovalIds PROVE Kept(a)
  OBVIOUS
<1>1. ASSUME NEW b \in ApprovalIds, NEW s \in StepIds, CreateApproval(b, s)
      PROVE  Kept(a)
  BY <1>1 DEF CreateApproval, FreshApproval, NewApproval
<1>2. ASSUME NEW t \in Deciders, NEW b \in ApprovalIds, NEW d \in Decision,
             NEW u \in Users, DecideCheck(t, b, d, u)
      PROVE  Kept(a)
  BY <1>2 DEF DecideCheck
<1>3. ASSUME NEW t \in Deciders, DecideStatus(t)
      PROVE  Kept(a)
  <2>1. deciders[t].decision \in Decision
    BY DEF DecideCall
  <2>2. CASE a = deciders[t].approval
    <3>1. approvals'[a] = [approvals[a] EXCEPT !.status = deciders[t].decision]
      BY <1>3, <2>2 DEF DecideStatus
    <3>2. QED BY <3>1, <2>1
  <2>3. CASE a # deciders[t].approval
    BY <1>3, <2>3 DEF DecideStatus
  <2>4. QED BY <2>2, <2>3
<1>4. ASSUME NEW t \in Deciders, DecideRecord(t)
      PROVE  Kept(a)
  BY <1>4 DEF DecideRecord
<1>5. QED BY <1>1, <1>2, <1>3, <1>4 DEF ApprovalsNext

LEMMA ApprovalsWInv ==
    ASSUME IInv, WInv, ApprovalsNext, UNCHANGED engineVars
    PROVE  WInv'
<1>1. UNCHANGED <<workflows, executions, walks, posted>>
  BY DEF engineVars
<1>2. AskedFor \subseteq AskedFor' /\ UnusedApprovals'
  BY ApprovalTasks DEF WInv, AskedFor, UnusedApprovals
<1>3. AllConsistent'
  BY <1>1, <1>2, QuietKeeps DEF WInv, Existing, Steps
<1>4. QED BY <1>1, <1>2, <1>3 DEF WInv, NothingSentBefore, Existing

LEMMA NextWInv == IInv /\ WInv /\ [Next]_vars => WInv'
<1> SUFFICES ASSUME IInv, WInv, [Next]_vars PROVE WInv'
  OBVIOUS
<1>1. ASSUME ClientStep PROVE WInv'
  BY <1>1, CreateWorkflowWInv, ExecuteWInv, AdvanceBeginWInv, CancelBeginWInv DEF ClientStep
<1>2. ASSUME NEW r \in Requests, LoopStep(r) PROVE WInv'
  BY <1>2, NextBatchWInv, VerdictWInv, ReturnWInv, AdvanceResumeWInv, PostWInv, GateWInv
     DEF LoopStep
<1>3. ASSUME NEW r \in Requests, Answered(r) PROVE WInv'
  BY <1>3, AnswerWInv, AnswerLostWInv DEF Answered
<1>4. ASSUME NEW t \in Cancellers, CancelStep(t) PROVE WInv'
  BY <1>4, CancelReadsWInv, CancelWriteWInv DEF CancelStep
<1>5. CASE UNCHANGED vars
  BY <1>5, QuietWInv DEF vars, engineVars, approvalVars, Steps
<1>6. QED BY <1>1, <1>2, <1>3, <1>4, <1>5, ApprovalsWInv DEF Next

LEMMA InitWInv == Init => WInv
<1> SUFFICES ASSUME Init PROVE WInv
  OBVIOUS
<1>1. Existing = {}
  BY DEF Init, Existing, NoExecution
<1>2. QED BY <1>1 DEF Init, ApprovalsInit, NoApproval, WInv, AllConsistent, NothingSentBefore,
                     UnusedApprovals

LEMMA WalkerInvariant == SafetySpec => [](IInv /\ WInv)
BY InitIInv, NextIInv, InitWInv, NextWInv, PTL DEF SafetySpec

-----------------------------------------------------------------------------
(* What the invariant says of the engine.                                  *)

\* What holds of an execution whatever its walk.
LEMMA SomeWalkConsistent ==
    ASSUME WInv, NEW e \in Existing
    PROVE  \E walk : Consistent(walk, executions[e], Steps(e), posted[e], AskedFor)
BY DEF WInv, AllConsistent

\* Over any number of pauses, resumptions, failures and cancellations, an
\* execution sends each of its steps to the agent runtime at most once
\* (_walk_dag, advance_workflow).
THEOREM StepsAreSentOnce == SafetySpec => []AtMostOncePost
<1>1. ASSUME WInv PROVE AtMostOncePost
  BY <1>1, SomeWalkConsistent DEF AtMostOncePost, WellFormed, Consistent, SentRightly
<1>2. QED BY <1>1, WalkerInvariant, PTL

\* Whatever DAG a client posts, cyclic ones and unknown dependencies included,
\* a step is sent only after all its dependencies have results that are not
\* failures (_resolve_ready_steps), and those results stay.
THEOREM DependenciesFirst == SafetySpec => []DependenciesRespected
<1>1. ASSUME IInv, WInv PROVE DependenciesRespected
  <2> SUFFICES ASSUME NEW e \in ExecutionIds, WellFormed(e), NEW s \in StepIds, posted[e][s] > 0,
                      NEW j \in DOMAIN Steps(e), Steps(e)[j].step_id = s
               PROVE  Steps(e)[j].depends_on \subseteq CompletedIn(executions[e].step_results)
    BY DEF DependenciesRespected, StepOf
  <2>1. QED BY <1>1, SomeWalkConsistent DEF WellFormed, Consistent, SentRightly
<1>2. QED BY <1>1, WalkerInvariant, PTL

\* No step that requires an approval is ever sent to the agent runtime: the
\* walker pauses at it and advance_workflow gives it its result.
THEOREM GatesAreNeverSent == SafetySpec => []GateHolds
<1>1. ASSUME WInv PROVE GateHolds
  <2> SUFFICES ASSUME NEW e \in ExecutionIds, WellFormed(e), NEW s \in StepIds, posted[e][s] > 0,
                      NEW j \in DOMAIN Steps(e), Steps(e)[j].step_id = s
               PROVE  ~Steps(e)[j].requires_approval
    BY DEF GateHolds, StepOf
  <2>1. QED BY <1>1, SomeWalkConsistent DEF WellFormed, Consistent, SentRightly
<1>2. QED BY <1>1, WalkerInvariant, PTL

\* The sets a walk keeps in local variables across its awaits are those the
\* recorded results define, in a fresh walk and in a resumed one.
THEOREM LocalSetsAreResults == SafetySpec => []LocalSetsMatchResults
<1>1. ASSUME IInv, WInv PROVE LocalSetsMatchResults
  <2> SUFFICES ASSUME NEW r \in Requests, walks[r].pc \in {"walking", "posting", "finishing"},
                      WellFormed(walks[r].execution)
               PROVE  LET e == walks[r].execution IN
                      /\ walks[r].completed = CompletedIn(executions[e].step_results)
                      /\ walks[r].failed = FailedIn(executions[e].step_results)
    BY DEF LocalSetsMatchResults
  <2>1. LET e == walks[r].execution IN
        Consistent(walks[r], executions[e], Steps(e), posted[e], AskedFor)
    BY <1>1, WalkConsistent DEF WInv
  <2>2. QED BY <2>1 DEF WellFormed, Consistent, Follows
<1>2. QED BY <1>1, WalkerInvariant, PTL

\* A paused execution stands at a gated step without a result, whose
\* dependencies are done and for which an approval exists.
THEOREM PauseIsAtAGate == SafetySpec => []PausedAwaitsGate
<1>1. ASSUME IInv, WInv PROVE PausedAwaitsGate
  <2> SUFFICES ASSUME NEW e \in ExecutionIds, executions[e].status = "paused", WellFormed(e)
               PROVE  LET s == executions[e].current_step IN
                      /\ s # NoStep
                      /\ executions[e].step_results[s] = "none"
                      /\ \E step \in StepOf(e, s) :
                            /\ step.requires_approval
                            /\ step.depends_on \subseteq CompletedIn(executions[e].step_results)
                      /\ \E a \in ApprovalIds : approvals[a].task_id = s
    BY DEF PausedAwaitsGate
  <2>1. AtGate(executions[e], Steps(e), AskedFor)
    BY <1>1, SomeWalkConsistent DEF WellFormed, Consistent
  <2>2. QED BY <2>1 DEF AtGate, AskedFor, StepOf
<1>2. QED BY <1>1, WalkerInvariant, PTL

\* The verdict "completed" is given only when every step has a result that is
\* neither a failure nor unreadable, with repeated step identifiers too.
THEOREM CompletedIsComplete == SafetySpec => []CompletedMeansAll
<1>1. ASSUME IInv, WInv PROVE CompletedMeansAll
  <2> SUFFICES ASSUME NEW e \in ExecutionIds, executions[e].status = "completed",
                      NEW i \in DOMAIN Steps(e)
               PROVE  executions[e].step_results[Steps(e)[i].step_id]
                          \notin {"none", "failed", "unreadable"}
    BY DEF CompletedMeansAll
  <2>1. e \in Existing
    BY DEF Existing
  <2>2. PICK walk : Consistent(walk, executions[e], Steps(e), posted[e], AskedFor)
    BY <1>1, <2>1, SomeWalkConsistent
  <2>3. Names(Steps(e)) \subseteq CompletedIn(executions[e].step_results)
    BY <2>2 DEF Consistent, Accounted
  <2>4. \A s \in StepIds : executions[e].step_results[s] # "unreadable"
    BY <2>2 DEF Consistent, Strands, Lost
  <2>5. QED BY <2>3, <2>4 DEF Names, CompletedIn
<1>2. QED BY <1>1, WalkerInvariant, PTL

\* An execution that runs and that no request walks was lost at an answer the
\* walker could not read: it stands at a step that was sent, without a result
\* that says anything.  And an execution with such a result is never walked,
\* paused or completed again (_walk_dag, advance_workflow).
THEOREM OnlyAnswersStrand == SafetySpec => []StrandedByAnswer
<1>1. ASSUME IInv, WInv, NEW e \in Existing, Stranded(e)
      PROVE  LET s == executions[e].current_step IN
             /\ s # NoStep
             /\ posted[e][s] > 0
             /\ WellFormed(e) => executions[e].step_results[s] \in {"none", "unreadable"}
  <2>1. Consistent(NoWalk, executions[e], Steps(e), posted[e], AskedFor)
    BY <1>1, UnwalkedConsistent DEF WInv, Stranded
  <2>2. NoWalk.pc = "idle"
    BY DEF NoWalk, NewWalk
  <2>3. QED BY <1>1, <2>1, <2>2, ApprovalConstants DEF Consistent, Strands, Stranded, WellFormed
<1>2. ASSUME IInv, WInv, NEW e \in Existing, NEW z \in StepIds,
             executions[e].step_results[z] = "unreadable"
      PROVE  WalksOn(e) = {} /\ executions[e].status \in {"running", "failed"}
  <2>1. ASSUME NEW r \in WalksOn(e) PROVE FALSE
    <3>1. Consistent(walks[r], executions[e], Steps(e), posted[e], AskedFor) /\ walks[r].pc # "idle"
      BY <1>2, WalkConsistent DEF WInv, WalksOn
    <3>2. QED BY <1>2, <3>1 DEF Consistent, Strands, Lost
  <2>2. WalksOn(e) = {}
    BY <2>1
  <2>3. Consistent(NoWalk, executions[e], Steps(e), posted[e], AskedFor)
    BY <1>2, <2>2, UnwalkedConsistent DEF WInv
  <2>4. QED BY <1>2, <2>2, <2>3 DEF Consistent, Strands, Lost
<1>3. ASSUME IInv, WInv PROVE StrandedByAnswer
  BY <1>1, <1>2, <1>3 DEF StrandedByAnswer
<1>4. QED BY <1>3, WalkerInvariant, PTL

\* The results that a step of the engine replaces were not there before.
LEMMA ResultsStay ==
    ASSUME IInv, WInv, [Next]_vars, NEW e \in ExecutionIds, NEW s \in StepIds,
           WellFormed(e), executions[e].step_results[s] # "none"
    PROVE  executions'[e].step_results[s] = executions[e].step_results[s]
<1> DEFINE Stays == executions'[e].step_results[s] = executions[e].step_results[s]
<1> USE DEF IInv, TypeOK
<1>1. executions[e] \in Execution
  OBVIOUS
<1>2. ASSUME NEW r \in Requests, NEW w \in WorkflowIds, NEW f \in ExecutionIds, Execute(r, w, f)
      PROVE  Stays
  BY <1>2 DEF Execute, FreshExecution, WellFormed
<1>3. ASSUME NEW r \in Requests, AdvanceResume(r)
      PROVE  Stays
  BY <1>1, <1>3 DEF AdvanceResume, ResumedWith, ApprovedResults, Execution
<1>4. ASSUME NEW r \in Requests, NEW i \in walks[r].ready,
             (\E a \in ApprovalIds : Gate(r, a, i)) \/ Post(r, i)
      PROVE  Stays
  <2>1. ASSUME NEW a \in ApprovalIds, Gate(r, a, i) PROVE Stays
    BY <1>1, <2>1 DEF Gate, PausedAt
  <2>2. CASE Post(r, i)
    BY <1>1, <2>2 DEF Post, Execution
  <2>3. QED BY <1>4, <2>1, <2>2
<1>5. ASSUME NEW r \in Requests, Verdict(r)
      PROVE  Stays
  BY <1>1, <1>5 DEF Verdict, Execution
<1>6. ASSUME NEW r \in Requests, NEW i \in walks[r].ready,
             (\E o \in Outcome : Answer(r, i, o)) \/ AnswerMisread(r, i)
      PROVE  Stays
  <2>1. CASE walks[r].execution # e
    BY <1>6, <2>1 DEF Answer, AnswerMisread
  <2>2. CASE walks[r].execution = e
    <3>1. Consistent(walks[r], executions[e], Steps(e), posted[e], AskedFor)
      BY <1>6, <2>2, WalkConsistent DEF Answer, AnswerMisread, WInv
    <3>2. executions[e].step_results[Steps(e)[i].step_id] = "none"
      BY <3>1, <1>6 DEF Answer, AnswerMisread, WellFormed, Consistent, Follows
    <3>3. QED BY <1>1, <1>6, <2>2, <3>2 DEF Answer, AnswerMisread, Execution
  <2>3. QED BY <2>1, <2>2
<1>7. ASSUME NEW t \in Cancellers, CancelWrite(t)
      PROVE  Stays
  BY <1>1, <1>7 DEF CancelWrite, Execution
<1>8. CASE executions' = executions
  BY <1>8
<1>9. ASSUME NEW r \in Requests, LoopStep(r) PROVE Stays
  BY <1>9, <1>3, <1>4, <1>5, <1>8 DEF LoopStep, NextBatch, FinishWalk, PauseWorkflow
<1>10. ASSUME NEW t \in Cancellers, CancelStep(t) PROVE Stays
  BY <1>10, <1>7, <1>8 DEF CancelStep, CancelInterrupted, CancelTest, CancelSkip, CancelDone
<1>11. ASSUME ClientStep PROVE Stays
  BY <1>11, <1>2, <1>8 DEF ClientStep, CreateWorkflow, AdvanceBegin, CancelBegin
<1>12. ASSUME NEW r \in Requests, Answered(r) PROVE Stays
  BY <1>12, <1>6, <1>8 DEF Answered, AnswerRaises
<1>13. QED BY <1>8, <1>9, <1>10, <1>11, <1>12 DEF Next, vars, engineVars

\* A result is never replaced: not by a late answer, a resumption, a
\* cancellation or another walk.
THEOREM ResultsStayFinal == SafetySpec => ResultsAreFinal
<1>1. IInv /\ WInv /\ [Next]_vars =>
          [\A e \in ExecutionIds, s \in StepIds :
              WellFormed(e) /\ executions[e].step_results[s] # "none" =>
                  executions'[e].step_results[s] = executions[e].step_results[s]]_vars
  BY ResultsStay
<1>2. QED BY <1>1, WalkerInvariant, PTL DEF SafetySpec, ResultsAreFinal
=============================================================================
