# A TLA+ model of the Aivira workforce platform

This directory holds TLA+ models of the platform's services, the TLC
configurations that check them on small instances, and theorems proved with
TLAPS for every instance. The source is the reference: each definition names,
in `PROJECT.json` under `map`, the lines it was translated from.

    tlc -config MCWorkflowEngine.cfg MCWorkflowEngine.tla
    tlc -config MCAgentLoop.cfg MCAgentLoop.tla
    tlc -config MCPlatform.cfg MCPlatform.tla
    tlc -config MCServices.cfg MCServices.tla
    tlapm WorkflowSafetyProofs.tla

## The system

The platform is a set of FastAPI services, one uvicorn process each, that call
each other over HTTP and keep their state in module-level dicts and lists.
There is no lock and no transaction anywhere. Two facts of the framework decide
what can interleave:

- an `async def` handler is a coroutine on the event loop: it excludes every
  other coroutine between two `await`s, but not the worker threads;
- a plain `def` handler runs on a worker thread, so two of them interleave
  anywhere, with each other and with the coroutines.

| part | state | operations | interacts with | what is hard |
|---|---|---|---|---|
| workflow engine | `_workflows`, `_executions`, `_approvals` | create, execute, advance, cancel; create and decide approvals; the DAG walker | POSTs each step to the agent runtime | coroutines and threads on one execution, pause and resume, failure of one step of a batch, retries |
| agent runtime, task store | `_tasks` | execute, resume, simulate | called by engine, adapter, gateway | threads, resumption of a task, a caller that gave up |
| agent runtime, reasoning loop | the state of one run | eight graph nodes and a conditional edge | the task store | step budget, approval of tools, recursion limit, two implementations of one loop |
| memory service | working memory, three lists | upsert, clear, append, retrieve | intended for the reasoning loop | which session is the latest, limits of zero |
| integration service | `_integrations` | register, validate, execute | intended for the reasoning loop | validation and dispatch that must agree |
| auth service | `_users` | register, login | gateway | check and insertion in two steps |
| AI configuration | none | merge of three layers of settings, tool permissions | agent authors | which layer wins |
| API gateway, Ordibl adapter | none | proxies, webhooks | every service | timeouts, retries, repeated and reordered webhooks |
| organization service | `_organizations`, `_agents`, `_customers` | create, patch, list | gateway | patches key by key, iteration over a dict that grows |
| notification service | `_notifications`, `_notifications_by_id` | send, list, look up | nobody yet | two stores written one after the other, pages |
| analytics service | a list | append, counts | nobody yet | - |
| AI client, prompts, worker, ORM schema, events | counters or none | simulated or placeholders | not called by the services | - |

What makes each part correct:

- *engine*: a step is dispatched once, after its dependencies and never past
  its gate; a pause waits at a gate and asks once; recorded results are final;
  the verdict is about every step; every walk ends, and nothing but an answer it
  cannot read leaves an execution behind; a cancellation and a decision stay in
  force;
- *task store*: a task's record is that of one run; a resumption does not undo
  a completed task; what the engine recorded and what the runtime did agree;
- *reasoning loop*: the budget bounds the steps, a tool that needs approval is
  never executed without it, both implementations give the same final state;
- *memory*: a packet holds nothing of another agent or organization (of the
  session the code does not see to that), and all that was stored before the
  call, up to the last `n` episodes and the first `n` facts;
- *integrations*: a tool that validates is a tool that runs (of one type it does
  not);
- *gateway, adapter*: what a client is told to be done is done, through all
  services; every call is answered;
- *organization*: a listing is that of one moment; no patch undoes another;
- *notifications*: what was sent before a call came is shown to it;
- *auth*: an email logs in as the same user for good; *configuration*: no
  organization gives a role a tool its preset withholds.

## The modules

| module | models |
|---|---|
| `Approvals` | `_approvals` with `create_approval` and `decide_approval` |
| `WorkflowEngine` | extends `Approvals`: workflows, executions, the walker, advance and cancel |
| `DagExecution` | the abstract execution of a DAG: what the engine promises |
| `DagRefinement` | extends `WorkflowEngine`: the mapping to `DagExecution` |
| `AgentTasks` | the tables of `runtime.py`: procedures, plans, choice of a tool, approval |
| `AgentRun` | the abstract run: what a call of `run_agent` promises |
| `AgentLoop` | the loop node by node, which implements `AgentRun` |
| `TaskStore` | `_tasks` with execute, resume and simulate; each run is one of `AgentRun` |
| `AuthService` | `_users` with register and login |
| `Pages` | the slices `[:n]` and `[-n:]` of a list |
| `MemoryService` | the four stores and `retrieve_context` |
| `AIConfig` | the layers of `resolve_ai_config` and `is_tool_allowed` |
| `IntegrationService` | `_integrations`, `validate_tool` and the dispatch of tools |
| `OrganizationService` | its three dicts with create, patch and list |
| `NotificationService` | the list and the dict, with send, list and look up |
| `Proxies` | the calls of the gateway and of the adapter's webhook |
| `Services` | the six small services, the approvals and the proxies beside each other |
| `Platform` | gateway, adapter, engine and runtime together |
| `MCApprovals`, `MCWorkflowEngine`, `MCAgentLoop`, `MCServices`, `MCAuth`, `MCMemory`, `MCPlatform`, `MCApprovalFlow` | instances for TLC: workflow definitions, budgets, inputs |
| `WorkflowEngineProofs` | theorems: types of the engine, one walk per execution |
| `WorkflowSafetyProofs` | extends it: what is sent, when, and what a verdict means |
| `DagRefinementProofs` | extends it and `DagRefinement`: approvals, statuses, the refinement |
| `AgentLoopProofs`, `TaskStoreProofs` | theorems about the loop and the store |
| `PlatformProofs` | extends `TaskStoreProofs`' results to the composition, with an instance of `DagRefinementProofs` |
| `ListsProofs` | theorems about the lists of the auth, memory and notification services |
| `ServicesProofs` | extends it and `Services`: the other small services, and all beside each other |

`WorkflowEngine` extends `Approvals`; `AgentRun`, `AgentLoop` and `TaskStore`
extend `AgentTasks`, the latter two with an instance of `AgentRun`, once as the
contract to implement and once as the component to build on. `WorkflowEngine`
itself models the runtime's answer by its status, any of three, or by one that
cannot be read; `Platform`
extends `TaskStore` and `Proxies`, takes an instance of `WorkflowEngine`, and
replaces that choice by the answer the task store gives.

### Approvals

`approvals` is the dict, from ordinals in creation order to records; a record
that was not created has the status "absent". `decide_approval` runs on a
thread, so it is three actions: `DecideCheck` (the record is found and pending),
`DecideStatus` (line 374) and `DecideRecord` (lines 375-378). `deciders` is the
place of each thread in that code. A decision may carry any member of
`ApprovalStatus`, "pending" included, as the request model allows (its comment,
models.py:510, names only the two others).

### WorkflowEngine

| variable | in the code |
|---|---|
| `workflows`, `executions` | the two dicts; `step_results` is total, "none" stands for a missing key |
| `walks` | the local variables of each request inside `_walk_dag`: the execution, the completed and failed sets, the positions of the batch still to do |
| `loop` | the coroutine that is between two `await`s, if any |
| `cancellers` | the position of each `cancel_workflow` call in its iteration |
| `posted` | how often each step was sent to the runtime (counted up to 2): the only ghost variable |

A walk is cut into actions where a thread can observe or undo half of it, and
at its `await`:

| action | in the code |
|---|---|
| `CreateWorkflow`, `Execute` | `create_workflow`; `execute_workflow` up to the loop |
| `NextBatch` | the steps that are ready; the `for` begins |
| `Gate`, `PauseWorkflow` | the approval and the paused execution; then the paused workflow |
| `Post`, `Answer` | the POST up to the `await`; the result, or the HTTP error, recorded |
| `AnswerRaises` | `resp.json()` raises (an answer of 200 that is not JSON): nothing is recorded, the request ends with a 500 |
| `AnswerMisread` | JSON that is no object: recorded ("unreadable"), then `result.get` raises |
| `Verdict`, `FinishWalk` | the status of the execution; the same status, read again, for the workflow |
| `AdvanceBegin`, `AdvanceResume` | the tests of `advance_workflow`; running, the gate marked, the sets rebuilt |
| `CancelBegin`, `CancelTest`, `CancelSkip`, `CancelWrite`, `CancelDone` | the workflow failed; the iteration over the executions, its test and its assignment apart |
| `CancelInterrupted` | the RuntimeError of an iteration over a dict that grew |

The two actions after `Answer` are the exceptions of `_walk_dag` that its `except
httpx.HTTPError` does not catch. The execution stays "running" with nobody to
walk it, and nothing resumes it, as it is not paused: `Stranded`. A cancellation
may still make it "failed".

The batch is a set of positions handled in increasing order, which is the order
of the list `_resolve_ready_steps` returns. The status of a workflow never
becomes "running": `execute_workflow` does not set it, and neither does the
model. A request that ends in a 4xx changes nothing and is not an action.

### DagExecution, DagRefinement

`DagExecution` has one variable, from executions to a list of steps, a status,
the results and the open gate, and six actions: `Start`, `Record` a result of
a ready step, `Pause` at a ready gate, `Approve` it, `Conclude` when nothing is
ready, and `Abandon` at a ready step whose answer cannot be read. No request, batch, local set or event loop appears in it. The mapping
`AsDag` forgets the walks: whatever a request holds in its local sets is in
the results already, which is the point of the refinement. It holds while
nobody cancels (`cancel_workflow` writes a status that the walk goes on from)
and for distinct step identifiers. `DagSpec` promises weak fairness of what can
be done on a running execution, so the refinement includes that a DAG that can
go on does.

### AgentTasks, AgentRun, AgentLoop

The loop looks at a task through three things: the prefix of its type (the role,
`build_plan` and `retrieve_memory`), the groups of words in its text
(`choose_action`), and `max_steps`. So a task is a role, a set of intents and a
budget. For the receptionist and sales roles a procedure is always recalled, so
the plan lists of `build_plan` for these roles are never used; the model has
them because the code does. The registry's second tool that needs an approval,
`billing.create_invoice`, is never chosen and has no value in the model.

`AgentLoop` has one action per node (`LoadContext` to `WriteMemory`), in the
order of `compile_graph`; `WriteMemory` includes the conditional edge, which
reads what it leaves. `node` is the next node, `supersteps` the count LangGraph
keeps, `library` whether LangGraph could be imported. Both executors of
`run_agent` call the same functions in the same order, so they are one model
that differs in `Visit`'s guard: with the library a node is entered only within
`RecursionLimit`, and `LimitReached` is the exception otherwise.

| variable | in the code |
|---|---|
| `index`, `plan`, `procedure` | `current_step_index`, `plan`, the steps of the first procedure |
| `tool`, `toolStatus` | `selected_tool`, `tool_result["status"]` |
| `history` | `step_history`; its length is `steps_executed` |
| `evaluation` | `evaluation`, with the key `completed`; an absent `should_continue` is false |

Left out: `phase`, the memory entries and facts, which nothing reads, and the
observations, which repeat the history.

`AgentRun` says the same in two actions: a run begins with its input and ends,
in one step, with `Promise(task)`: escalated when a call is asked for and no
booking, exceeded when the budget is not larger than the plan, completed
otherwise, with the number of steps; or raised, when the library is there and
the run needs more supersteps than its limit. The refinement maps the nodes to
"running" and what is returned to its outcome as `execute_task` reads it.

### TaskStore

`tasks` is `_tasks`, `requests` where each request is. A task has the name of
the request that executed it, as its identifier is fresh. `execute_task` inserts
its record whole after the run (`ExecuteEnd`); `resume_task` tests the status,
runs (`Resume`), and then assigns the status, the result with the plan, the
steps, the stamp, one action each, since another resumption may come between
two of them. `Simulate` answers and keeps nothing; `Error` is the 500 after an
exception of `run_agent`, which no handler catches. No handler passes a budget:
all runs have the default of 20, so no task of the store exceeds it and "failed"
is not reached; the theorems do not depend on that.

A resumption of a task that is not there or may not be resumed is a 4xx and no
action. `list_tasks` and `get_task_state` only read.

### AuthService, MemoryService, AIConfig, IntegrationService

These services are small and share no state, with each other or with the engine.
Three of them iterate over a dict on a worker thread while other threads insert;
CPython raises a RuntimeError when the dict has changed its size at the next step
of the iteration. Each module has that outcome: the request fails with a 500.

`OrganizationService`: each value is named after the thread that wrote it, so
that any two patches differ. A patch is `PatchBegin`, one `PatchKey` per key of
the payload, in any order, and `PatchEnd`; what an organization's patch may not
write (`allowed`) is passed over. A listing with a filter is `ListBegin`, one
`ListNext` per record and `ListEnd`, or `ListInterrupted` when the dict has
grown; `list_organizations` copies in one step.

`NotificationService`: a send is `SendAppend` and `SendInsert`, as the list and
the dict are written one after the other; a listing cuts its page and then
counts its total. A list that is iterated may grow without an error, so the
loop of a listing is one step, its last.

`Pages` has the slices by which a page is cut out of a list, with Python's
`[-0:]`, the whole list. A list of the memory and the notification service only
grows, so that a record is known by its place, and a page is the set of the
places it shows: it always has the order of the list.

`AuthService`: `register` is `Register` (the iteration begins), `RegisterTaken`
(the email is found), `RegisterFree` (it is not, and the dict kept its size) and
`RegisterInsert`; `login` is `Login` and `LoginAnswer`, which looks at the first
user with the email alone. `Interrupted` is the iteration that raised. `users`
is in the order of insertion, which is the order of the iteration.

`MemoryService`: a record is known by its place in its list. The working memory
is a dict: an upsert of a session that is there keeps its place, a deleted one
leaves a hole. `retrieve_context` is one action per store (`Retrieve`,
`WorkingNext` once per session, `ReadEpisodes`, `ReadFacts`, `ReadProcedures`).
A fact contains the query or not;
the texts are left out. An entry of the working memory has an organization, that
of the agent whose session it is, although `WorkingMemoryEntry` has no field for
it and no code reads it: it is there to say whose session a packet shows. The
comment of the code says "the latest" session where the code takes the first
inserted; the model does what the code does (`memory_session`).

`AIConfig`: a layer gives each field a value or nothing. Of the fields two lists
of tools and the limit of steps remain; `_apply_overrides` treats all alike.

`IntegrationService`: a tool is its type, the part of its name before the dot,
and whether `TOOL_ADAPTERS` lists it. `validate_tool` asks whether it is listed
and an integration of its type is enabled, `_run_tool` only for its type, of
which it has all but `erp`: such a tool is valid and not run, although the service
names ERP among its adapters (main.py:3-5, 33-40).

`Services` puts these six, `Approvals` and `Proxies` side by side: the initial state
chooses the service that moves. As they share nothing, the behaviours of one
with the others at rest are all that matters to its properties.

### Proxies, Platform

A call in `Proxies` has an endpoint, the place where it is (passed on, at work
in its service, answered, never to arrive), the answer, and what the client was
told. `GiveUp` and `Unreachable` tell the client that the service is
unavailable. After `GiveUp` the call goes on: it may still arrive, be worked on
and be answered, which nobody hears. Every handler of the gateway calls
`raise_for_status` inside its `try`, so that a 4xx of a service is told as 502;
only login, registration and `me` pass the status on (`PassedOn`).
docs/openapi.yaml documents a 404 for many of these endpoints, which a client
never sees (docs/openapi.yaml:181, 253, 433, 458, 534, 617). The adapter's exception is not caught: its client is told 500.

`Platform` follows the calls that reach the engine or the runtime. A call is
also the engine's request, or the runtime's run, that serves it, and the run
for step `s` of execution `e` is named `<<e, s>>`. The engine's POST is not a
message of its own: `Deliver` lets it arrive at any time after `posted` counts
it, also when the engine has given it up; `EngineAnswered` takes the answer of
the runtime, `EngineGivesUp` records a failure without one. Insiders are callers
that do not come through the gateway, for `advance` and `simulate`, which it
does not offer. There is no cancelling thread and no decision in `Platform`:
approvals do not influence the walk (`approval_flow`), and what a cancellation
does to it is the subject of `engine` and `engine_cancel`. Nor is there an
answer that the engine cannot read: the runtime of `src/` answers an object, or
a 500 that is an `HTTPStatusError`; what stands between the two and might answer
something else is the subject of `engine`.

| state of one, in another's terms | |
|---|---|
| `walks[r].pc = "posting"` | the engine awaits the run `<<e, s>>` of the runtime |
| `requests[<<e, s>>].at` | "new" before the POST arrives, then the handler's place |
| `replies[c]` | the execution a call began, and its status when it was returned |

An escalated task counts as done for the engine, which looks for "failed" alone
(line 213): steps below it are dispatched although the agent asked for an
approval, and the workflow is told to be completed.
docs/diagrams/sequence-diagrams.md:133-141 draws an approval, a resumption and a
completion first. So `TasksFollowTheDag` and `ToldMeansHandled` speak of steps
that the runtime has *handled* (`StepHandled`: completed, escalated or approved),
which is what the code sees to. What the diagram draws is
`CompletedIsDoneOrApproved`: in an execution that completed, and whose escalated
tasks were resumed, each step's task is completed or at least was approved. It is
violated, and the one behaviour that TLC finds shows four disagreements at once:
the step below an escalated one is sent at once; the escalated task, resumed, is
escalated again, as `resume_task` runs it from its beginning; a gated step is
never sent; and `advance_workflow` passes the gate of an approval that nobody
decided.

### Slips

Definitions whose comment begins with *Slip* are plausible mistakes in the
definition that follows them. No behaviour uses them; each one, put in the place
of its neighbour, violates the property that `PROJECT.json` pairs it with.

## What the runs check

| run | question | result |
|---|---|---|
| `services` | do the approvals, the six small services and the proxies keep what they promise under concurrent requests? | holds: the properties below |
| `memory_session` | is the session in a packet the caller's organization's, as README.md:25 of the repository says of all data, or at least the latest, as the comment of the code says? | no: another tenant's older one is given although a newer one of the caller's own is there; agents of two organizations have one identifier |
| `auth_race` | has an email one user, as "Email already registered" says? | no: two threads find it free together |
| `approvals_decided_twice` | is a decision final, as the "already resolved" answer says? | no: two threads pass the test together |
| `engine` | the safety of the walk under concurrent requests and a cancelling thread | holds: the eleven properties below |
| `engine_settles` | does every execution leave "running" unless an answer stranded it, do the two statuses agree, does the engine implement `DagExecution`? | yes, while nobody cancels |
| `engine_cancel` | does a cancellation stay in force? | no: the walk in progress overwrites it |
| `engine_second_execution` | can every paused execution be advanced? | no: only the first one of its workflow |
| `agent_loop` | does the loop keep the contract of a run, and end? | holds: `KeepsContract`, with its liveness; `HistoryFollowsPlan`, `NothingAfterPending` |
| `agent_loop_limit` | do LangGraph and the fallback end a run alike? | no: five steps need 28 supersteps, the default limit is 25 |
| `platform` | do the services together keep what each of them tells, whatever times out between them? | holds: the properties below |
| `approval_flow` | when an execution is completed, were its steps worked off, resumed or approved, as the diagram and the comments say? | no: see *Proxies, Platform* |

The properties of `engine`: `SingleWalker` (no two requests on one execution),
`AtMostOncePost`, `DependenciesRespected`, `GateHolds` (what is sent to the
runtime, and when), `LocalSetsMatchResults` (a resumed walk knows what an
uninterrupted one would), `PausedAwaitsGate` and `GateAskedOnce` (what a pause
waits for), `CompletedMeansAll` (the verdict), `StrandedByAnswer` (an execution
that runs and that nobody walks was sent the step it is at and got an answer it
could not read; nothing else strands one, and none goes on after such an answer),
`ResultsAreFinal`, and the type invariant. No document speaks of the stranded
execution, so it is a property of the code and not a disagreement: what
`RunningSettles` and `StrandedByAnswer` say together is that an execution is
walked to its end, paused, or in exactly that state.

The properties of `platform`:

- `RecordIsOneRun`, `EscalationStands`, `OneRecordPerExecution`: of the store of
  tasks, now with its real callers (a client, the adapter, the engine, and two
  resumptions of one task beside each other);
- `TasksFollowTheDag`: the runtime works on a step only after what it depends on
  is handled in the runtime itself, not merely in the engine's books; late POSTs
  and steps that the engine gave up included;
- `ToldMeansHandled`: of a workflow that a client is told to be completed, every
  step was handled by the runtime (a failed or lost one is not) or approved;
- `EveryRequestAnswered`, `EveryCallAnswered`: no service waits for one that
  waits for it, so all calls are answered although no timer ever needs to fire.

The properties of `services`, beside the type invariant of the state of all eight:

- approvals: `SettledForever` (a decided approval that no call is still deciding
  never changes again) and `ResolvedIsAttributed` (it names who decided it);
- auth: `LoginStands` (no registration changes whom an email logs in as) and
  `GrantedToFirst` (a granted login had that user's password), which hold
  although `auth_race` shows two users with one email: the second of them is
  told to be registered and can never log in;
- memory: `PacketIsOwn`, the episodes of a packet are of its agent and
  organization, facts and procedures of its organization, the session of its
  agent (and perhaps of another organization: `memory_session`);
  `PacketIsComplete`;
- configuration: `HighestLayerWins` and `PresetIsTheLimit`;
- organization: `ListIsComplete`, a listing that is answered shows the tenant's
  records of the moment it began, no less and no more; `PatchStands`, no patch
  undoes one that was answered before it came;
- notifications: `AnsweredIsShown`, what was sent before a call came is found by
  it, or pushed off its page by later ones;
- proxies: `ToldIsTrue`, "200" and "4xx" are what the service answered; of a
  "502" a client may believe nothing, as the service may have done the work;
- integrations: `ValidIsIntegrated`, a tool found valid, beside registrations, is
  one its organization has an enabled integration for, then and ever after.

### Bounds

- Seven definitions over three steps: two independent steps joined at a gate
  (one may fail beside the other), a gate first in its batch, two gates in one
  batch, a chain listed backwards, a cycle, a repeated identifier, no steps.
  They contain each relation between two steps of one batch, and between a step
  and the batch before it, that the walker treats differently.
- Two requests and two executions: an advance beside a walk, two advances, a
  repeated execute. Three executions were tried and add nothing but time.
- One cancelling thread in `engine`: a second one only repeats the assignment of
  the same constant. Two workflows in `engine_settles`.
- `MaxApprovals` is large enough for every gate of every execution, and one
  more, so that the bound never stops the walker. `MaxRequested` bounds the
  approvals created through the API.
- `agent_loop`: one run, since runs share nothing; every role and every set of
  intents; the budgets 0 to 6 and 20, that is below, at and above the lengths of
  all plans (3 to 5), and the default. `RecursionLimit` is 25, the default of
  the LangGraph release that `requirements.txt` pins; the loop needs
  8, 13, 18, 23 or 28 supersteps, so no result depends on whether the library
  counts its input as one of them.
- `engine_settles` has five of the seven definitions: the two left out order
  the same relations otherwise, and liveness is what takes the time.
- `platform`: two calls and one insider, so that two resumptions of one task, an
  advance beside an execution, two executions of one workflow, or a task beside
  a workflow are possible; two definitions, a chain and a gate before a step;
  two inputs, one that escalates and one of five steps that completes or, under
  LangGraph's limit, raises and becomes a 500. One step is always of the
  first kind, so that a step below an escalated one is reached.
- `services`: two deciders and two approvals; two auth threads, three users of
  two emails and two passwords, so that two registrations of one email race and
  a third may come between; three stored records of two sessions, two agents and
  two organizations, with a limit of 0, 1 or 2, so that lists are cut at either
  end and not at all; one retrieval, as retrievals do not write; every role, four
  lists of tools an organization may give; two integrations beside one
  validation; records of the organization service are few and its threads two,
  a patch beside a patch, a listing, or an insert; three notifications or calls,
  with limits of 0, 1 and 2; two calls through the proxies, to every endpoint.
- The runs that end in a violation have the smallest instance in which the
  disagreement can be seen: `memory_session` two organizations, each with an
  agent of the same name; `approval_flow` one execution of three steps, a caller
  that advances, and a client that retries.
- Deadlock is not checked: with all identifiers used and every request
  answered, the engine rests.

### Fairness

`Spec` gives each coroutine that holds the loop weak fairness, each answer of
the runtime strong fairness, each thread inside `cancel_workflow` weak fairness.
asyncio runs what is ready in the order it became ready, so a walk whose answer
arrived is not overtaken forever, although the loop is not continuously free:
hence strong fairness. The answer comes, readable or not, or the 60 second
timeout does: the fairness is of the three actions together. No request of a client is fair: nobody has to advance a paused execution.

`PlatformSpec` asks for less: `WF_platformVars(WorkStep)` says only that the
services do not all stop while there is work for one of them. As the calls are
finitely many and each of them makes finite work, this is enough for every
answer, and no timer is among the steps that must happen: the chain gateway,
engine, runtime ends by itself. `DagSpec`'s fairness is a promise and not an
assumption: `engine_settles` derives it from that of `Spec`.

A run of the agent never waits: its nodes are weakly fair, its beginning is not.
A handler of the task store is a thread that is scheduled: its steps, the run's
end among them, are weakly fair; the requests are not.

## What is proved

Every theorem holds for all values of the constants that satisfy the assumptions
of the modules: any number of requests, workflows, executions, steps, threads,
records. The assumptions say that bounds are naturals, that names which stand for
"nothing" are not names of something, and that what clients send has its type.
Two theorems have a hypothesis of their own, `Cancellers = {}`, where the
property is false with a cancellation (`engine_cancel` shows why); that
`Platform`'s definitions have distinct step identifiers is an assumption of that
module.

### The engine

`WorkflowEngineProofs` proves

- `TypeCorrect`: `SafetySpec => []TypeOK`;
- `OneWalkPerExecution`: `SafetySpec => []SingleWalker`.

`SingleWalker` is not inductive. A second walk can only begin on an execution
that is paused, at a moment when no coroutine is inside a segment; so the
invariant `IInv` adds that the holder of the loop is exactly the request inside
a segment (`LoopHeld`), that a walk which has begun and has not paused is on an
execution that is not paused (`PausedIsIdle`), and that walks and cancellations
are on executions that exist (`WalkedExists`, `CancelExists`). The type of the
walks needs the batches to stay inside the steps of their workflow
(`BatchInSteps`), which needs executions to belong to workflows that exist and
no longer change (`HasWorkflow`). There is one lemma per action; `BatchFrame`
and `WalkEndsIInv` are what several of them share.

`WorkflowSafetyProofs` proves the other safety properties of one execution, with
clients that cancel, post cycles, or advance in any order:

| theorem | property |
|---|---|
| `StepsAreSentOnce` | `AtMostOncePost` |
| `DependenciesFirst` | `DependenciesRespected` |
| `GatesAreNeverSent` | `GateHolds` |
| `LocalSetsAreResults` | `LocalSetsMatchResults` |
| `PauseIsAtAGate` | `PausedAwaitsGate` |
| `CompletedIsComplete` | `CompletedMeansAll` |
| `OnlyAnswersStrand` | `StrandedByAnswer` |
| `ResultsStayFinal` | `ResultsAreFinal` |

As an execution has at most one walk, one predicate says what has to hold of an
execution: `Consistent(walk, x, steps, sent, asked)`, of its walk or of none, its
record, its steps, what was sent for it and which approvals were asked for. Its
parts are `Accounted` (a running execution is in the hands of its walk; results
are of its steps; a walk without failures counts only what is done),
`PhaseIsStatus` (without cancellations the status tells where the walk is),
`Follows` (the local sets are the results; the rest of the batch has no result
yet), `SentRightly` (what was sent has a result, or is what the walk awaits, or
awaited when it was lost), `AtGate` (a paused execution stands at an open gate)
and `Strands` (the walk awaits the step its execution is at, so that this is what
stays behind when the answer cannot be read). Each action is a lemma
about this predicate alone (`GateConsistent`, `AnswerConsistent`, ...); that a
step leaves the other executions alone is said once (`ChangeKeeps`,
`ReturnKeeps`, `QuietKeeps`). `WInv` is that all executions are consistent, that
nothing was sent for those that do not exist, and that unused approvals are
about no step. With repeated identifiers only `Accounted`, `PhaseIsStatus` and
`Strands` hold, which is all that `CompletedIsComplete` and `OnlyAnswersStrand`
need: the former compares the size of a set of identifiers with the length of the list of
steps (`AllNames`).

`DagRefinementProofs` is about several executions together. `OneApprovalPerGate`
(`GateAskedOnce`) counts: the approvals about a step are at most the ones that
clients requested and one for each execution that has come to this gate
(`GatesCounted`); an execution that comes to it was not there before, as its
step would have a result. `WorkflowStatusIsTrue` (`StatusesAgree`, while nobody
cancels) says of a workflow with two executions whose write is the last.
`ImplementsDagSafety` is the refinement of `DagExecution` while nobody cancels,
one step of a walk at a time: `Answer` is `Record`, `Gate` is `Pause`,
`AdvanceResume` is `Approve`, `Verdict` is `Conclude`, `Execute` is `Start`, an
answer that cannot be read is `Abandon` (`AnswerLostIsAbandon`), and all other steps change nothing that `AsDag` sees. The last of the lemmas that
needs an argument is `CountedMeansDone`: the code compares the number of
completed steps with the length of the list, the abstract specification asks
whether each step is done.

### The agent runtime

`AgentLoopProofs` proves, for every set of runs, budgets and recursion limit,
`LoopTypeCorrect`, `HistoryIsPlanSoFar`, `PendingEndsTheRun` and
`LoopImplementsRun`, the safety part of the refinement. Its invariant gives for
each node the relation between the index, the length `n` of the history and the
supersteps (5n + 3 at `choose_action`, and so on), and what a run that went on
must have found: no call asked for, budget left (`WentOn`). From these the
evaluation of each step is the one the input determines (`Evaluated`), so the
returned verdict is that of `AgentRun`; and a run stopped by the limit could not
have ended within it (`Exhausted`). The other runs do not matter to a step of
one run, which `OthersSame` and `Frame` say once.

`TaskStoreProofs` proves `StoreTypeCorrect`, `RecordsAreOfOneRun`,
`RecordsAreOfExecutions` and `EscalationsStand` for every number of requests.
The argument is why the missing lock does no harm: a resumption runs on the
input of a record that exists (`ResumesTask`), its run ends as that input says
(`RunsKeepPromise`), and the record agrees with its input already, so each
assignment of `resume_task` writes what is there (`ResumptionsKeepTasks`). It
rests on `AgentRun` being deterministic in its input, which `LoopImplementsRun`
justifies.

### The composition

`PlatformProofs` proves that the parts stay what they are when they are put
together, and then what only the whole can promise.

- `PlatformImplementsStore`: what the clients, the engine and the adapter do to
  the runtime is no more than what `TaskStore` lets its clients do;
- `PlatformImplementsEngine`: the runtime's answers, late ones and those that
  never come included, are among those `WorkflowEngine` expects. All that is
  proved of the two modules therefore holds in the platform;
- `RuntimeFollowsTheDag` (`TasksFollowTheDag`) and `WhatIsToldIsHandled`
  (`ToldMeansHandled`).

The invariant `PlatformInv` has the invariants of both parts (`EngineInv`,
`StoreInv`, with `StoredAsEnded`: a task is stored as its run ended) and three
facts that tie them. What runs in the runtime under the name of a step was sent
by the engine (`DeliveredWasSent`). A result in the engine's books that is not a
failure is a task handled by the runtime, or an approved gate (`EngineKnows`): it
is here that a late answer, or one to a request that has been given up, could do
harm, and `AnswerIsOfAwaited` shows that an answer is taken only by the walk
that awaits it. And a call has exactly one service at work for it, of the right
kind, whose answer is what is told (`CallsInv`). `TasksFollowTheDag` then follows
from `SentRightly` and `EngineKnows`, `ToldMeansHandled` from `Accounted`,
`EngineKnows` and `CallsInv`.

### The other services

`ListsProofs` is about three services whose lists only grow. `GrantedLoginsFit`
and `LoginsStand` (auth) rest on the first of the users of an email: it exists
(the naturals are well-founded), and users inserted at the end, or after an
iteration began, come behind it. `PacketsAreOwn` and `PacketsAreComplete`
(memory) and `AnsweredAreShown` (notifications) rest on what a page leaves out:
`HighestAreFull` says that, where one element of a finite set has `n` ahead of
it, the `n` highest are `n` and ahead of that one, so that what is not on a page
is before (or behind) all of it, and the page is full. The invariant says of
each store that is read that the packet has what was there when the call came,
or is full; nothing that is stored later disturbs it (`ListsGrow`, `PageKept`).

`ServicesProofs` proves `ClientsAreToldTheTruth`, `ListingsAreComplete` and
`PatchesStand`. For the proxies the invariant is that a client is told of an
answer only when it is there, and an answer is final. For the organization
service it is about what another thread may do to the dicts under a call
(`DictsKept`): records are added at the end, organizations do not change, and a
key only gets the value of a patch that is not answered. So what a listing has
looked at stays what it was, and since a dict that has grown is noticed, what it
has not looked at is of the moment it began; and a patch never finds its key
with a value from before it came. `RestKept` says it once for all actions. Of
the integrations it proves `ValidToolsAreIntegrated`, of the approvals
`ResolutionsAreAttributed` and `ResolutionsAreFinal`; the invariant of the
former is that a resolved approval without an approver has a call that is about
to write one. Of the configuration it proves `TheHighestLayerWins` and
`PresetsAreTheLimit`; the latter needs that no preset gives the empty list of
allowed tools, which allows everything (`PresetsAllowSomething`).

`EachServiceIsItself` is that `ServicesSpec`, which the run `services` checks,
implies the specification of each service, so that all of this holds of them
beside each other; `ServicesTypesCorrect` is the type of the state of all eight,
the configuration's (`ConfigTyped`) and the integrations' among them.

### What stays with TLC

Liveness under fairness is out of the prover's reach: `RunningSettles`,
`EveryRequestAnswered`, `EveryCallAnswered`, and the liveness halves of
`KeepsContract` and `ImplementsDag`. So are the violations, which are single
behaviours. Every safety invariant and every action property that a run checks
is also a theorem; of the two refinements the safety part is
(`LoopImplementsRun`, `ImplementsDagSafety`). The tables of `AgentTasks` are
finite and are checked and proved by looking at each entry.

## What is not modelled

Time stamps, names, payloads and the choice of the agent for a step. The GET
handlers that only read. Tokens, passwords' hashes, scores of relevance, the
simulated results of the adapters, a negative limit of a retrieval or a page.

- *Crashes and replicas.* All state is in module-level dicts, no service writes
  anything down or reads anything back, and there is no handler to recover:
  after a restart a service is in its initial state and its callers get 4xx for
  what they knew. A model would say that and no more. The Kubernetes manifests
  ask for two replicas of the engine, which split that state.
- *Order of transcript chunks.* Each webhook is a task of its own; nothing in the
  code reads the order of the chunks, so no property speaks of it.
- *Analytics service*: an append-only list and counts over a copy of it.
- *AI client and prompts*: simulated providers and text; the retries, fallbacks
  and token budgets their docs name are not written.
- *Worker*: a heartbeat; the consumer of a queue is not written.
- *ORM schema, events, deployment*: not used by any handler.

## Plan

1. Done: `Approvals`, `WorkflowEngine`, its invariants proved.
2. Done: `AgentTasks`, `AgentRun`, `AgentLoop`, the refinement proved.
3. Done: `TaskStore` on `AgentRun`, its invariants proved; `Proxies` and
   `Platform`, the composition with gateway, adapter and engine, proved to
   implement the engine and the store, with what it promises to clients.
4. Done: `DagExecution` and the refinement, checked with its fairness, its safety
   proved.
5. Done: `AuthService`, `MemoryService`, `AIConfig`, `IntegrationService`,
   `OrganizationService`, `NotificationService`, proved one by one and beside
   each other.
6. To do: the executions of one workflow under a cancellation, beyond what
   `engine_cancel` shows: which of the promises of `DagExecution` survive one.
