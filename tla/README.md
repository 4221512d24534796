# Verification of the VAI agent runtime

TLA+ models of `src/src`, the configurations that check them with TLC, and
theorems about them that TLAPS checks.  Paths below are relative to `src/src`, those
that begin with `docs/`, `tools/` or `config/config.yaml` to `src`.

## 1. The system: inventory

VAI is an agent runtime in layers.  `gateway` brings messages in, `agent` turns
them into agent runs, workflows, todo plans and decomposed batches, `platform`
queues and executes jobs, `capabilities` and `runtime` give jobs their tools and
their LLM.  Threads exist in few places (worker pools, heartbeat and supervision
loops, gateway servers); most components are objects with one lock, or none,
that several threads call.

| Component | State it keeps | Operations | Interacts with | Hard behaviour | What makes it correct |
|---|---|---|---|---|---|
| Decomposition (`agent/decomposition`, `platform/runtime/scheduling/dependency.py`, `join_handle.py`) | JoinHandle (state, completed, failed), BLOCKED jobs | fan_out, fan_in, cancel, parallelize; completion and failure callbacks | job store, join store, queue, pool threads, the polling caller | callbacks of several threads and the caller interleave; copies go stale; timeout against late completions | COMPLETED means every output is there; nothing runs twice; every batch is decided |
| Worker and pipeline (`platform/runtime/worker.py`, `pipeline/`, `control_plane.py`) | job state, failure, panic and crash counters, checkpoint, resume token, degraded flag | process_next, with a stage each for crash recovery, degraded mode, execution (retry, poison, panic) | queue, job store, executor | retry, crash between two saves, counters that several policies share, redelivery of a job that had ended | a job is tried a bounded number of times and decided; what failed for good stays so |
| Queue and stores (`platform/queue`, `job_store`) | items, in-flight jobs; saved jobs | push, pop, acknowledge, requeue, nack; save, get, list | workers, producers | copy or alias; lost leases; two-step Redis requeue | a job is in one place |
| Worker supervision (`platform/supervisor`, `runtime/worker_pool`, `heartbeat`) | newest heartbeats, restart counters and timestamps | cycle: collect, judge, restart, refill, escalate | pool threads, control plane | heartbeats lost, late and overtaken; counts of a worker that no longer exists; a pool that vouches for its threads | restarts follow what was heard; repeated restarts are reported |
| Todo planner (`capabilities/planner`, `agent/planner`) | todos and todo_deps tables | add, next pending, mark done / failed / blocked; one item per cycle; the LLM's todo tools | worker pipeline, workflow engine | dependency on an item that failed; retries; in-progress item after a crash; edits while an item runs | terminates; respects dependencies; retries bounded |
| Agent lifecycle (`agent/supervisor.py`, `router.py`) | AgentState by agent id: lifecycle, frozen workflow instance, pending tool calls | create, activate, step (routed to LLM, workflow or council), persist, decompose_task | every other part of the agent | calls on one agent overwrite each other's state; a line is routed by its prefix, whatever the agent waits for | an agent that waits can go on where it stopped; nothing runs unasked |
| Workflow engine (`agent/workflow`, `workflow_invoker.py`) | executions by id, their step and status | start, step, resume_with_result, resume_with_input, fail_step, handle_timeout, cancel, retry; the loop | agent step, interaction requests, operator | the instance is past a step before its result is there; copies in agent state, store and loop; failure edges loop | an execution is in one pair of hands and never goes back; every call ends |
| Human in the loop (`agent/hitl_manager.py`, `workflow/user_interaction.py`) | pending requests by workflow and step; tool calls to confirm | ask, answer, refuse, expire; confirm, decline | agent step, gateway | requests shared by executions, replaced, expired; answer to another question than the one shown | the answer belongs to the prompt; a wait has its request |
| Gateway adapter and command line (`agent/adapters/gateway_adapter.py`, `tools/channels/cli_app.py`) | the agent the command line waits on | ingest, resume | agent step | the choice between ingest and resume | the next line goes to the agent that asked |
| Deferral and councils (`agent/deferral`, `agent/council`) | deferral graph, depth, votes | validate, resolve, synthesise | agents | cycles, depth limit | acyclic, bounded depth |
| Memory (`agent/memory`) | entries, summaries, quotas | write, compact, evict, govern | agents | order of eviction and compaction | quota respected, pinned kept |
| LLM client, retry, circuit breaker (`runtime`) | failure window, open/half-open | call, record | network | half-open probe | opens and recovers |
| Primitives, patterns, registries, loaders (`capabilities`, `agent/loaders`) | tables filled at start | lookup, run a tool | executors | none beyond I/O | - |
| Devsquad pipeline (`devsquad`), workflow events (`agent/workflow/event_bus.py`, `trigger_router.py`) | queue of executions, results, instance store | run_pipeline, one loop per execution, a handler per kind of step; publish, route | workflow engine, registry | a patched `start_workflow`; handlers that save a state the loop does not have; sub-workflows queued twice; loops | executions run in order, none lost; reports agree with the store |
| Gateway, transport, observability, deployment (`gateway`, `platform/transport`, ...) | sessions, metrics | HTTP, CLI, chat | agent supervisor | I/O | - |
| Domain, config | - | data classes, parsing | agents | - | - |

`PROJECT.json` lists each with its status, and the hazards at their lines.

## 2. Plan

Order: first what runs concurrently and cannot be tested, then the state
machines that several parts drive, then the sequential policies.

| Step | Module | Composes / refines | Properties and theorems |
|---|---|---|---|
| done | `ForkJoin` | abstract | - |
| done | `Decomposition` (caller, stores, queue, pool threads, callbacks) | refines `ForkJoin` with any pool (proved) | sections 4, 6 |
| done | `WorkflowRun` (agent step, engine and loop, requests, command line, operator) | - | sections 4, 6 |
| done | `JobDelivery` (queues with leases, both stores, `process_next` with all its stages, crashes) | queue, store and pipeline together | sections 4, 6 |
| done | `TodoPlan` (tables, worker cycle, todo tools, crashes) | - | sections 4, 6 |
| done | `PipelineRun` (driver, engine, event bus, trigger router) | - | sections 4, 6 |
| done | `WorkerSupervision` (heartbeats, supervision cycle, pool) | - | sections 4, 6 |
| open | circuit breaker of `runtime/llm` | - | opens, probes once, recovers |
| open | deferral graph, DAG validator, memory eviction | pure algorithms | equal to a reference definition on bounded inputs |
| open | file store of agent states | refines an atomic store | a crash leaves the old or the new state |

Open for the decomposition itself: a second concurrent batch on the same queue.
Open for the workflows: deferral between agents (an agent suspended while another
one answers), and `JobDelivery` behind a dispatched tool step.

Open among the proofs: an abstract at-least-once queue that `JobDelivery` implements;
that a pipeline whose triggers have an order starts a bounded number of executions
(the run of each is bounded, section 6.5).

## 3. The models

### 3.1 Decomposition

`ForkJoin` is the promise: a batch of children, each settled once, and one
verdict that agrees with them.  `Decomposition` is the code: the caller's
thread, `Workers` pool threads, the job store, the join store, and the queue.

**Correspondence.**  `store`, `handle` and `queue` are the contents of
`JobStore`, `JoinStore` and `JobQueue`.  `opc` is the caller's place in
`fan_out`, the poll loop of `Supervisor.decompose_task` or
`DecompositionOrchestrator.parallelize`, `fan_in` and `cancel`; `copy` is the
handle object it holds between a read and a save.  `pc`, `cur`, `todo`, `sib`
and `need` are a thread's place in `Worker.process_next`,
`handle_child_success` and `handle_child_failure` and the locals of those
methods: the job it holds, the siblings of its scan not yet visited, the
sibling it read, the dependencies not yet looked up.  `ran` is a history
variable: how the last execution of each job ended.  It is used by properties
only.

**Grain.**  Every method of the stores, the queue and the handle takes one lock,
so one such call is one action and everything between two calls interleaves.
Consecutive saves of the same object in the same state are one action
(`register_job` with its first checkpoint; hydrate with `issue_resume_token`;
`mark_succeeded` and `mark_failed` with their token and checkpoint).  

**Copies.**  `get` returns a deep copy, `save` keeps the object it is given, and
the queue hands out the object that was pushed.  So a popped job may be the very
object in the store.  The model has values instead: each place where the code
changes such an object is followed by a save of it, so the difference is never
seen.  A copy read by one action and saved by a later one is where the hazards
are, and those are steps of their own (`Scan` and `Unblock`, `Survey` and
`CancelSibling`, `TimeOut` and `CancelSave`, `FanInRead` and `FanInSave`).  The
join store's `record_child_*` reads, changes and saves under its lock.

**Abstracted.**

- Executors: one step, with an outcome; a subtask whose executor answers
  `status: "error"` still SUCCEEDS, as in `SubtaskWorker.__call__`; an exception
  fails it.
- Retry, degraded mode and poison: an exception leads to `mark_failed`.  A child
  is executed once, so its `failure_count` stays below the poison detector's limit and
  POISON is not reachable here.  They are the subject of `JobDelivery`.
- `in_flight` of the queue: written by `pop` and read by nobody on this path.
- Ids: plan ids and job ids are fresh uuids and never meet.  That is why a
  child's `depends_on` (plan ids) finds no job.
- `Collect` reads all results in one action: it is reached only when the
  children are settled, and `CompletedMeansAllOutputs` says that they stay.
- Merging: which children were merged, not how.
- Another batch on the same queue only delays this one's jobs.

**What the code does here, and one may not expect.**  With two threads, the default of
the pool (`config/config.yaml` sets five), copies go stale between a scan and its save:

- The continuation can be unblocked twice: the second scan saves its copy as PENDING
  over a record that is SUCCEEDED by then, and pushes the continuation again, which
  runs again (`dependency.py:106`).  `job_state.py:50` says "Terminal — no outgoing
  transitions from SUCCEEDED, FAILED, or POISON."
- A sibling that was read PENDING is cancelled while another thread runs it: it is
  charged as failed and recorded as completed, its output replaced by FAILED, or its
  FAILED record by RUNNING (`dependency.py:163-167`).  So a settled handle may list a
  child otherwise than the job store does.

Neither happens to a child of a batch without a failure, and no child is executed
twice: that is what `NoChildRunsTwice` and `OutcomesAreKept` say, for any number of
threads.  They promise nothing for the continuation, and nothing that holds could.
`ForkJoin` speaks of children and verdict only, and of the verdict it promises no more
than the code keeps: a caller may get an `AttributeError` in place of its diagnosis
("undiagnosed").  `batch_race` checks all of them with two threads; five add no kind of
race to those of two, and the theorems of section 6.1 hold for any number.

### 3.2 Workflow runs

`WorkflowRun` is an agent's step when it meets a workflow: `GatewayAdapter.ingest`
and `resume`, `Supervisor.run_agent_step`, `WorkflowInvoker.run_workflow_loop`,
`WorkflowEngine`, `UserInteractionManager`, the confirmation of tool calls, the
command line in front, and `WorkflowOps` beside it.

**Correspondence.**  `store` is the agent state store: per agent the lifecycle,
whether tool calls are pending, the frozen instance, what it waits for, its
request, and whether it has replied.  `saved` is the workflow store by execution
id (a uuid in the code, a count here).  `requests` are the pending interaction
requests: their id is made of workflow and step, so that is what they are.
`call` has, for each thread, where it is and the copies it works on; `waiting`
and `shown` are the command line's `_waiting_agent_id` and the prompt it printed
last.  `operating` is the record `WorkflowOps` has read and not saved yet.
`registry` never changes; it is a variable so that one run covers several.
`ran` and `answered` are history variables, used by properties only.

**Grain.**  `AgentState` and `WorkflowExecutionState` are copied on every change,
so between two accesses to a store a call is alone.  An action is one access
(load or save of a store, or of a request) with the work before it:
`create_agent` and `activate_agent` are one action, as their saves differ in
nothing that is read here; a line's routing and what it leads to are one; each
round of the loop is one action up to the engine's save (`Finish`, `Broken`,
`Branch`, `Begin`) and one for the outcome (`Succeed`, `FailStep`, `Dispatch`,
`Ask`, `StartSub`).  The operator's read and save are two.

**Abstracted.**

- A line is what `route_message` and the affirmative pattern make of it: plain,
  a yes, `/council`, `/workflow`, or `/workflow <id>`.
- An LLM, a tool or a council ends one way or the other; contexts, templates and
  results are data.  `apply_pattern` becomes an `llm_call` in the engine, or a
  failure when the pattern is missing: that, an unknown council and a step that
  is missing are type `broken`.
- A schema is the set of answers it may give to a line (`verdicts`): one at least.
- A yes sent to an agent that waits for nothing lets the LLM's tool calls run at
  once: so the code means it (`supervisor.py:614`), and it is not counted in `ran`.
- An error is where it is caught.  A result that says "error", a tool or a council that
  fails is `FailStep`; whatever is raised and not caught in the loop (the strategy that
  calls the LLM or the selector, `workflow_invoker.py:261, 302`; a store) ends the call
  at once, at any of its steps: `Raises`.
- Left out: `defer_to`, `execute_todo_plan`, council tools and `/invoke-workflow`
  inside an LLM conversation, suspend and deactivate, and the web endpoints'
  resume.

**What the code does here, and one may not expect.**  When a call raises, what it saved
so far stays: the workflow store's rounds, and the end of the request it answered
(`user_interaction.py:129`).  The agent's own state does not follow; it goes on waiting,
frozen at an old step, for a request that is gone.  `resume` answers "Resume step
failed" (`gateway_adapter.py:194`), and the command line then forgets the agent
(`tools/channels/cli_app.py:73-76`), so its next line starts another one.
That is all that keeps such an agent from repeating steps, or from refusing every answer
for ever.  `ParkedIsCurrent` and `RequestForEveryWait` therefore speak of the agent the
command line will resume, and not of every agent in the store, for which they fail.

### 3.3 Todo plans

`TodoPlan` is the todos and todo_deps tables (`TodoStore`), one run of
`TodoWorker` over them, which the execution stage calls cycle after cycle until it
answers done, and the LLM that carries an item out and may edit the same tables
through its `stdlib.todo.*` tools.

**Correspondence.**  `status`, `retries`, `age` and `deps` are the two tables
(`age` is the order of `created_at`; rows of one batch have the same).  `pc`, `item`
and `iteration` are the run's place, the item it has in hand and the count of a
goal's inner loop.  `edited` and `attempts` are history.

**Grain.**  The tables are an SQLite file and every statement commits, so an action
is one access to them.  A crash ends the run between two of them, and the next run
has nothing but the tables.

**Abstracted.**  Titles, progress and outputs; `_parse_complete_signal` is a choice.
`todo_create` ignores the type and the parent it is given, so an item made on the way
is a task.  Selection among rows of one age is the database's choice.

**What the code does here, and one may not expect.**  An LLM's own `todo_mark_*` on
the item in hand is overwritten by the unconditional `mark_done`
(`todo_worker.py:183`).  A dependency that is not in the table holds nothing up.  A
goal out of iterations uses two retries (`:302`, `:187`).  A plan with a failed item
in front of a pending one never answers done: `todo_orchestrator.py:90` says
"``done``: ``True`` (always, since the pipeline runs to completion)", and this is
why `RunEndsOrSticks` has its second half.  `Supervisor.execute_todo_plan`, another
way to run a plan, is not modelled.

### 3.4 Job delivery

`JobDelivery` is a queue with leases, a job store, and workers that run
`Worker.process_next` with every stage of its pipeline; workers, and whoever requeues,
may crash.  Two deployments: the in-memory queue and store, and Redis with SQLite.

**Correspondence.**  `queue` and `leased` are `_items` and `_in_flight`, or the two
Redis lists.  `store` is the job store; `copy[w]` is the job object the worker
changes: the stored object itself in memory, and with Redis the job *as it was
pushed*.  `attempt` and `cycles` are locals of the execution stage's loop, `degraded`
is `DegradedModeStage._degraded`.  `moving` are jobs between the two commands of the
Redis `requeue`, `orphans` those whose worker died.  `failed` and `dropped` are history.

**Grain.**  An action ends with a save.  What lies between two saves of one worker is
lost with it, and nothing else is: nobody else saves the job it holds (`CopyInv`).

**Requeue.**  No code in the source calls `requeue`, `acknowledge` or `nack`;
`worker_pool/crash_recovery.py` would ask for a requeue, if the pool ever told it which
job a worker had.  So the job of a worker that crashed stays in flight.
`docs/architecture/EVENT_SUBSTRATE.md:141` says "If the worker crashes, the lease
expires and the job is requeued.": neither queue has a lease that expires.  In the model
somebody outside of the source may requeue such a job, and need not: a redelivery is
possible at any time and nothing obliges it.  `JobsSettle` leaves out the jobs a crash
took.
`requeue` in memory puts a job to the front, with Redis to the back: the queue pops
from the other end than the one it pushes at.

**What the code does here, and one may not expect.**  In memory, a redelivered job
that was running counts as recovered, which degrades the worker at once; the job ends
SUCCEEDED with a fallback and is never executed again.  `degraded_mode.py:433` lists
"job_completion_attempt" among what is forbidden in that mode.  With Redis the
redelivered object is new: it is executed again although the store may say SUCCEEDED
(so `DeadStaysDead` is about FAILED and POISON only), and its crash count never grows, so nothing degrades.  A redelivered SUCCEEDED job in
memory makes `process_next` raise.  No stability signal reaches the degraded mode, so
a worker never leaves it.  The idempotency stage has no keys to look at, and the crash
recovery's poison branch lies behind a skip of poisoned jobs.  An executor that returns no dict
raises outside of the retries, and the job is FAILED at once (`Malformed`).  The
documentation disagrees with itself on FAILED: `docs/architecture/LIFECYCLE.md:42` has a
transition "FAILED | PENDING | Retry (requeue)", its line 46 "No outgoing transitions
from `SUCCEEDED`, `FAILED`, or `POISON`."; the code does as line 46 says, and so does
`DeadStaysDead`.

### 3.5 Pipelines of workflows

`PipelineRun` is `PipelineDriver`: a queue of executions run one after the other, each
in a loop over `WorkflowEngine.step`, with handlers for what a step asks for.  A
`publish_event` step goes through the event bus and the trigger router to
`engine.start_workflow`, which the driver has replaced by a function that queues what
is started.

**Correspondence.**  `pending`, `results` and `store` are `_pending`, `_results` and
the instance store; `current` and `iteration` are `_run_single`'s locals, `at` the step
its handler carries out.  `registry` never changes; a run covers many of them.
`started`, `unheard`, `subs` and `broken` are history.

**Grain.**  One thread; an action is a turn of a loop up to the next call of the
engine.

**What the code does here, and one may not expect.**  The handlers bind the engine's
answer to a local name, so results never reach the next step, and a failure is saved
over by the loop (`failed_step_lost`).  A sub-workflow's execution is queued by the
patched function and by the handler, and runs twice.  A question raises
`AttributeError` (`pipeline_driver.py:165`: an outcome has no `prompt`), which, like
the errors of an LLM route or of a file write, ends the whole pipeline.  A council's
result says failed and the store running.  The sprint's first event is published
before there is a driver: the executions it starts are nobody's, and `run_pipeline`
starts others.  An event outside `_START_EVENT_TYPES` starts nothing.  Workflows that
trigger each other in a circle never end; the registries of the run have none.

### 3.6 Worker supervision

`WorkerSupervision` is `SupervisorLoop` with what feeds it: heartbeats that workers
and strangers send, that are delayed, overtaken or lost, and that
`ControlPlane.accept_worker_heartbeat` brings; and the worker pool, which calls
`evaluate` at its interval and applies the decision.

**Correspondence.**  `beats`, `stamps` and `counts` are `_heartbeats`,
`_restart_timestamps` and `_worker_restart_counts`, with timestamps as ages in check
intervals (older than the limit they are compared with is all the same).  `turn` is the
supervisor's place in its cycle.  `heard` and `restarts` are history.

**Two feeds.**  In the pool, the cycle first records a healthy heartbeat for each of
its threads, made on the spot (`pool.py:196`); so a thread that has died is never
missed, although `docs/architecture/WORKER_POOL.md:104` says "Supervisor detects
missing heartbeat on next cycle." and `LIFECYCLE.md:87-90` the same: `dead_thread` is
that disagreement.  The pool is the only caller of `evaluate` in the source.  The loop
fed by the control plane alone, with real heartbeats only, is how its tests use it;
`RestartsMatchBeats` speaks of that feed, and `BurstCounted` of both.

**What the code does here, and one may not expect.**  The per-worker limit
(`supervisor_loop.py:575`) is compared with counts that are removed with the worker
they count, so it never fires; only the burst limit is left.  Each unhealthy worker
brings two replacements, its own and one for the slot it loses.  The fresh ids, which
`:504` calls "never-used-before", start at worker-0, where the pool's ids start too.  A
heartbeat that says "unresponsive" counts as healthy.

## 4. Runs

| Run | Question | Result |
|---|---|---|
| `batch_race` | two threads, both callers, pool warm or cold, both plans, any failure, any deadline: is COMPLETED ever false, a merge partial, a continuation early, a child run twice, a record of one lost without a failure; is the promise kept? | no, and it is (1.9 million states) |
| `batch_progress` | started after `fan_out`, is every batch decided? | yes (90 thousand states) |
| `lost_completion` | is a batch of successful children reported complete when the pool already runs? | no: a child can finish before the handle is saved |
| `shared_agents` | a person and a pool thread on two agents, one shared: any step may raise: can a waiting agent go on, does the one that is resumed do so from where its execution stopped; is an execution ever in two hands; does an answer match its prompt; does every call return? | yes; never; yes, where nobody else uses the agent; yes (107 thousand states) |
| `operated_instances` | the person alone, while an operator cancels and retries at any time: does an old position come back? | not to the agent that is resumed (475 thousand states) |
| `unasked_yes` | do side effects run only on a yes to their own confirmation? | no: a yes to a workflow's question runs tool calls left pending |
| `todo_plan` | four plans, every tool, crashes: are dependencies respected, attempts bounded, done items left alone; does the run end? | yes; it ends, or only what waits for a failed or blocked item, or for itself, is left (1.5 million states) |
| `job_delivery` | two jobs, two workers, both deployments, any failures, two crashes: is a job ever in two places or in none, tried without end, changed after it failed, left undecided? | never, but for a job in flight at a crash that nobody requeued, or whose requeuer crashed with it (960 thousand states) |
| `pipeline_run` | 288 registries: are executions run in order, is one lost, does a report disagree with the store, does the pipeline end? | yes; none; no; yes (37 thousand states) |
| `failed_step_lost` | does a failed step without on_failure fail its workflow, as `engine.py:344, 354` says? | no: the loop goes on from the state before and reports it completed |
| `supervision` | heartbeats lost, late, overtaken, from strangers: do restarts follow the newest, are bursts counted over the window? | yes, where the pool does not vouch for its threads, and yes (431 thousand states) |
| `dead_thread` | is a thread that died restarted, as `WORKER_POOL.md:104` says? | no: the pool sends its heartbeats for it |

**Disagreements seen in the models and not run.**  A run asks a question that the others
leave open; these follow from the runs above or from one step of the code.

- A subtask with dependencies never runs: `depends_on` holds plan ids and is looked up
  as job ids (`decomposition/orchestrator.py:336`).
- With two threads, SUCCEEDED is not final for the continuation, against
  `job_state.py:50`, and a handle may disagree with the job store after a failure
  (section 3.1).
- A call that raises leaves its agent behind its execution, waiting for a request that is
  gone (section 3.2).
- A job in flight at a crash stays there, against `EVENT_SUBSTRATE.md:141` (section 3.4).
- `parallelize` reports a failure with a cancelled sibling as `AttributeError`, since
  that sibling has no result (`decomposition/orchestrator.py:269`).
- A line after a question that does not begin with `/workflow` goes to the LLM and
  completes the agent, its question open (`router.py:154`).
- A cancelled instance whose loop is running is saved as running again
  (`workflow_invoker.py:164`).
- Those named under "one may not expect" in sections 3.3 to 3.6.

**Bounds of the decomposition.**  Three children: two that end at the same time
and a third one that is unblocked or cancelled by both.  Two threads: every race
in the code is between two threads or a thread and the caller.  Plans:
independent, or the last subtask needs the first (the smallest plan with a
BLOCKED child).  Two children suffice for the counterexample.  There are no
counters to cap.

**Bounds of the workflows.**  `MaxIngests = 2`: the only bounded input.  One
message parks an agent and another overtakes it, on the same agent or another
one; a person's resumes are not bounded, so an agent goes through its whole
workflow as often as its edges allow.  `MaxIterations = 3` for 50: enough for
every pair of successive steps in a call, and for a loop to reach it; the theorems
hold for any number.  Two registries of three workflows (`MCWorkflowRun`) have every step
type, both edges of each, questions with and without a timeout, and with schemas
that accept, refuse or do either.  The requests of agents in one workflow
collide; a1's workflow is reached by no other agent: a line names only a workflow
that is not registered (`MCNobody`).  The proofs let any line name any workflow, and
agents share any of them.
In the operator's run the person uses one agent.

**Bounds of the other models.**

- `todo_plan`: a goal, two tasks and an item made on the way; four plans: a chain,
  none, a dependency on an item that does not exist yet, a cycle.  `Retries = 2`
  (3 in the code) and two iterations (30) are the least with a retry that follows a
  failure and an iteration that follows another; `MaxEdits = 2` tool calls, so one
  edit can meet the effects of another; `MaxCrashes = 1`.
- `job_delivery`: `PoisonAt = 3` and `AttemptLimits = {1, 3}` for 5 and 1, 2, 3, 5: the
  largest limit is the poison detector's, as in the code, so that poison needs a
  redelivery.  `FailureLimit = 2`, `PanicLimit = CrashLimit = 1`.  `MaxCycles = 2`: a
  good cycle after a bad one and the reverse.  `MaxCrashes = 2`: a job whose second
  delivery crashes, or whose requeuer does.
- `pipeline_run`: `MaxIterations = 4` for 200, which loops reach and the longest way
  through three steps does not.  The registries of three workflows have every type of
  step, events with one, two and no listeners, conditions that loop, sub-workflows inside
  what an event started, missing edges; no two workflows start each other.
- `supervision`: one pool thread and a stranger, `MaxTransit = 2` heartbeats under way,
  so that one overtakes another; `Timeout = 1` and `Window = 2` intervals (6 and 12 in
  the code), `MaxRestarts = 2` (5): a window holds more intervals than `MaxRestarts`, as
  60 s of 5 s do for 5, so bursts happen.  `dead_thread` has the pool's feed only.
  `Concurrencies = {1, 2}`: a full pool, and one with a slot that never fills.

**Deadlock.**  A batch ends: the caller has its answer, the queue is empty and
the threads are idle.  A person may have nothing more to say; a run over a todo plan
and a pipeline end; and all jobs may be decided.  So the check for deadlock is off
there, and that things end *well* is what the liveness properties say.  It is on in
`supervision`, whose loop never ends.

## 5. Fairness

`FairSpec` assumes weak fairness of the caller's own steps and of each thread's
processing and callbacks: both are loops of an operating system thread that
never block for ever (`pop` polls, the executor is bounded by its own timeout).
`TimeOut` has none, since nothing makes a deadline pass in a given run, and
neither has `Checkpoint`, so that a job's execution must end.  The liveness runs
start the pool after `fan_out` and let no deadline pass: a warm pool loses
completions (`lost_completion`), and a caller that gave up is not told.

`FairSpec` of `WorkflowRun` assumes weak fairness of `CallStep` for each caller: a
call is a plain sequence of Python statements on one thread, and an LLM, a tool or
a council answers or raises.  Nothing makes it raise: `Raises` has no fairness.  No message need ever come, no request expire, and
no operator act.

`TodoPlan`: weak fairness of `Cycle`, the worker's own thread, which an LLM's errors
and timeouts never hold for ever.  No tool need be called and no crash happen.
`JobDelivery`: weak fairness of each worker's `Work`, a loop of its thread, and of
nothing else: a crash may leave a job for ever, which is what the code does.  An executor need not end well, fail or
be done: `GoodCycle` is bounded by `MaxCycles`.  `PipelineRun`: weak fairness of
`Next`, one thread that runs on.  `WorkerSupervision`: `supervision` needs
none; `dead_thread` has weak fairness of `Evaluate`, `Apply` and `Tick`, the pool's
supervisor thread and time, so that the thread is missed by a supervisor that does look.

## 6. What is proved

No theorem assumes more than the named assumption on the constants of its module,
except where a hypothesis is part of its statement: `PoolIsLate` (6.1), the order in
which `decompose_task` does things.  Every proof module extends the module it is about.

### 6.1 Decomposition

`Decomposition_proofs` proves, for every number of children, every set of
plans, callers and workers that satisfies `PlanAssumption`:

| Theorem | Statement |
|---|---|
| `Inductive` | `Spec => []IndInv` |
| `TypeCorrect` | `Spec => []TypeOK` |
| `CompletedIsComplete` | `Spec => []CompletedMeansAllOutputs` |
| `ContinuationIsLast` | `Spec => []ContinuationSeesAllOutputs` |
| `MergedIsWhole` | `Spec => []MergeIsWhole` |
| `ChildrenRunOnce` | `Spec => []NoChildRunsTwice` |
| `HandleSettles` | `Spec => HandleSettlesOnce` |
| `OutcomesStand` | `Spec => OutcomesAreKept` |
| `BatchKeepsPromise` | `Spec => KeepsPromise` |
| `EverythingIsUnderway` | `ASSUME PoolIsLate PROVE Spec => []ProgressInv` |
| `NothingIsLeftWaiting` | `ASSUME PoolIsLate PROVE Spec => []NothingHangs` |

None of the invariants is inductive alone.  The argument:

1. `EnqueueInv`: the caller pushes each child once, in order, and only children
   without dependencies; a child not enqueued has not run.
2. `PlaceInv`: so a child is unpushed, once in the queue, with one thread, or
   done, and `ran` says how its thread's execution went.
3. `UnblockInv`: a scan can unblock only the continuation, because a child's
   dependencies are never found.  What the scan has checked off has run well,
   and `ran` of a child never changes again (2), so stale copies do no harm:
   the continuation is queued or held only when every child ran well.
4. `StoreInv`: a finished child's record is overwritten only by a cancellation,
   which needs a failed child.
5. `HandleInv`: the handle and the caller's copy of it list completions and
   failures that happened.  With 4: COMPLETED implies that all ran well, so none
   failed, so all outputs are still there.
6. `SettleInv`: unless the caller cancelled, the handle's state is what its two
   lists say, so recomputing it later does not change it.

`NoChildRunsTwice` follows from 2, over the steps: what a worker takes up has not run.
`OutcomesAreKept` does too: a child that has run is held only by the thread whose own
report is due, so of all the saves of others only a cancellation reaches its record, and
4 says what that needs.  `BatchKeepsPromise` is the refinement, step by step: `Outcome`
is what `ran` says, so the end of a child's execution is the one step that changes it
(`OutcomeStep`); `Verdict` is the caller's place, and by 5 the place it comes to is one
that what happened to the children allows (`VerdictStep`); no step changes both.

**Nothing hangs.**  `NothingHangs` is what safety can say of the three liveness
properties of a batch: when the queue is empty, the threads are idle and the caller is
past `fan_out`, no runnable child was left behind, the handle has settled if a child
failed or all ran well, and in the latter case the continuation has run.  `PoolIsLate`
says that the pool starts after `fan_out`, which is the order of
`Supervisor.decompose_task`.  `parallelize` finds its pool running, and there it fails:
a child may report before the handle is saved (`lost_completion`).  The invariant,
`ProgressInv`, follows the work through the callbacks of any number of threads:

1. `LateInv`: whoever finishes a job finds the handle saved and every sibling
   registered.
2. `ReportInv`: what has run is on the handle, or its thread is about to record it; and
   a handle that accounts for every child has left WAITING.
3. `CancelledInv`, `HuntInv`: after the first failure, a child that has not run is
   charged, about to be charged, queued, held, or still on the list of a thread that
   goes through the siblings.  The caller may give up meanwhile, and thereby write its
   own copy over the handle; so both speak of the time before that only.
4. `PushedInv`: a child without dependencies is queued or held until it has run, unless
   it was cancelled.
5. `WakeInv`: the continuation is BLOCKED until every child ran well; after that, a
   thread is still to list the siblings or has it on its list, and will find all of its
   dependencies SUCCEEDED.  The last of them to be saved is the one that matters, and
   which one that is no thread knows.

### 6.2 Workflow runs

`WorkflowRun_proofs` proves, for all agents, callers, workflow registries, lines
and round limits that satisfy `RunAssumption`, with and without an operator:

| Theorem | Statement |
|---|---|
| `Invariance` | `Spec => []IndInv` |
| `TypesCorrect` | `Spec => []TypeOK` |
| `WaitsAreCoherent` | `Spec => []WaitIsCoherent` |
| `ParkedAreCurrent` | `Spec => []ParkedIsCurrent` |
| `OneOwnerEach` | `Spec => []OneOwner` |
| `CallsAreBounded` | `Spec => CallsRunDown` |

The agent store is written without any comparison, and a call that raises writes nothing,
so why does the agent that is resumed never stand at an old position?

1. `CallInv` and `StoreInv`: each call's copy of its agent's state, and each
   record of the store, is coherent: a frozen instance is right behind the step
   it waits for.
2. `OwnInv`: an execution is *held* by one call at most (in its loop or frozen in
   its copy) and by one record of the agent store at most, and by both only while
   that call resumed that agent.  An execution gets its holder when it is started,
   under a new id; a call passes it to the store when it saves; `Ingest` drops what
   the agent held.  So whichever call saves last, two records never get the same
   execution.
3. Hence only its holder writes an execution's record, and what a call or a
   parked agent holds is what the workflow store has: `FreshOK`, `ParkedIsCurrent`.
4. The operator writes what it does not hold, and what it read some time ago.
   `OperatorInv`: a retry is over a record that is still failed, because nobody
   carries a failed execution on; and an instance that waits or runs never has a
   failed record.  So the operator can only leave such a record cancelled.

5. A call that raises leaves its agent behind, and item 3 fails for that agent.  But a
   person's call that raises makes the command line forget its agent, and a call that did
   not resume writes no execution that a parked agent holds; so the agent that `waiting`
   names is not behind.

Each action of a caller has its lemma (it keeps the types and is a `Moves`), and
`MoveKeeps` does the rest for all of them once.

`CallsRunDown` is the safety half of `CallsReturn`: `StepsLeft(c)` goes down with every
step of call c, and with nobody else's does it change, so a call is over after
2 * `MaxIterations` + 4 of its own steps whatever its failure edges do.

`WorkflowRequests_proofs` proves, under the same assumption:

| Theorem | Statement |
|---|---|
| `PersonInvariance` | `Spec => []PersonInv` |
| `EveryWaitHasRequest` | `Spec => []RequestForEveryWait` |
| `AnswersAreToThePrompt` | `Spec => []AnswersMatchPrompt` |

Both properties speak of agents that no pool thread is given.  Their workflows, and so
their requests, which are named after workflow and step, may be shared with any other
agent.  Why does no other execution take such a request away?  Requests are taken away
by answers and by expiry, both happen only to a call that resumes, and only the person
resumes (`OnlyPersonAnswers`); another execution of the workflow can only write the
request anew.  `AddressInv`: the other calls are on agents within their reach, and the
person's resume is on the agent the command line waits for.  `ScreenInv`: nobody else
saves that agent, so what was printed is what it waits for, until the person's own call
has saved again.  `PendingInv`: a call about to answer, or about to wait, has its
request pending.  If the call raises after it has answered, the request is gone, and the
command line has no agent to resume.

### 6.3 Todo plans

`TodoPlan_proofs` proves, for all items, plans, retries, iterations, tools and numbers
of edits and crashes that satisfy `PlanAssumption`:

| Theorem | Statement |
|---|---|
| `Invariance` | `Spec => []IndInv` |
| `TypeCorrect` | `Spec => []TypeOK` |
| `Ordered` | `Spec => []DependenciesDone` |
| `Bounded` | `Spec => []AttemptsBounded` |
| `Final` | `Spec => DoneIsFinal` |
| `StuckBehindFailure` | `Spec => []StuckOnlyByFailure` |
| `RunsAreBounded` | `Spec => RunRunsDown` |

Resumption looks at no dependency, so why do they hold?  `HandInv`: there is one item
in progress at most, and while a run has an item in hand it is that one.  So whatever
makes another item done, failed or pending again is either the run, with its item in
hand, or a tool, and an item a tool has touched is not spoken of.  `AttemptInv` pays for
each attempt with a retry or a crash: an item in progress that nobody has in hand was
left by a crash.  `StuckHasCause` is the one argument over data: among the pending
items of an acyclic plan one has no pending dependency, by `Acyclic` for the set of
them, and if no item has failed or is blocked, that one is ready.

`RunRunsDown` is the safety half of `RunEndsOrSticks`: a step of a run takes an item,
which `Bounded` bounds, or leaves it fewer steps to make (`StepsLeft`), a tool call adds
none, and a run that is stuck between two items stays stuck, through crashes too.  So
the only loop without an end is the one of the execution stage over a stuck plan.

### 6.4 Job delivery

`JobDelivery_proofs` proves, for any jobs, workers, deployments, thresholds and
numbers of cycles and crashes that satisfy `DeliveryAssumption`:

| Theorem | Statement |
|---|---|
| `Invariance` | `Spec => []IndInv` |
| `TypeCorrect` | `Spec => []TypeOK` |
| `NoDoubleDelivery` | `Spec => []OnePlace` |
| `Budget` | `Spec => []FailureBudget` |
| `Degradation` | `Spec => []DegradedOnlyAfterCrash` |
| `DeadAreLeft` | `Spec => DeadStaysDead` |
| `LeasesAreAccounted` | `Spec => []LeaseInv` |
| `NoneForgotten` | `Spec => []NoJobIsForgotten` |
| `DeliveriesEnd` | `Spec => DeliveriesRunDown` |

1. `HoldInv`: a busy worker holds a leased job that is no orphan, so what is
   requeued is nobody's.  With `OnePlace` it is inductive.
2. `CopyInv`: hence nobody else saves the job a worker holds, and from hydration on its
   object is the stored one; a job that failed for good is not hydrated.
3. `BudgetInv`: a failing call since the last good one is in the stored count, or not
   saved yet, or lost with a crash, or the one that ended the job; and the count never
   passes the poison threshold, which is looked at before each retry.
4. `CalmInv`: without a crash in the in-memory deployment, what is delivered has no
   consecutive failure, panic or crash, so no gate degrades a worker.

The last three are the safety half of `JobsSettle`.  Nothing in the source acknowledges
a job, so its lease remains after it has ended, and nothing tells such a lease from that
of a job somebody works on; `LeaseInv`: still, a lease that neither a worker holds nor
the requeuer knows of is of a settled job, so a queue at rest has forgotten no job
(`NoJobIsForgotten`).  And a delivery ends: `StepsLeft(w)` counts what a worker can
still do with its job.  A failure brings the job one nearer to poison, and a good cycle
starts that count anew, but there are `MaxCycles` of those at most; so the measure is
lexicographic, and `Lap` is what one good cycle is worth in failures.  That an executor
ends within some number of cycles is the one thing the theorem needs of it.

### 6.5 Pipelines of workflows

`PipelineRun_proofs` proves, for all workflows, registries, events and iteration limits
that satisfy `PipelineAssumption`:

| Theorem | Statement |
|---|---|
| `Invariance` | `Spec => []IndInv` |
| `TypeCorrect` | `Spec => []TypeOK` |
| `RunInOrder` | `Spec => []InOrder` |
| `NothingForgotten` | `Spec => []NoneForgotten` |
| `ReportsHold` | `Spec => []StoredAsReported` |
| `RunsAreBounded` | `Spec => RunsRunDown` |

The argument is about `Line`: results, execution in hand and queue, in a row.  The
driver's own turns leave it as it is, and the engine adds to its end executions younger
than all in it.  `StoredAsReported` needs more, although handlers save states the loop
does not have: every save is of the execution in hand or of a new one, so what is
stored of an execution stays as its last run left it.

`RunsRunDown`: the run of one execution takes 2 * `MaxIterations` + 1 turns at most
(`TurnsLeft`), whatever its conditions and failure edges loop.  This is half of
`PipelineEnds`; the other half is that workflows do not trigger each other in a circle,
a fact about the registries.

### 6.6 Worker supervision

`WorkerSupervision_proofs` proves, for any finite sets of workers and strangers and any
limits that satisfy `SupervisionAssumption`:

| Theorem | Statement |
|---|---|
| `Invariance` | `Spec => []IndInv` |
| `TypeCorrect` | `Spec => []TypeOK` |
| `RestartsFollowBeats` | `Spec => RestartsMatchBeats` |
| `BurstsAreCounted` | `Spec => BurstCounted` |
| `DeathsAreNoticed` | `Spec => DeathIsNoticed` |

`HeardInv`: with no pool to vouch, what the loop keeps of a worker is the newest
heartbeat since it was removed, in whatever order they came.  `StampInv`: the
timestamps within the window are the cycles that restarted something, although they
are pruned only by such cycles; and the moment's own entry comes with the evaluation.

`DeathIsNoticed` says what the loop would do about a dead thread if only workers fed it,
and so that it is the pool's heartbeats that keep it from being noticed
(`dead_thread`): whatever arrives late, a dead thread is silent for an interval more at
every tick (`SilentFor`); silent for longer than the timeout, it is restarted at every
cycle, so the row of cycles that restart something grows by one (`Streak`); and with
`MaxRestarts` of them before it, a cycle reports a burst.  A row is counted as far as
the window reaches.

## 7. Only model-checked

Liveness under fairness is out of the prover's reach and stays with TLC.  For each of
the seven properties, this is what a theorem says of it for every instance, and what
remains:

| Property | Proved of it | Left to TLC |
|---|---|---|
| `SuccessIsReported`, `FailureIsReported`, `ContinuationRuns` | `NothingIsLeftWaiting`: at rest, they hold | that the threads come to rest |
| `CallsReturn` | `CallsAreBounded` | that a call takes its steps |
| `RunEndsOrSticks` | `RunsAreBounded`, `Bounded` | that a run takes its steps; the sum of the bounds |
| `JobsSettle` | `NoneForgotten`, `DeliveriesEnd` | that workers take their steps; that a delivery that ends settles its job or dies with a crash |
| `PipelineEnds` | `RunsAreBounded` | that no circle of triggers goes on |

Every invariant and every other action or refinement property of the passing runs is
stated by a theorem.  `ProgressInv`, `PersonInv`,
`LeaseInv` and the definitions named `...RunDown`, `...RunsDown`, `NothingHangs`,
`NoJobIsForgotten` and `DeathIsNoticed` are properties of the theorems only; on the
constants of the runs TLC finds no error in them either.

## 8. Mutants

A property earns its place when a plausible mistake in the code breaks it.
Each faulty variant stands before the definition it replaces:

| Variant | Mistake | Property broken |
|---|---|---|
| `RecordFailedAnyJob` | the continuation's failure is charged to the handle | `TypeOK` |
| `AllAccountedFor` | failed children count as done | `CompletedMeansAllOutputs` |
| `OneDependencySuffices` | unblock on any satisfied dependency | `ContinuationSeesAllOutputs` |
| `PollSettled` | merge whatever state the handle settled in | `MergeIsWhole` |
| `PopPeeks` | pop does not remove | `NoChildRunsTwice` |
| `RecordFailedMoves` | a failure takes back a completion | `HandleSettlesOnce` |
| `DepsAreJobs` | dependencies are looked up as the jobs they mean, with the stale copies as they are | `OutcomesAreKept` |
| `PollUnfinished` | any handle that is not COMPLETED is reported as failed | `KeepsPromise` |
| `ReadyOneTooLate` | off by one in `is_ready` | `SuccessIsReported` |
| `CancelUncharged` | a cancelled sibling is not charged | `FailureIsReported` |
| `UnblockWithoutPush` | an unblocked job is not queued | `ContinuationRuns` |
| `BranchToAbsent` | a false condition without an edge follows the missing edge | `TypeOK` |
| `BeginStaysAtInput` | a question leaves the instance at its step | `WaitIsCoherent` |
| `RaisesUnseen` | the command line keeps the agent whose step raised | `ParkedIsCurrent` |
| `StartedUnderItsName` | executions are stored under the workflow's id | `OneOwner` |
| `RefuseAndForget` | a refused answer deletes its request | `RequestForEveryWait` |
| `SaveWithOldPrompt` | a resume shows no new prompt | `AnswersMatchPrompt` |
| `FailStepAnew` | a failed step starts the count of rounds again | `CallsReturn` |
| `RetryUnfailed` | any instance may be retried | `ParkedIsCurrent` |
| `MarkFailedRequeuesAtZero` | off by one: an item without a retry is tried again | `TypeOK` |
| `MetUnlessFailed` | a failed dependency counts as done | `DependenciesDone` |
| `MarkFailedKeepsRetries` | the retry is not taken off | `AttemptsBounded` |
| `MetUnknownHolds` | a dependency that is not in the table holds an item up | `StuckOnlyByFailure` |
| `GoalDoneLoops` | a complete goal goes on iterating | `DoneIsFinal` |
| `GoalIncompleteWraps` | the iteration count starts again | `RunEndsOrSticks` |
| `EnterAtZero` | attempts are counted from 0 | `TypeOK` |
| `RemoveLeaseNot` | requeue leaves the job on the processing list | `OnePlace` |
| `HydrateFresh` | the failure count is not taken from the store | `FailureBudget` |
| `HydrateWhole` | all counts are taken from the store | `DegradedOnlyAfterCrash` |
| `HydrateDead` | no skip of failed and poisoned jobs | `DeadStaysDead` |
| `PanicUnmarked` | a job out of attempts is not marked failed | `JobsSettle` |
| `IterateOnceMore` | off by one in the iteration limit | `TypeOK` |
| `StartCaptured` | the first executions are captured and queued as well | `InOrder` |
| `CaptureLast` | of the executions an event starts, only the last is queued | `NoneForgotten` |
| `CompleteUnsaved` | a completion is reported and not saved | `StoredAsReported` |
| `IterateUncounted` | iterations are not counted | `PipelineEnds` |
| `CountedKept` | counts of removed workers are kept | `TypeOK` |
| `KeptLatest` | the heartbeat that comes last is kept, not the newest | `RestartsMatchBeats` |
| `RecordedStrict` | off by one at the edge of the window | `BurstCounted` |

## 9. Not modelled

`PROJECT.json` has the status of each component and the reason.  In short: circuit
breaker, deferral graph, memory policies and the file store's crashes are open (section
2).  The queue and control-plane supervisors are threshold checks that nothing in the
source constructs.  Registries, loaders, routing, primitives, gateway, transport,
observability, deployment and configuration hold no state that a sequence of steps
could bring out of order, or are I/O: they are most of the lines of the repository,
with the tests and harnesses under `src/tools`.
