# A verification of the T1 Agentics backend

T1 Agentics is a security operations platform: alerts come in, are enriched and triaged by
agents, and lead to investigations, playbooks and response actions. The backend
(`src/backend/`) is one asyncio process per container over PostgreSQL. What makes it hard to
get right is the same everywhere: an operation reads a row, awaits, and writes later, while
other coroutines, other processes and people do the same; and nothing but the row survives a
restart.

This directory holds TLA+ models of the parts in which that matters most, their model-checking
runs, and machine-checked proofs. Names of actions and definitions are those of the code.

| Component | Specification | Instances | Proofs |
|---|---|---|---|
| Job queue | `JobQueue` | `MCJobQueue` | `JobQueueProofs` |
| Circuit breaker | `CircuitBreaker` | `MCCircuitBreaker` | `CircuitBreakerProofs` |
| Playbook engine | `PlaybookExecution` | `MCPlaybookExecution` | `PlaybookExecutionProofs` |
| Action requests | `ActionRequest` | `MCActionRequest` | `ActionRequestProofs` |
| What the job queue promises | `RetryingQueue` (abstract) | as a property of `MCJobQueue` | `JobQueueRefinement` |
| Intake of an alert: correlation, enrichment, triage | `AlertIntake` | `MCAlertIntake` | `AlertIntakeProofs` |
| Agents on an alert | `AgentVerdicts` | `MCAgentVerdicts` | `AgentVerdictsProofs` |
| Riggs on an investigation | `InvestigationReview` | `MCInvestigationReview` | `InvestigationReviewProofs` |

`PROJECT.json` lists the components, the runs, the source lines behind each definition, the
hazards of the code with the properties that watch them or the reason why none does, and the
disagreements found.

To repeat a run: `tlc -config MCJobQueue_safety.cfg MCJobQueue.tla`; to repeat the proofs of a
module: `tlapm JobQueueProofs.tla`.

## 1. Inventory

### Components and how they interact

```
 routes/* ──> playbook engine ──> execution engine ──> integration
    │             │  ▲                 │ circuit breaker, rate limiter, cache
    │             │  └── approvals, forms (HTTP)
    │             └──> action approvals, block lists
    ├──> action requests ──> integration
    ├──> job queue ──> workers ──> agents, enrichment ──> execution engine
    └──> ingestion ──> correlation ──> verdicts ──> orchestrator ──> playbook engine
```

Components share no memory except the singletons of one process (breakers, rate limiters,
caches, quota counters). Everything else goes through rows. `tenant_acquire`
(`services/postgres_db.py:181`) hands out a connection and opens no transaction: **each
statement commits by itself**, and that is the granularity of every model here.

- **Job queue** (`services/job_queue.py`, stored functions in `init-db.sql:1261-1372`).
  State: the rows of `job_queue` and the worker tasks. Operations: `enqueue` (count, then
  insert), `claim_job` (`FOR UPDATE SKIP LOCKED`), the handler, `complete_job`, `fail_job`
  (retry with backoff, or dead letter), `retry_dead_job`, `purge_old_jobs`, start and stop of
  workers. Hard: racing claims; a completion whose answer is lost; workers that die with a job;
  writes that test neither status nor owner. Correct if a job has one worker at a time, is
  tried a bounded number of times, is not lost, and the queue is bounded.
- **Playbook engine** (`services/playbook_engine.py`, `routes/playbooks.py`). State: the rows of
  `playbook_executions` and `playbook_node_approvals`; per run an `ExecutionContext` in memory.
  Operations: start, `_run_execution` with its recursive `execute_branch`, resume, approve,
  reject, submit, cancel. Hard: parallel branches over shared context, convergence, pausing and
  resuming in another task, decisions that race with the run, a process that dies. Correct if
  a node runs once, after what it depends on, behind approvals only when they were given, and
  the reported status is true.
- **Action requests** (`services/action_request_service.py`, `routes/actions.py`). State: the
  rows of `action_requests`. Operations: create, approve, deny, execute, expire, roll back. Hard:
  every one is a read and a later unguarded write. Correct if nothing runs unapproved, twice or
  after a refusal, and a rollback reverses what was done, once.
- **Circuit breaker** (`integrations/policies/circuit_breaker.py`) in
  `integrations/engines/execution_engine.py`. State: one record per integration. Operations:
  `can_call`, `record_success`, `record_failure`, `reset`. Hard: calls are in flight while the
  state changes; some record no result and some record two. Correct if it opens, stays shut for
  its timeout, tests the recovery with few calls, and closes.
- **Rate limiter, response cache**: token buckets and a TTL dictionary around the same call.
- **Approval tokens** (`services/approval_service.py`): one-time links in pairs; read, test, save,
  then invalidate the other of the pair. **Action approvals** (`services/action_approval_service.py`)
  and **recommended actions** (`services/recommended_actions_service.py`): two more lifecycles of
  response actions, each with its own guards or their absence.
- **Orchestrator** (`services/playbook_orchestrator.py`): starts playbooks and polls their status.
  **Schedulers** (`services/playbook_scheduler.py` and others): periodic loops.
- **Assignment, work queue, control plane, quotas, enrichment**: read-modify-write on rows, caches
  and process memory.
- **Intake of alerts** (`services/auto_enrichment.py`, `ai_triage_service.py`,
  `alert_correlation_service.py`, `enrichment_queue.py`). State: the row of `alerts`, rows of
  `investigations`. Operations: correlation (in the pipeline, and again in a task of the request),
  the pre-flight for phishing simulations, enrichment, the seal on its snapshot, triage inside
  and behind the enrichment, the investigation of a malicious indicator or a doubtful verdict,
  re-enrichment and re-triage on demand. Hard: two triages of one alert told apart by a hash; four
  writers of `investigation_id` that each test it first; exceptions swallowed at every level.
  Correct if no alert is forgotten, none is judged twice on the same evidence, each doubt is
  investigated, once, and no scanner clicks on a simulation.
- **Agents on an alert** (`services/agent_scheduler.py`, `agent_executor.py`, the job
  `agent_auto_triage`). State: verdict, status, link and queue flag of the alert. Operations: the
  sweeps that queue it, the deterministic classifier, a tier 1 run with its three endings, tier 2.
  Hard: a verdict is guarded by a read in another statement; the sweeps, the job and analysts
  overlap. Correct if a confident finding is not buried, leads to one investigation, and every
  alert is answered.
- **Riggs on an investigation** (`handle_riggs_analysis`, `RiggsFlightGuard`, the review sweep,
  `agent_analyze_investigation`). State: state, disposition and JSON document of the row, the jobs
  about it. Operations: sweep, guard, analysis, completion, and the other writers of the row:
  correlation, triage and agents of later alerts, lookups, Deep Dive, analysts. Hard: the guard is kept in the document that most writers replace by a stale copy; a run may
  outlast its half hour. Correct if Riggs analyses a case once, a closed case stays closed, and
  every case comes to a person.
- **Deduplication, verdict convergence, scoring**: pure functions or single statements.
- **Reasoning engine, chat**: loops around model calls; checkpoints in memory.
- **Tenancy, authentication, licensing, platform core, converters, frontend**: see the notes of
  `PROJECT.json`.

## 2. Plan

Order: what acts on the outside world first, and what everything else runs on.

1. *(done)* `JobQueue`, `CircuitBreaker`, `PlaybookExecution`, `ActionRequest`, each with runs,
   type correctness and its main safety invariants proved.
2. *(done)* `RetryingQueue`, the abstract queue, and the theorem that `JobQueue` implements it.
3. *(done)* The way of an alert: `AlertIntake`, then `AgentVerdicts`, then `InvestigationReview`,
   each with the other two as its environment.
4. *(done)* Proofs of the three, and of the remaining safety properties of the first four: every
   safety and action property that a passing run checks is a theorem.
5. **Compositions.** An alert with its investigation: correlation, the closing of both by Riggs and
   the guards of both in one module. `IntegrationCall`: `CircuitBreaker` with a token bucket and
   the cache in the order of `execute()`. A client that polls an execution (the orchestrator).
6. **Smaller protocols.** Links in pairs of the approval tokens, claims of investigations and work
   items, versions of the control plane, quota counters over two processes, checkpoints of the
   reasoning engine.
7. **More of the playbook.** Loop nodes, cycles and `max_total_nodes`; `DelayedExecutionScheduler`.

Theorems worth having next: that `AgentVerdicts` and `InvestigationReview`, hidden behind the
steps by which `AlertIntake` sees them, are what its environment assumes; and a sharper
`CompletedLeavesNothing` for graphs with conditions, from the branches that were taken.

## 3. The models

### JobQueue

`status`, `attempts`, `due`, `created` are the rows; `pc` and `job` the `worker_loop` tasks;
`admitted` the producers between count and insert. Time is abstract: `due` says that
`scheduled_for` is past, `created` is the rank of `created_at`. A claim is two steps, `LockRow`
(the subquery takes the row lock, skipping locked rows) and `CommitClaim`. `complete_job` and
`fail_job` write by id whatever the row holds; a deleted row is not written. `CompleteRaises` is
`process_job`'s except clause, with the UPDATE committed or not. `DropJob`, `Stop` and `Restart`
are lost calls, cancelled or dead workers and the next process. `RetryDeadJob` and
`PurgeOldJob` are the administrator's; how old a purged row must be is left open.
`cleanup_cluster_state`, which would make a job with an expired lock pending again, is called by
no code and is no step. (If something called it, `SingleHolder` would fail: locks are never
renewed, so a reset may take a job from a live worker.) The two statements of `fail_job` are one
step.

### CircuitBreaker

`cb` is `CircuitBreakerState`; `calling` the coroutines that passed `can_call` and await the
service. `timer` is `opened_at` and its distance to the timeout. `consecutive_failures` saturates
at the threshold it is compared with, which it can pass by counting on when open; no test tells
the difference. `SucceedWithList` is the reply that `ExecutionResult` cannot hold. `Drop` is a
call the rate limiter refuses after `can_call` let it through, or that is cancelled. `service` is
what the integration answers at the moment, and changes freely. `half_open_calls` is reset and
compared but never incremented, in the code as in the model.

### PlaybookExecution

The row is `status`, `current`, `saved`; `approval` the approval rows, of which a node has one at
most. A run is one `_run_execution` task: `at` counts its branches by node and stage
(scheduled as a task, about to save, in the handler, about to write a pause), `ctx` is its
context. Code between two awaits is one step, so a single successor is checked for convergence in
the step that completes its predecessor, while several are scheduled and check later. That
difference is what makes a join run once or twice. `Finalize` comes when all branches have
returned, as `gather` waits for all. A resume reads the row in one step, writes it and starts
another run in the next. Kinds of node: `step` (any handler that does not pause), `condition`
(and switch: a handler that names a branch), `gate`, `edl` (block list with approval), `form`
(web form, user input, file upload), `delay` (over a minute), `end`. Retries of a node are
folded into its last outcome. `Submit` is more permissive than `webform_service.submit_form`,
which tests the node and status before it resumes; the endpoint of `routes/playbooks.py` does not.
A request that dies with its process is one that takes no further step.

### ActionRequest

`status`, `overdue`, `rolledBack` are the row; `reverses` relates a rollback request to its
original; `op` holds each caller's place between its read and its writes. `ExecuteRaises` and
`ExecuteExcept` are the except clause of `execute_action`, which marks the row failed whatever it
holds; `Abandon` is an exception merely reported, or the death of the process. `approved`, `effects`
and `crossed` are history: `crossed` has the requests on which a call began that may write the status
(`Decides`: approve, deny, execute, expire) while another such call was in flight (`Handles`).
Rollbacks write the mark and a new row, never the status, and do not count.

### RetryingQueue, and how JobQueue implements it

`RetryingQueue` knows where a job is (`place`), how often it was taken (`tries`) and who has it
(`keepers`), and nothing of rows, locks or loops. The mapping at the end of `JobQueue` reads a job
as `taken` while some worker has it in its hands, whatever its row says, and else by its row: a
row that is `processing` with no worker is `lost`. What makes this more than a renaming are the
steps at which row and hands disagree: a completion that committed and raised, a row purged before
its worker hears of it, an UPDATE by id of a job that is somebody else's.

### AlertIntake

`status`, `verdict`, `triage`, `hash` and `link` are columns of `alerts`; `task` is what each
background task or request handler is doing: on which way the alert came in (`ingest`, `api` with
its second correlation, `form` with `skip_triage`, `short` for what ends with the next triage, an
enrichment or a triage asked for), inside `enrich_alert` or behind it, on which snapshot. A
verdict is `closing`, `doubtful` or `quiet` by what `_store_verdict` does with it; the model's
choice of it is free, except that the rules on phishing simulations come before it. What an alert
is like (`alert`) is fixed: whether it has indicators, a malicious one among them, whether it is a
simulation, whether two snapshots of it have the same hash (`stable`). Two snapshots are enough to
tell the same from another. `LinkRaises` and `Crashes` come between the INSERT of an investigation
and the UPDATE of the alert.

### AgentVerdicts

`verdict` (with its confidence, cut at 0.80), `status`, `link`, `queued` and `due` are columns of
the alert; `opened` counts the investigations whose `alert_id` is the alert, which is what the
agents look for, where the triage looks at the link. `policy` says whether the agent's guardrails
let it close alerts. Each guard (`Kept`) is a step, each write behind it another. The triage is the
end of `AlertIntake`'s, correlation and review are single steps. `Attaches` is the link of the
deterministic classifier as it is: the column is a UUID, the value is not, the UPDATE raises and the
model is asked. The benign branch of tier 2 raises likewise, since `investigations` has no column
`resolution`, and the write-back of `job_queue.py:1462-1508` compares an id with a number and
matches no row.
Assumed: a tier 1 agent is enabled; the job's `manual_trigger`, which no caller sets for this job,
is absent. Left out: analysts' own edits of an alert, and what an agent's tools write during its run.

### InvestigationReview

`state` and `disposition` are columns, `data` is `investigation_data` as far as a decision depends
on it: `riggs_status` and whether there is a `riggs_analysis`. States with the same treatment are
one: `IN_PROGRESS` stands for what only analysts set (`OPEN`, `ESCALATED` and so on). A writer
that replaces the document carries the copy it read (`task[t].read`); when that differs from what
it overwrites, `excuse` notes `overwritten`. `Deep Dive` is a flag: how many are running is left
open, as each merges in one UPDATE. `riggsJobs` and `analysisJobs` are the rows of the job queue
about the case; `JobQueue` has how they are claimed, retried and stranded. `HalfAnHourPasses` is
the guard's timeout; `AnalystRetriages` clears the guard, as the endpoint does.

The case goes on while later alerts are linked to it. Their correlation (`CorrelationReads`,
`CorrelationWrites`) and their triage (`TriageUpdates`, `TriageEnsures`) look whether it was closed as
benign. The agents that run on them do not: `AgentConfirms` (`_handle_true_positive`, on both ways it
finds an existing row) sets `ANALYZING`, `AgentSuspects` writes nothing to an existing row and queues
Riggs, `AgentCloses` (`_handle_auto_close`) sets `CLOSED` or `AWAITING_HUMAN`, `AgentReviews` (the end of
tier 2) sets `NEEDS_REVIEW`. Each merges into the document in one UPDATE, so that none of them loses
the guard. `AssetsRead` and `AssetsWrite` are the lookup of the assets involved, before an analysis or
on demand, which does replace the document. `AnalystCloses` and `AnalystSets` are the endpoints by
which people set the state, `AnalystChats` their talk with an agent. Not modelled, since no code calls
it: `_handle_auto_escalation` and `_enrich_and_merge_results`; the sweeps
`_process_tier2_investigations` and `_process_orphan_investigations` only log that they are
deprecated. The benign branch of tier 2 sets a column `resolution` that `investigations` does not have,
raises, and is no step.

The three modules are composed by their environments: what `AlertIntake` ends with is `Triages` of
`AgentVerdicts` and `TriageUpdates` of `InvestigationReview`; `EscalationQueues` is the end of
`Links`; `ReviewCloses` and `Correlates` are the other modules' effect on the alert.

## 4. What the runs show

Runs that pass:

| Run | Bounds | Shows |
|---|---|---|
| `jobs_safety` | 2 jobs of different priority, 2 workers, 2 attempts, 2 faults, 1 bypass | exclusive claims, retry limit, dead letters only when exhausted, stranding only by faults, completed jobs reopened only by their worker; under fairness pending jobs settle unless a fault strands them; the queue is a `RetryingQueue` |
| `jobs_capacity` | 4 jobs, limit 1, 2 producers, 1 worker, 2 attempts, 1 fault | the limit is exceeded by at most one per producer and worker, less one; it is reached when a job whose completion raised is reopened behind an overrun. That a bypass adds one is proved, not run |
| `breaker_safety` | 3 callers, 3 failures to open, 2 successes to close, 3 half-open calls, 2 drops | no exit overdue; under fairness the circuit closes for good once the service answers objects for good |
| `playbook_fork` | fork of three branches, of which two join; error route to a delay; end | join after all branches, and once; completed executions leave nothing undone, every execution ends or pauses |
| `playbook_gate` | gate beside a form with a block-list node behind it, 2 requests, 1 crash | nothing behind the gate or form without a resume there; list changed only when approved |
| `actions_safety` | 2 callers, 2 requests, 2 faults | nothing unapproved runs, only what ran is reversed, nothing stays `executing` without a fault; on a request on which no two calls overlapped the action runs at most once and a refusal stands |
| `review_safety` | 2 tasks, a plan with Deep Dives, one disturbance of any kind | one Riggs run at a time and one analysis but for an overrun half hour, a stale copy or a cleared guard; settled benign cases stay closed until an analyst or an agent acts; under fairness a case leaves the swept states but for the reasons named |
| `intake_safety` | 2 tasks, 2 snapshots, 1 run beside the pipeline, 1 fault, every kind of alert on each way in | no orphaned investigation, second judgement or visited simulation without its reason; doubt at rest is investigated; every alert is answered or marked |
| `verdicts_safety` | 2 tasks, 2 disturbances of which at most one each by hand, from outside, by fault | no second investigation without overlap or fault; no agent buries a confident finding alone; every open alert is answered |

The bounds are the least at which the case exists: two workers race for one row and the second job
gives the loser another; a default installation runs two workers per queue (`app.py:399`). Two
attempts separate a retry from the dead letter. Thresholds of two and three separate "some" from
"enough", and three callers are enough to reach them at once from calls in flight.
Two requests are an approval racing an approval, a rejection or a cancellation; a third would
repeat one of them. Three action requests are an action, its reversal and a second reversal or a
reversal of the reversal. On an alert or an
investigation two tasks are a reader with a stale view and the writer that made it stale; what a
third would add is a second stale reader of the same kind. One disturbance of a review comes on top
of the sweep, the analysis and the Deep Dive, which are always there: stale copies, overlapping runs
and reopened cases all happen under that bound (each mutant breaks its property there), in 943 229
states; two disturbances are beyond the time of a run. `review_reopened` has one task, no Deep Dives
and three disturbances: an analyst, a correlation and an agent. Deadlock is not checked where the system may stop: all jobs
purged, an execution ended, every request closed, every bound used up. The circuit breaker never stops.

Runs that find a violation, each a disagreement of the code with its own text:

| Run | Property | What happens |
|---|---|---|
| `playbook_approval` | `GateNeedsApproval` | approving anything resumes past a gate |
| `verdicts_orphans` | `FindingsGetInvestigated` | a confident finding without an investigation is queued once, its job skips it because it is confident, and it is not queued again |
| `review_reopened` | `LaterAlertsDoNotReopen` | correlation links a later alert to a case an analyst closed as benign and leaves it closed, as it should; an agent that confirms that alert sets `ANALYZING` without looking (`agent_executor.py:6454`) |

Further disagreements. TLC shows those with a property when run with the `.cfg` named; where it is
one of a run above, the property takes the place of the ones it lists:

| Where | Property and `.cfg` | What happens |
|---|---|---|
| `execution_engine.py:410-444` | `HealthyCloses`, `MCCircuitBreaker_lists` | a list reply is recorded as success and failure, and the circuit of a healthy service opens again and again |
| `playbook_engine.py:851,991` | `PauseHolds`, `MCPlaybookExecution_pause` | the run overwrites its own pause with `completed` |
| `playbook_engine.py:764` | `CompletedReachesEnd`, `MCPlaybookExecution_choice` | a join behind a condition is never entered |
| `action_request_service.py:327` | `NeverTwice`, `MCActionRequest_twice` | two executions read `approved` |
| `auto_enrichment.py:1795` | `TestsNotVisited`, `MCAlertIntake_tests` | a phishing simulation that correlates is enriched before the pre-flight ("short-circuit: no enrichment, no T1") |
| `auto_enrichment.py:543` | by reading | `skip_triage` "bypasses the Riggs/T1 triage step at the end" (1721) because it has nothing to add; the triage inside `enrich_alert` does not look at it |
| `agent_scheduler.py:1117` | by reading | the sweep looks for jobs that are `running`; a job in progress is `processing` |
| `job_queue.py:1226` | by reading | the deterministic classifier is to "skip LLM entirely" (1178); its link raises and the model is asked |
| `job_queue.py:1879` | by reading | decoded indicators are merged into columns `indicators` and `ioc_summary` that the table does not have; the analysis is lost |
| `agent_executor.py:6717,8882` | by reading | an escalation, or a run out of iterations, writes `suspicious` over a confident finding, which the benign branch is kept from |
| `job_queue.py:423` | `CapacityEnforced`, `MCJobQueue_capacity` | two producers count before either inserts ("Backpressure: enforce queue capacity") |
| `init-db.sql:1364` | `StuckJobsReset`, `MCJobQueue_safety` | nothing calls what "resets" the job of a dead worker |
| `playbook_engine.py:991` | `CancelHolds`, `MCPlaybookExecution_gate` | a cancelled execution is later reported completed or failed |
| `playbook_engine.py:445,484` | `ResumedOnce`, `MCPlaybookExecution_gate` | two resumes read the same waiting row; or another branch overwrote `current_node_id`, and the resume repeats its successors |
| `playbook_engine.py:764,1058` | by reading | a join counts its error edges as well, and is never entered when nothing fails; and where a predecessor's error is routed to its handler after the other branches have arrived, nobody enters the join, while in the other order they do |
| `playbook_engine.py:376` | `ExecutionSettles`, `MCPlaybookExecution_fork` with `MaxCrashes = 1` | `timeout_at` is never enforced: the execution of a dead process stays `running` |
| `action_request_service.py:236` | `RefusalsFinal`, `MCActionRequest_twice` | an approval that read `pending` overwrites a denial |
| `action_request_service.py:713` | by reading | the reverse request is created before the original is marked ("Action has already been rolled back", 696): two rollbacks at once, or one repeated after its mark failed, create two |
| `circuit_breaker.py:126` | by reading | `half_open_calls` is never incremented, so the half-open state limits no calls |
| `circuit_breaker.py:136` | by reading | a success of a call admitted before the circuit opened counts towards closing it |
| `circuit_breaker.py:160` | by reading | `last_failure_time` is set to now before it is compared with the window |

Some properties hold under a restriction, which shows how far the code can be relied on.
`ExecutedOnce` and `RefusedNeverRuns` are about the requests on which **no two calls have
overlapped** (`crossed` collects the others); said of every request, as `NeverTwice` and
`RefusalsFinal`, they fail. Exceptions, deaths of the process and any number of calls one after the
other, also beside calls on other requests, do not break them: exactly the unguarded writes do.
`NodeOncePerRun` holds where **no
predecessor of a join forks**, which is its hypothesis `JoinsReachedAlone`. One that does is enough:
where `s` leads to `a` and `b`, both to `j`, and `a` also to `x`, node `a` completes and schedules `j`
as a task of its own; before that task runs `b` completes and goes on to `j` in the same step; the
task then finds both complete as well, and `j` runs twice (TLC finds it on that graph when the hypothesis is left out). `ExecutionSettles`
holds without a crash and without a resume at a last node, which writes `running` and starts no
run. `CompletedLeavesNothing` is about nodes whose predecessors lead to them
unconditionally: none routes its errors, and none is a condition, which follows no edge without an
answer on it (`playbook_engine.py:1033`); the proof attempt is what showed the second. And
`ClosesAfterRecovery` holds for a service that answers JSON objects. In the three modules about alerts
and investigations the restriction is in the property: each says what must have happened (tasks
that overlapped, a step that failed, a stale copy written back) before the rule is broken, and a
mutant that drops a check of the code breaks it without.

### Fairness

- `JobQueue`: weak fairness of each worker's next step (the event loop runs every task, and
  handlers end because their calls have timeouts), of its restart (the container is restarted),
  and of time. `WorkerStep` is fair as a whole: which way a handler ends is nobody's promise. No
  fairness of producers, administrators or faults.
- `CircuitBreaker`: each caller calls again when it may, each call ends, and time passes.
- `PlaybookExecution`: each run takes its next step. None of requests: people may stay away.
- `AlertIntake`: each background task goes on (they are not cancelled). Nothing else: enrichments and
  triages on demand need not come. `Answered` excepts an alert on which a step failed, which is then
  the scheduler's.
- `AgentVerdicts`: the scheduler's loop, time, workers that poll, and what runs goes on. The claim of a
  job is fair whether it is run or skipped. Nothing that analysts, triages or reviews do is fair.
- `InvestigationReview`: the sweep, a worker for each kind of job, and every task that has begun.
  Neither Deep Dives nor analysts are fair; `ReviewSettles` does not need them.
- `ActionRequest` states no liveness: `StuckNeedsFault` says in every state what a call that goes
  on would have to make good.

## 5. What is proved

TLAPS checks these theorems for every value of the constants, from the named assumptions of the
specifications: finite sets of jobs, workers, producers and tasks; positive thresholds; a graph whose
edges join its nodes, at most one per ordered pair; finitely many nodes on a canvas and requests
about an execution (`FiniteAssumption`: what the code counts, the incoming edges and the successors
of a node, must be finite); bounds that are numbers. The sets of snapshots, of callers and of
action requests may be infinite.

**JobQueueProofs.** `MutualExclusion` needs more than `SingleHolder`: the invariant adds that a
held job is `processing`, or already completed or purged, so that no claim can select it
(`HolderOwnsRow`), and that a lock covers a pending row and no row is locked twice
(`LocksCoverPending`).
`RetryLimit` needs that a pending job has attempts left, which `fail_job`'s comparison provides
one claim earlier. `DeadLetterExhausted` is inductive with the type invariant;
`CompletionStands` follows from the invariant step by step: what makes a completed job pending
or dead is a `Fail` of its own holder. `FaultPerStrandedJob` counts: a step either leaves the set of
stranded jobs no larger, or is a fault and adds one. `OverrunIsBounded` is not inductive either: an
admitted producer, and a worker about to fail a job that is already completed (`Reopening`), stand
for a job they may yet add, so the invariant `LoadBounded` bounds the live jobs together with both.
It has the hypothesis that there is a producer; with none, no worker and a limit of zero the bound
would be -1.

**CircuitBreakerProofs.** `Sound(b)` gathers what every reachable record satisfies: counters below
the thresholds of the state it is in, and a time whenever it is open. One lemma per transition
(`Opened`, `HalfOpened`, `Closed`, `OnSuccess`, `OnFailure`) shows that it takes sound records to
sound records, whatever state the call was admitted in. `ExitsInTime` and `OpenExpires` (an open
circuit has an opening time) are parts of it, and `OpenIsShut` is a case analysis of the step.

**PlaybookExecutionProofs.** On every graph: `ConvergenceWaits` from `JoinInv`, that each branch past
the convergence check has its node's predecessors among the completed ones, which only grow;
`BlockListNeedsApproval`, since an approval once given stands (decisions test `pending`);
`PausesStand` from `PauseInv`, that a run has a branch at a node behind a gate or form only if
it began there, and from the numbering of runs that are not yet in use (`FreshRuns`).
`NothingLeftUndone` says of the run from the trigger that until one of its branches fails, a node
whose predecessors are complete is complete, has a branch, or pauses (`CarriesOn`): a branch that is
dropped at a convergence point is dropped because a predecessor is still to come, and that one will
bring the node a branch. It also needs that no resume comes before the start (`Unstarted`), so that
run 1 is the first, and that a completed status is the outcome of this run while it is the only one
(`Reported`). `OncePerRun` needs three facts at once (`Orderly`): a node has at most one branch
(`Alone`), none once it is complete (`Fresh`), and whatever has a branch or is complete has all its
predecessors complete (`Led`). A node that completes therefore finds its successors untouched, and
the hypothesis on joins is used where several successors are scheduled: none of them is a join, so
each has one incoming edge, the one just followed.

**ActionRequestProofs.** `ApprovalRequired`, for any number of concurrent callers: a row reads
`approved` only if someone approved it, and a call past the test of `execute_action` is for a
permitted request. `AtMostOnce` and `RefusalStands`, also for any number, rest on three
invariants about the requests that are not `crossed`: one call at most is in flight on each (`Alone`),
what that call has read is still true when it writes (`FreshReads`), and what no call has come to was
never executed (`UntouchedRows`). `RollbackOfWhatRan`: `completed` is written
only behind a call of the integration (`CompletedRows`), and a rollback that read it keeps a request
that was called (`CalledAlready`), whatever the row says by the time it writes. `FaultPerStuckRequest`
carries with the count that the stuck requests are finitely many, as requests need not be.

**JobQueueRefinement.** `Refinement`: every behaviour of `JobQueue` is one of `RetryingQueue`. The
invariant of `JobQueueProofs` does the work: a worker past its claim is the one keeper of its job
(`HolderIsKeeper`), so that letting go of it, however the row ends up, empties its keepers and
touches no other job (`LettingGo`); that a pending row is unkept makes a claim a `Take`; the retry
limit makes it an allowed one; and that only exhausted jobs are dead makes the rest `Bury`. Steps
of producers before the insert, row locks, stops of idle workers and time are stutters.

**AlertIntakeProofs.** For any number of tasks, snapshots, runs and faults. A lemma per step says
where it takes its task and what it keeps (`Moves`), and that the others stay. `VisitsHaveReasons`:
a task is enriching only if the reason to let scanners at the alert is already there (`VisitInv`).
`DoubtGetsInvestigation`: from the doubtful verdict to the link some task is opening an investigation
or linking it (`DoubtInv`). `OrphansHaveReasons`: until tasks overlap or a step fails, the alert still
has no link when a task comes to write one (`OrphanInv`), which rests on there being one task at a
time (`Alone`). `SnapshotsJudgedOnce` needs the most: the hash in the row is that of a snapshot that
was judged, or the task that judged it is still on its way to write it (`HashFollows`), and a task
about to judge holds a snapshot that is not the one in the row (`SnapshotOf`).

**AgentVerdictsProofs.** For any number of tasks and disturbances. `SecondNeedsExcuse`: before
anything overlaps or fails, what was opened is linked or about to be, and a task that goes on to open
an investigation is the first (`FirstOne`). `GuardsKeepFindings`: where a task is about to overwrite
the verdict, what its guard read still holds, as long as tasks have not overlapped (`Unsure`); and a
task on its way to an investigation carries a finding or is a triage (`Carried`), so that the only
steps that write `benign` without such a guard are those the property names.

**InvestigationReviewProofs.** For any number of tasks and disturbances. `OneRiggsAtATime` and
`OneAnalysis` have one invariant (`FlightInv`), about the time until a run overruns, a stale copy is
written or the guard is lifted: one task at most is between `mark_started` and the end of
`mark_complete`; meanwhile the document says RUNNING, and holds no analysis before one is written;
what such a task will write back is what the document still is; and the one analysis counted is in
it. It is needed as a whole: that the guard excludes a second run depends on nobody having replaced
the document, and that nobody does without leaving an excuse depends on the copies being true.
`BenignStaysClosed`: `Settled` is an invariant of every step but those of analysts and agents
(`SettledStep`). Nothing is queued, the sweep is idle and does not look at a closed row, and the tasks
there are belong to later alerts and lookups, which leave state and disposition alone (`KeepsClosed`,
and `BesideStep` for those already under way). That the agents' steps are outside it is no
shortcut of the proof: `review_reopened` shows what they do.

Only model-checked are the liveness properties (`JobsSettle`, `ClosesAfterRecovery`,
`ExecutionSettles`, `ReviewSettles` and the two called `Answered`), since liveness under fairness and
ENABLED are out of the prover's reach. Induction over data and recursive operators are out of reach
as well; no module here uses them.

## 6. What is not modelled

- Components listed as such in `PROJECT.json`, for the reasons there.
- Of the playbook engine: loop nodes, cyclic graphs and the limit of 500 nodes, sub-playbooks, two
  edges from one node to another, the approvals of `action` and `respond` nodes, `expires_at` of
  approvals (nothing reads it here), an outer except clause whose own UPDATE fails.
- Of the action requests: a lost answer of an UPDATE that did commit. It marks a completed action
  failed, as `ExecuteExcept` does.
- Approval tokens: a link is read, tested and saved, and what it approves is the playbook approval
  that `PlaybookExecution` has. Action approvals: every approval raises as the code stands (a user
  name is written into the UUID column `reviewed_by`, and what executes the action imports a module
  that does not exist), so there is no protocol behind it to model. `LLMQueue` and
  `agent_capability_service` are used by nothing that runs.
- Of alerts and investigations: parsing of sources, deduplication, the correlation of hypotheses in
  webhook handlers, the content of verdicts, prompts and summaries, notifications, recommended
  actions and playbook suggestions that follow a verdict, tier 3.
- Of the job queue: handlers other than the three above; several queues, which share nothing but the table.
- Row-level security: the workers run in platform-administrator mode, requests in their tenant's.
