# Formal models of newser

Newser collects news for the topics of its users: a topic has preferences, a
schedule and a budget, a *run* of a topic plans tasks with a language model,
executes them and writes a report.  This directory holds TLA+ models of the
parts of the program in which order, concurrency and failure decide whether it
is right, the TLC configurations that check them on small instances, and
proofs, checked by TLAPS, for instances of any size.

Contents: [the system](#the-system), [modules](#modules),
[RunWorker and Dispatch](#runworker-and-dispatch), [Executor and TaskOrder](#executor-and-taskorder),
[Scheduler](#scheduler),
[RunLifecycle and Permission](#runlifecycle-and-permission),
[Planner and Orchestrator](#planner-and-orchestrator),
[the records beside the pipeline](#the-records-beside-the-pipeline),
[runs](#runs), [fairness](#fairness), [proofs](#proofs),
[findings](#findings), [read in the code](#read-in-the-code),
[what the properties except](#what-the-properties-except),
[not modelled](#not-modelled), [plan](#plan).

To check: `tlc -workers 2 -config MCScheduler_ticks.cfg MCScheduler.tla`,
`tlapm SchedulerProofs.tla`.

## The system

Paths are relative to the repository.  About 26 000 lines of Go are not tests.

| component | state it keeps | operations | interacts by |
|---|---|---|---|
| Run worker, `internal/worker`, `cmd/worker` | consumer position, semaphore, resume ticker | read, handle, resume, ack | Redis streams, Postgres |
| Queue consumer, `internal/queue/streams` | Redis consumer group, pending entries | EnsureGroup, Read, Ack, AutoClaim, lag | called by the worker |
| Checkpoints and keys, `internal/store`, `internal/executor/checkpoint_store.go` | `queue_checkpoints`, `idempotency_keys` | claim, upsert, list, mark | one SQL statement each |
| Task executor, `internal/executor` | indegrees, queue, order, checkpoints | Execute | checkpoint manager and runner, by call |
| Budget gate and approvals, `internal/worker`, `internal/server/runs.go`, `internal/agent/core/planner.go`, `internal/budget` | `run_budget_approvals`, `runs.status` | gate, request, decide | shared tables, no transaction |
| Scheduler, `internal/server/scheduler.go` | Redis locks, `runs` | tick | one goroutine in every API server |
| Runs API, `internal/server/runs.go` | `runs`, results | trigger, processRun, budgetDecision, reads | goroutine per run, shared tables |
| Planner, `internal/agent/core/planner.go`, `internal/planner` | none between plans | Plan, NormalizePlanDocument | called by the orchestrator |
| Agent orchestrator, `internal/agent/core` | results by task, semaphore | ProcessThought, executeTasks, synthesizeResults | goroutine per task of a wave |
| Budget, `internal/budget` | use counted by a monitor | Add, CheckTime, Usage | one monitor shared by the tasks of a thought |
| Memory manager, `internal/memory`, `cmd/memory` | episodes, summaries, memory jobs, vectors | write, summarize, delta, prune | HTTP service, job table |
| Procedural templates, `internal/memory/templates`, `planner_templates.go` | fingerprints, templates, versions | annotate, promote, approve | several statements, no transaction |
| Builder, plans, manifests, `internal/server`, `internal/manifest` | versions, one manifest for a run | save, list, sign | transactions of the store |
| Publisher, envelopes, schema registry | none | publish, validate | Redis XADD |
| Sandbox, capability registry, policy | configuration | validation | at start-up |
| Agent factories, telemetry | counters | HTTP to language models | by call |
| HTTP server, topics, chat, auth | rows of one user | one statement each | HTTP |
| `cmd/replay`, `cmd/qa`, `cmd/schema` | files | offline | none |
| `cmd/executor`, `cmd/crawler` | none | placeholders | none |
| `webui` | browser | - | HTTP |

What makes each part correct, and where it is hard:

* **Run worker.**  Several processes, each with goroutines, share one consumer
  group.  An event is delivered again after a crash, twice when its producer
  retries, and to two processes at once when it is auto-claimed from a holder
  that is only slow.  Its effects are four Postgres tables and a stream,
  written one after another without a transaction, and what was dispatched is
  published again on resume.  Right means: one primary dispatch for an event,
  no dispatch without a checkpoint, no dispatch past a budget that needs
  approval, no event lost without a fault, every entry acked in the end.
* **Task executor.**  Sequential, for graphs nobody has validated: cycles,
  duplicate and unknown dependencies, retries, failing checkpoint writes.
  Right means: dependencies first, the verdict is that of the graph, retries
  are capped and told truly, and Execute returns.
* **Scheduler.**  Every API server ticks; the tick reads before it locks, the
  lock expires, and its release does not ask whose it is.  Right means: a topic
  that is due runs, and not more often than can be bounded.
* **Runs API and approvals.**  A run's row is written by the goroutine that
  processes it, the request that decides its approval and the pipeline that
  this starts.  Right means: a running run is worked on, a parked one can be
  decided, nobody works on a rejected one.
* **Planner.**  The plan is what a language model wrote: it is validated, put
  in layers, and then given dependencies of the program's own, after the last
  check for cycles.  Right means: a document without a cycle gets past the
  checks, each task is in its layer, a plan that follows the prompt can still
  be run.
* **Orchestrator.**  Waves of concurrent tasks, a shared budget monitor, the
  first error wins.  Right means: dependencies first, a breach ends the run and
  is told truly, no result is lost, the report is the final synthesis, the loop
  ends.
* **Templates, builder.**  Read, decide, write, by planners and users at once,
  in several statements.  Right means: the current version is the newest that
  was approved, a fingerprint leads to its template, what was saved is found
  under its version.
* **Memory.**  Embedded, pruned, rebuilt and searched in statements that are
  apart, while runs write.  Right means: what is recorded as pruned is, a
  rebuild passes over nothing, no job is left running, what is told to be new
  is, and what is told to be near.
* **Results and manifests.**  Five writes of a result whose errors are dropped,
  then the status; manifests built by several requests from two reads.  Right
  means: a succeeded run can be shown, and all who ask for a manifest are told
  the one that is kept.
* **Topics.**  A chat, a form and a budget request change one row from what
  each of them has read.  Right means: what changed can be traced, limits agree.
* **Agents.**  Two providers, pages, retries, caps and one deadline; models that
  answer anything.  Right means: every source is within the preferences, every
  claim of the report has a source somebody found.
* **Start-up.**  Several servers seed and read one table of signed cards, and
  end in between.  Right means: what is up has limits of its policy, every
  schema, and the newest sound card of every agent.

`PROJECT.json` lists the hazards by line, with the properties for each.

## Modules

| module | models | lines of Go it stands for |
|---|---|---|
| `RunWorker` | worker processes, consumer group, gate, checkpoints, resume | `worker/processor.go`, `queue/streams/consumer.go`, part of `store.go` |
| `Dispatch` | what the workers promise of `task.dispatch` | `handleRunEnqueued`, `ResumePending`, as a consumer sees them |
| `Executor` | one call of `Executor.Execute` | `executor/executor.go`, `checkpoint_store.go` |
| `TaskOrder` | what the two engines that run plans promise, `Execute` and `executeTasks` | both, as their callers see them |
| `Scheduler` | ticks of several API servers | `server/scheduler.go` |
| `RunLifecycle` | processRun goroutines and budget decisions of a topic | `server/runs.go`, `planner.go`, part of `store.go` |
| `Permission` | when a run may spend its budget | `trigger`, `processRun`, `budgetDecision`, as the topic's owner sees them |
| `Planner` | from the language model's document to the tasks that are run | `planner/schema.go`, `agent/core/planner.go`, part of `budget.go` |
| `Orchestrator` | one call of `ProcessThought`; extends `Planner` | `agent/core/orchestrator.go`, `budget/monitor.go` |
| `Calls` | how a call to Postgres or a provider ends; extended by the modules below | - |
| `Templates` | fingerprints, templates, their versions and uses | `planner_templates.go`, `memory/templates/manager.go`, `server/template_repo.go`, part of `store.go` |
| `Memory` | episodes and embeddings, pruning, rebuild | `cmd/memory`, `memory/semantic/ingestor.go`, part of `store.go` |
| `Recall` | deltas and searches of semantic memory | `memory/manager/manager.go`, `server/memory.go`, `server/runs.go`, part of `store.go` |
| `Summaries` | summaries and their jobs | `memory/manager/manager.go`, `cmd/memory/scheduler.go` |
| `Results` | the end of `processRun`, episodes, evidence, manifests | `server/runs.go`, `manifest/manifest.go`, part of `store.go` |
| `Topics` | chats, preferences, budgets, builder schemas | `server/topics.go`, `server/builder.go`, part of `store.go` |
| `Agents` | the agents of a run and the report made of their results | `agent/core/factories.go`, `sources_http.go`, `httpclient.go`, `evidence.go`, part of `orchestrator.go` |
| `Startup` | sandbox, message schemas, tool cards | `runtime`, `policy/security.go`, `schema`, `capability` |
| `MC...` | small instances | |
| `...Proofs` | theorems about `RunWorker`, `Executor`, `Scheduler`, `Orchestrator` with `Planner`, `RunLifecycle`, `Templates`, in `RecordsProofs` about `Memory`, `Summaries`, `Topics`, `Results`, in `ServicesProofs` about `Recall`, `Startup`, `Agents` | |

Three abstract specifications say what components promise.  `Executor` and
`Orchestrator` each implement `TaskOrder` (property `KeepsOrder`, theorem
`OrderIsKept` of each), `RunWorker` implements `Dispatch` (`KeepsPromise`,
`PromiseIsKept`) and `RunLifecycle` implements `Permission` (`KeepsPermission`,
`PermissionIsKept`).  `RunLifecycle` sees a call of `ProcessThought` from
outside, in its actions `Plan` and `Think`.  The other modules share tables in
the program but not in the models: `RunWorker` creates the runs the worker sees, `RunLifecycle` those of
the API, and no code takes a run from one to the other.  The scheduler meets
`RunLifecycle` at `CreateRun`: in `Scheduler` a run takes the due mark away, in
`RunLifecycle` its life starts (`Create` with origin `"scheduler"`).

Conventions common to all modules: an action is one call to Postgres, Redis or
another component with the local code up to the next call; a call ends `"ok"`,
`"failed"` (nothing happened) or `"lost"` (it happened, the caller sees an
error).  `MaxFaults`, in the modules on `Calls` `MaxMishaps`, bounds how often
the last two and crashes happen.  An
operator whose comment begins "Mutant:" is not part of the model: it is a
version of the operator after it with a plausible bug, used to see that a
property can fail.

## RunWorker and Dispatch

State: `entry` says where an entry of `run.enqueued` stands in the group,
`idle` which pending ones have not been touched for five minutes; `claimed`,
`runStatus`, `approval`, `received` and `checkpoint` are rows of Postgres;
`primary` and `sent` count messages on `task.dispatch`.  A thread is a worker's
main goroutine or one of the slots of its semaphore; `pc` is its next call,
`job` what it works on, `batch`, `reclaimed`, `todo` and `snap` are local
variables that outlive a call.

| action | code |
|---|---|
| `StartWorker`, `StopWorker`, `CrashWorker` | `cmd/worker/main.go`, `Processor.Start`, end of a process |
| `Backpressure`/`MayRead`, `Read`, `Hand` | the loop of `Start` |
| `Claim` ... `Ack` | `processMessageSync`, `handleRunEnqueued`, `enforceBudgetGate` |
| `ListCheckpoints` ... `AutoClaim`, `HandleReclaimed` | `ResumePending` |
| `Enqueue`, `Age`, `EditBudget` | producers, time, users |
| `ResolveBudgetApproval`, `SetDecidedStatus` | `budgetDecision` of the API server, on the tables it shares |

A stop in the middle of a message is covered by a crash or failing calls.  An
entry that does not decode is acked and skipped (`Undecodable`; empty in the
runs, arbitrary in the proofs), one whose payload does not unmarshal is claimed
and dropped (`Garbled`).  A topic may be `Blank`, in an event or on a resume
whose `GetCheckpoint` failed; the gate then looks at nothing and lets the run
pass.  A run of `Anonymous` has a payload without a user: its request is refused
each time.  Of a decision the model has the two writes that the workers see;
what comes of it is in `RunLifecycle`.  `MaxSent` bounds re-dispatches: at the
bound a publish fails.  `MaxEdits` bounds edits of budgets.

Properties.  `KeepsPromise`: the workers implement `Dispatch`, whose state is
the events taken, the messages published for each, the topic each run is
recorded under and the messages of each run.  A run counts as recorded when both
its checkpoints are there (`Recorded`), under the topic a restarted worker will
find.  An event is published for once, after it was taken, for the run and the
topic of its payload; a worker that resumes publishes only for a run on record;
and a record is never written over with another topic nor lost.  So
`AtMostOnePrimary` and `CheckpointedBeforeDispatch`, which the proofs state as
well, need no run of their own.  `RetriesCovered`: a checkpoint does not count
more retries than messages were published, although stale copies are written
back; it is a bound from above, and a completion that a stale copy overwrites
does not break it.  `ApprovalRespected`: however budgets are edited meanwhile,
who is about to dispatch has had a moment since it took the run up when its
topic asked for no approval (`free`).  What has no topic passes the gate, and
the property says who that may be: an event that came without one, or a resume
that a fault kept from reading its payload.  `NoSilentLoss` and
`ParkedHasRequest`: without a fault an acked event was dispatched, parked or
decided about, and a parked run of a user has a request of its topic to wait
for.  The gate also parks a run behind the request of another, and when that is
decided the run is left behind; `ParkedHasRequest` excepts it, a run without a
user, and one whose own decision is between its two writes.  `EventuallyAcked`:
every entry of the group is acked in the end.

`EventuallyAcked` needs `PeriodicResume`: the default resume interval is 0,
then entries of a dead process wait for the next start of some worker.

## Executor and TaskOrder

State: the graph (`dependsOn`), the local variables of `Execute` (`indegree`,
`queue`, `order`, `attempt`, the loops' `unseeded` and `edges`), the rows it
has written (`checkpoint`), and history: `done`, `tried`.  An action is an
iteration of a loop or one call.  Map iteration is a choice; the runner and
the checkpoint manager may fail at every call; the process may end anywhere.
A row of `queue_checkpoints` is of a run and a stage, and tasks may share a
stage (`StageOf`): the later one writes over the row of the earlier.
`StoreCheckpointManager.SaveTaskSuccess` writes nothing, so a task that
succeeded keeps a `"dispatched"` row, and a failed try leaves `"completed"`:
that is the code.

`CycleVerdict` is judged against sets of tasks that wait for each other, a
definition that does not count.  `RetriesRight`: no task is tried more often
than it may be or given up before (`RetriesCapped`), and the checkpoints tell
the tries of the task they are of (`RetriesTold`).  `EventuallyReturns`, `KeepsOrder`.
`DependenciesFirst` is a theorem; `KeepsOrder` implies it.

## Scheduler

State: `due` (would `isDue` say yes of the latest run), `lock` (who wrote the
Redis key), and for each server `pc`, `todo`, `current` and `deferred`, the
locks its `defer`s delete when `tick` returns.  `period`, `created` and
`overrun` (topics whose lock expired before the tick that took it had ended)
are history.  `Tick`, `LoadDue`, `SetNX`, `CreateRun`, `EndOfLoop`, `Unlock`,
`TickDone` are the code; `FallDue`, `RunElsewhere`, `Expire`, `Crash` the
world.  A lock may expire at any moment, which covers ticks of any length.

`OneHolder`: one tick at a time is between `SetNX` and `Del` for a topic,
unless a tick outlasted its lock, which it does not catch.  `BoundedDuplicates`: a scheduler creates at
most one run for each time the topic fell due, and one for each failed read of
the latest run; duplicates do not pile up whatever locks do.
`EventuallyFired`: a topic that is due gets a run.

Left out: pruning of episodes at the start of a tick, `Stop`, and a server
without Redis, which takes no lock.

## RunLifecycle and Permission

State: `status` (`runs.status`), `approval` and `asked`
(`run_budget_approvals`: the status of a run's row, and the runs with a pending
row by `created_at`), `work` (what each goroutine and request is at);
`overlapped` and `hit` are history.  All runs belong to one topic, since the
only query across runs, `GetPendingBudgetApproval`, is by topic.

| action | code |
|---|---|
| `Create` | `trigger`; the loop body of a tick |
| `Plan`, `Think` | `processRun` up to the planner's gate; the rest of it |
| `MarkRunPendingApproval`, `CreateBudgetApproval` | `processRun` on `ErrApprovalRequired` |
| `Fail` | the `FinishRun` of each goroutine that runs processRun |
| `Deadline` | `context.WithTimeout` of trigger and budgetDecision; the scheduler's context has none |
| `GetPendingBudgetApproval` ... `FinishRejected` | `budgetDecision` |
| `Crash` | a server ends with any of its goroutines and requests |

`Policy` is the topic's budget: none, a threshold (an estimate may be on
either side, for each plan anew), or approval always.  After its deadline all
calls of a pipeline fail, the `FinishRun` that should record it included.
A server without an orchestrator (budgetDecision then starts nothing) is left
out.

`RunningIsWorkedOn`: a run that shows as running has a goroutine, whatever
order the writes of pipelines and decisions come in; runs a fault has struck
are exempt, since nothing in the program looks for them.  `ParkedCanBeDecided`:
a run left in `pending_approval` has a pending request.  `OneWorker`: nobody
works on a run that waits for its decision or was rejected, and never two at
once, faults included; only two decisions in flight for one run break this, so
those runs are exempt.  `KeepsPermission`: the module implements `Permission`.
`Stage` of a run is `"spending"` while a pipeline works on it, `"asked"` when its
request is there, `"given"` from an approval to the pipeline it starts,
`"refused"` from a rejection on, `"resting"` when it has ended or parked and
`"contested"` once two decisions have crossed.  A run spends when it begins and
once for each approval of its own request, never after a rejection; an approval
that is not used is not used later.  `EventuallyDecided`: though only a topic's oldest
request can be decided and approved runs ask again, none waits for ever.

## Planner and Orchestrator

State of `Planner`: the document (`tasks`, `order`), the local variables of
`computeExecutionHints` (`indegree`, `queue`, `layers`), `needs`, which is
`AgentTask.DependsOn` of the plan (the document keeps its own), the thought's
`budget` and `phase`.  `Orchestrator` adds what `ProcessThought` keeps:
`results` in the order of the appends, `executed`, the monitor's `used` and
`late` (its time is over), the wave's error channel `errs`, a `goroutine` for
each task, the `final` sum and `pc`.

| action | code |
|---|---|
| `Ask` | `Generate` and the search for JSON in the answer |
| `Structure` | `validatePlanStructure`, `validateExecutionOrder`, the indegrees |
| `NextLayer`, `LayersDone` | the loop of `computeExecutionHints` |
| `ValidatePlan`, `ApplyBudget` | `ValidatePlan`, `applyBudgetToPlan`, the approval error |
| `NormaliseDependencies` | the rest of `Plan` |
| `Revalidate` | `ValidatePlanDocument` of the plan's JSON |
| `StartWave`, `WaveJoined` | head of `executeTasks`' loop; `wg.Wait` and the errors |
| `ExecuteFails`, `Add`, `CheckTime`, `Breach`, `Record` | a task's goroutine |
| `Synthesise` | `synthesizeResults` |
| `Expire` | the monitor's time limit passes |

The actions of a goroutine are its critical sections: `Monitor.Add`, the read
of the clock, the second read of the use for the error, the append under `mu`.
A task has an id, a type and a list of dependencies; `"other"` stands for the
types nothing asks about, `"research"` for research and analysis, which the
planner treats alike.  Cost and tokens are small numbers.  A duplicate in a
document, an unknown or missing id, a wrong order are kept, since the checks
are about them.

`LayersCorrect`: the layers against a definition that does not count; a
document with a cycle never gets past them, one without always does.
`PlanExecutable` joins it with two more.
`ValidatedAgain`: the second validation never throws away a plan.
`ObedientPlanFeasible`: the dependencies `Plan` adds make no cycle in a plan
that keeps to the prompt: no task after the final synthesis, no graph before
research.  Other plans may become cyclic; they get past every check and end
with "circular dependency detected" from `executeTasks`
(`EventuallyReturns` covers them).  `BudgetKept`: an `"ok"` is within the limits
and an error for a limit tells a use over it, although other goroutines add
between the breach and the read.  `StopsWhenOver`: no task starts after a
failure or a breach.  `ReportComplete`: one result for each task, their sum is
the monitor's, and the report is the final synthesis although the code takes
the last one to be completed.

Left out: the semaphore between thoughts and the end of the context,
`CancelProcessing` (it only changes a status), storing of plans and episodes,
the JSON schema and the durations in a document, temporal policy and
templates (parameters and metadata of tasks).  Time is told only as within
or over the limit.

## The records beside the pipeline

Nine modules about tables and registries that share no state with each other.
`MCRecords` checks them in one run: its variable `focus` says which one moves,
the others stay in their initial state, so that the run is twelve small ones
side by side.  An action is one statement, or one transaction, of Postgres or
one call to a provider; it ends as `Calls` says.

**Templates.**  `CountFingerprint`, `SuggestTemplate`, `InsertUsage` and
`CountUsage` are a planner's statements for a stage of its plan; `Promote`,
`CreateTemplate`, `NumberVersion`, `InsertVersion`, `CommitVersion`,
`LinkFingerprint` and `Approve` those of users.  A version takes MAX + 1 in a
transaction that locks nothing; the unique index makes the second insert of a
number wait and fail.  `CurrentIsNewestApproved`: `current_version` ends at the
newest approved version, whichever commits.  `TemplatesFollowed`: a promoted
template is linked to its fingerprint unless two promotions crossed or a call
failed in between (`crossed`, `struck`), and the metrics count every use once.

**Memory.**  `SaveEpisode`, `EmbedSummary`, `EmbedSteps` of pipelines;
`Tick` and the three statements of a pruning; `StartService`, `ListPage`,
`LoadEpisode` and the embeddings of a rebuild, by the service or on the command
line.  `MemoryKept`: what is recorded as pruned has been, also after a failed
statement; and a rebuild has embedded all that was there from its start and is
newer than its cursor, though pages are cut between episodes of one time.
`Replacings` has all that `ReplacePlanStepEmbeddings` may come to, which is not
what it says: its COMMIT is in a `defer` whose error nobody gets, so that one
that fails is told as success, and a step without an ID or a vector fails it
with the DELETE committed.  A rebuild takes the first for done; such runs are in
`believed`, the only ones it may have passed over, and none without a failure.

**Recall.**  `AskDelta`, `EmbedItems`, `MatchRuns`, `MatchSteps`, `LogDelta` of
a delta, `BeginSearch`, `EmbedQuery`, `FindRuns`, `FindSteps` of a search, while
runs are embedded and days pass.  Embeddings are points of a line: that is
enough to tell nearer from further.  The four statements that look at embeddings
have `$2 = '' OR topic_id = $2`, which makes `$2` a text, where the migrations
make `topic_id` a UUID: Postgres refuses them.  So each may fail at any time,
which is no mishap, and answers where the schema lets it.  The indexes are
approximate (ivfflat) and the topic is compared after them: a search has any
rows of the topic, up to the LIMIT (`Nearest`).  `RecallSound`: each item of a
delta is counted once; what is told to be new is like nothing embedded in the
window (`held`, what has been there all the time); what a search shows is near
by the threshold of the attempt that found it, though an earlier attempt had
another and failed after it found runs, no more than the limit, and not the run
that asks.  That nothing near is left out is not claimed: the code does not give
it.

**Summaries.**  `Ask` and `TickSummary` begin, `CreateJob`, `ReadRuns`,
`CloseJob` go on, `RestartMemory` ends the process.  `JobsClosed`: a job that
is running is worked on, unless its completion failed or the process ended.

**Results.**  `CreateRun` to `FinishRun` follow `processRun` and the four
places its result goes to; `Decide` rejects; `WriteEpisode` is a client that
writes the episode of a run; `AskManifest` to `ReadManifest` are
`createManifest`.  `SucceededHasResult`: though the errors of the writes are
dropped, a run is marked succeeded only after its result could be read back,
and lacks claims or a report only if a call for them failed (`hurt`).
`ManifestsAgree`: all who are told a manifest are told the one that is kept,
and it is of one save of the episode unless that was saved again between the
two reads (`torn`).

**Topics.**  `ReadTopic`, `LogMessage`, `Refine`, `UpdateTopic`, `LogReply` of a
chat beside `EditPreferences`; `AmendBudget` and `WriteBudget`; `SaveSchema`,
`RollBack`, `NumberSchema`, `InsertSchema`.  `TopicsKept`: a topic is changed by
the assistant only after the message is on record, and a reply is on record
only after the change; budgets whose requests cross keep limits that agree; an
acknowledged schema is found for ever under the version its author was told.

**Agents.**  Research asks NewsAPI and pages of Brave (`NewsAnswers`,
`BraveAnswers`, `RequestFails`, `Expire`, `ReturnSources`), five agents ask a
model that may answer anything (`Analyse` to `BuildGraph`), and `Compile` makes
the digest and the claims of the report under the fairness policy.
One research moves; what others of the run have returned is `Others`.  URLs are
as they are spelled: research counts, excludes and deduplicates spellings, and
only the report looks up the page (`PageOf`, `normalizeSourceURL`), where of
several spellings of one page the last in the list wins (`Lookups`).
`SourcesWithinPolicy`: of one research, no blocked host, only preferred ones if
that is strict, no host with more URLs than the cap, every spelling once with
its best credibility; of the report, every claim has a page that a research
found, whichever spelling was looked up, with a credibility that fairness may
raise but not put in another order among pages it treats alike.

**Startup.**  `Start`, `EnsureSandbox`, `SeedSchema`, `LoadSchemas`,
`ListCards`, `SeedCard`, `RelistCards`, `End`, of servers and services at once,
beside `Rotate` (the secret), `PublishSchema` and `PublishCard`.
`StartedWhole`: a service that is past its sandbox has limits of its policy, by
the amounts that are meant although the unit of a text may be misread; one that
is up has every schema and, as a server, the newest of the sound cards it read
for every agent; a table no mishap has struck is one a server starts from.

## Runs

| run | instance | checks | states |
|---|---|---|---|
| `shared` | 2 processes, 3 entries (two with one event, one event without run_id and user), decisions, 1 fault | TypeOK, RetriesCovered, NoSilentLoss, ParkedHasRequest, KeepsPromise | 5.9 M, symmetric workers |
| `goroutines` | 1 process, 2 slots, 2 entries, one of an event without run_id and topic, backpressure, 1 budget edit, decisions, 1 fault | ApprovalRespected, EventuallyAcked | 673 k |
| `resume` | 1 process, 1 entry, no fault | NoDuplicateDispatch fails | |
| `graphs` | all 9261 graphs of 3 tasks with up to 2 dependencies, retries -1, 0, 1, a stage of two tasks | TypeOK, CycleVerdict, RetriesRight, EventuallyReturns, KeepsOrder | 89 k |
| `ticks` | 2 schedulers, 2 topics, one falling due later, 1 fault | TypeOK, OneHolder, BoundedDuplicates, EventuallyFired | 288 k |
| `duplicate` | the same, no fault | NoDuplicateRuns fails | |
| `decisions` | 2 runs, 2 pipelines, 2 deciders, threshold, 1 fault | TypeOK, RunningIsWorkedOn, ParkedCanBeDecided, OneWorker, KeepsPermission | 1.3 M, symmetric |
| `approvals` | 2 runs, 2 pipelines, 1 decider, threshold, 1 fault | EventuallyDecided | 46 k |
| `reapproval` | 1 run, approval always, no fault | StaysPending fails | |
| `thoughts` | all 64 graphs of 3 tasks with 6 typings, 24 with execution orders, 7 malformed ones; 5 budgets, 3 uses of a task | TypeOK, PlanExecutable, BudgetKept, ReportComplete, StopsWhenOver, KeepsOrder, EventuallyReturns | 85 k |
| `synthesis` | the same | SynthesisSucceeded fails | |
| `records` | `MCRecords`, below | RecordsTypeOK, CurrentIsNewestApproved, TemplatesFollowed, MemoryKept, RecallSound, JobsClosed, SucceededHasResult, ManifestsAgree, TopicsKept, SourcesWithinPolicy, StartedWhole | 2.1 M, symmetric |

Why these bounds.  The hazards are between two actors on one object, or one
actor and a crash: two processes, two entries of an event, one fault at any
place reach every pair of steps.  The third entry and the second topic make
batches, lists and loops longer than one.  Three tasks are the fewest with a
cycle beside a task outside it, a diamond's half and a duplicate dependency.
Plans of three tasks also hold two syntheses, or a wave of two beside a
dependency; uses of 0 and 1 and limits of 0, 1 and 2 reach every order of two
adds around a limit.  Two retries of a checkpoint (`MaxSent` 2) let a stale copy meet a newer one.
A second fault adds states and no pair of steps; the proofs cover any number.
All events of `shared` are of one topic, so that two gates meet over one request;
that a run keeps to its topic among several is for the proof of `PromiseIsKept`.
Edits are in `goroutines`, so that a run that was dispatched may be held back when
it is resumed.  A run without a topic comes up there when a resume cannot read its payload; an event that names a run and no
topic, and a payload that does not unmarshal, are for the proofs.

`records`, by focus, each with one mishap:

| focus | instance |
|---|---|
| templates | 1 fingerprint, 2 templates of 2 versions, 1 planner, 2 editors: two promotions, or two approvals, that cross while uses are counted |
| memory | 2 runs, pages of 1, 2 units of time, nothing kept longer than one: a page boundary between equal times, an expiry in the middle of a pruning |
| deltas, searches | 2 embedded runs on 2 places, TopK 1, a window of 1 of 3 days; batches with a repeated key, an item without a key, a text or a vector; near, far and equal runs; statements refused at any time |
| summaries | 2 requests and the scheduler, 4 jobs: every pair with a restart in between |
| results, manifests | 2 runs; 2 requests for the manifest of one run beside a client that writes its episode |
| chats, budgets, schemas | 1 chat and 1 edit; 2 budget requests over -1 .. 2; 3 saves of 2 contents |
| agents | 4 URLs of 2 hosts (two spell one page, one is known, one blocked), one spelling found by another research too, answers of 2, a cap of 2, 2 pages of Brave, 1 retry; hosts with a bias of -10 and 0 tenths |
| startup | 2 servers and a service, 2 cards of 2 versions, 2 secrets, 4 policies (fitting, over a limit, with defaults, with an image that is not listed) |

The templates, results and topics of the program have more rows, but no
statement reads two rows that these bounds do not reach.  With a cap of two for
a host and three URLs of one, the cap is met over pages and over providers.

Deadlock is checked where the system may not stop (`RunWorker` and
`Scheduler`).  `Execute` returns, and a topic whose runs have ended has nothing
to do, so `graphs`, `decisions`, `approvals`, `reapproval`, `thoughts` and `synthesis` do
not check it: a thought ends.  Nor does `records`: requests are answered, and
few of them come.

## Fairness

* `RunWorker`: goroutines and processes go on and ended processes are started
  again (weak fairness of handlers, resume, start).  `Read` has strong fairness:
  the `select` of the loop prefers a tick that is ready, but the ticker is not
  ready each time round.  Faults are bounded, so calls succeed in the end.
* `Executor`: sequential code goes on (weak fairness of `Execute`).
* `Scheduler`: each ticker goes on, Redis drops what has expired.  Nothing is
  assumed of `FallDue`, `RunElsewhere` or crashes.
* `RunLifecycle`: goroutines and requests go on.  That users look at a topic and
  decide what it shows is an assumption about users, not about the code; which
  runs they get to see is the code's.  `Start` is fair in the strong sense as
  the model has few goroutines and the program as many as it needs.
* The modules of `records` state no fairness; only safety is claimed of them.
* `Orchestrator`: sequential code and goroutines go on.  An agent's call returns:
  nothing applies a task's timeout, but the clients of the agents have their
  own.  Nothing is assumed of `Expire`.

## Proofs

The theorems hold for every value of the constants that meets the named
assumptions of the module: any number of workers, tasks, schedulers, any graph,
any number of faults.

`RunWorkerProofs`.  `TypeCorrect`, `OnePrimaryPerEvent`,
`DispatchIsCheckpointed`, `RetriesAreCovered`, `ApprovalIsRespected`,
`NoEventIsLost`, `ParkedRunsHaveRequests` and `PromiseIsKept`, the refinement of
`Dispatch`.  None is inductive.  `WellFormed` adds to the types what a goroutine holds at each step.
`ClaimInv`: whoever is past the claim of an event has its key, is the only one
past it, and has not published yet.  `ResumeInv`: checkpoints come in order,
and a listed or copied checkpoint counts no more retries than were published.
`ApprovalInv`: a thread past the gate has seen its topic free of approval or has
no topic, and who has a topic free now has seen it so.  Most
actions leave each of them alone in the same way; the conditions `Calm`,
`Steady`, `Gated`, `Tended`, `Narrow`, `Followed`, `Confined`, `Quiet` and
`Busied` say which, so that the proof has one lemma for these and one for each action that matters.
`NoEventIsLost` and `ParkedRunsHaveRequests` are about behaviours without a
fault.  `LossInv`: a claimed event is published, parked, decided about or in the hands
of the one handler on its way there.  `ParkedInv`: a parked run is asked about,
is being decided about or stands behind a request that is decided, or somebody
is at `find` or `request` for it; it needs `TopicInv`, that a run is of
one topic in the payloads, the checkpoints, the requests and the goroutines,
which rests on `TopicAssumption` (who names a run names the topic it is of) and
on `ResumePending` finding the topic of a checkpoint in `received`.
The refinement needs the like through faults, when a resume falls back on what
an event says: `RecordInv` follows the topic of a run through events, records,
copies of checkpoints and goroutines (`OneTopic`) and says that a handler works
on what its event names (`Handed`).  With it `UpsertReceived` writes the topic
that is there already, `SaveTaskStart` records a run once, and `RunTask`
publishes under the topic of its event.

`ExecutorProofs`.  `TypeCorrect`, `DependenciesComeFirst`, `VerdictIsRight`,
`RetriesAreRight`, and `OrderIsKept`, the refinement of `TaskOrder`.  The inductive invariant `IInv` has `Control` (what each step of
the loop knows), `Counted` (the indegree of a task is the number of its
dependency entries not yet walked), `Queued` (a task is queued or taken exactly
when that number is 0), `Ordered` and `Judged`.  That an indegree never goes
below zero is a consequence, and part of `TypeOK`.

`SchedulerProofs`.  `TypeCorrect`, `HolderIsOne` (inductive with the types)
and `DuplicatesAreBounded`, by `DuplicateInv`: a scheduler that has seen a topic
due and not yet created its run is below the bound by one.

`OrchestratorProofs`.  `BudgetIsKept`, `NoWaveWhenOver` and `OrderIsKept`, for
every plan, budget and number of concurrent tasks.  `IInv` has `Fixed` (tasks
and budget stand still), the types, `Waves` (goroutines work in a wave only, on
tasks that were ready when it started and still are) and `Told`: a limit that
is passed is about to be told by a goroutine or is in the channel, so that
`wg.Wait` finds it.  It needs that uses are not negative: a breach does not go
away.  The refinement adds `Needed`: what is run is what the plan says.
`PlanIsExecutable`, `ReportIsComplete` and `TypeCorrect` rest on `WholeInv`.
Its part `PlanInv` follows the planner: `Counting` (the indegree of a task is
the number of its dependencies not yet layered, and those without one wait to be
layered), `Layering` (a task is in one layer at most, after all it depends on
and right after one of them) and, for a document rejected with tasks left, a
cycle.  `Recorded`: the results are those of the tasks that are done, each once,
the final synthesis last.
`Counted`: what the monitor has counted is the sum of the results and of what
goroutines between the count and the record hold, as long as nothing that was
counted is thrown away.

`RunLifecycleProofs`.  `TypeCorrect`, `RunningRunsAreWorkedOn`,
`ParkedRunsCanBeDecided`, `OneWorkerAtATime` and `PermissionIsKept`, the
refinement of `Permission`.  The types need that the list of
pending requests names each run once and those only.  `Rows` has what a
pipeline or a request knows of the row at each step: `Worked` (what is running
is somebody's), `Parked` (what is parked has a request, or somebody is about to
write one), `Sole` (two at work on one run means two decisions that crossed) and
`LateHit` (a pipeline past its deadline has struck its run).  In the
refinement a step of a goroutine or a request moves one run by a step that
`Permission` allows, or none, and a crash puts several to rest; it rests on
`Sole` (no two pipelines to tell apart while no decisions have crossed) and on
`Begun` (a run that nobody has created has neither row nor goroutine).

`TemplatesProofs`.  `CurrentAlwaysNewest` and `TemplatesAlwaysFollowed`.
`Numbers` has `Editing` (who inserts has a number that is at most the next, who
commits has the next), `Alone` (one transaction at most can commit a version of
a template) and `Named`.  `Uses` follows a planner between the row and the
count of a use; planners are finitely many, so that those in between can be
counted.  `Promotions`: two promotions of one fingerprint in flight have crossed
(`Crossed`); one that has met neither another nor a mishap is the first of its
fingerprint until its version is only to be linked (`First`); a linked template
has a version (`Filled`), so that its fingerprint is not promoted again; and an
approved version is of a fingerprint its template is for already (`Follow`).

`RecordsProofs`.  `JobsAreClosed`: a job is made by a request that has none, and
whoever has one closes it or has met a mishap.  `TopicsAreKept`, in three parts:
what a chat has on record at each step (`ChatsInv`), that the limits a request
is about to write are valid as a whole and not only in what it changes
(`BudgetsInv`), and that a save whose number is not the next finds that number
taken, so that numbers and contents stay in step (`SchemasInv`).
`MemoryIsKept`: `PruneInv` has what is clear after each statement of a pruning,
`RebuildInv` that whatever is newer than the oldest of a page has been embedded
or is on the rest of the page, a run whose COMMIT failed and was told as done
counting as embedded (`Through`), which takes a mishap (`Believing`); it needs
that runs are finitely many, so that a page is not empty.
`SucceededRunsHaveResults`: `Produced` says, for each step of
`processRun`, which of the writes have happened or have hurt the run.
`ManifestsAlwaysAgree`: `Signed` adds that row and steps of an episode are of
one author outside `torn` reads, and that nobody is told before there is a
manifest.
`RecordsAreTyped` is about `MCRecords` as a whole, any of whose modules may be
the one that moves: `RecordsTypeOK` for all tables, requests and clocks.  Most
type invariants are not inductive alone: `Settled` joins each to the invariant
of its module (what is inserted is what was found, what a report cites is
allowed) and adds `PagesLeft`, that research asks for a page only while it has
one.  It needs clocks that have a first day, hour or tick, and a most of nodes
and pages that is not zero, as the code defaults them.

`ServicesProofs`.  `StartIsWhole` (with `StartTypes`), by `StartInv`: at each
stage a process has what the stages before it leave (`Equipped`), for the
sandbox limits within the policy that is meant, for the registry a set of cards
that has one newest card for each tool; and while nothing has gone wrong and
nobody has published, the cards and schemas a server has passed are in the
tables, whoever wrote them (`SeededSoFar`).  It needs `PoliciesAssumption`: a
policy file that decodes has the fields of a policy, though it may ask for
anything.
`SourcesStayWithinPolicy`, by `AgentsInv`: what research has gathered is allowed
and counted by host (`Allowed`, `Counted`; the folds over an answer keep both),
what it returned is of that, one entry for a spelling with the best credibility,
and each claim of the report has a page that was found (`Supported`).
`RecallIsSound`, by `RecallInv`.  For a delta: counts, with no key in two places
(`DeltaCounts`, which the fold over the batch establishes by `JudgedSoFar`); an
item that is told to be new was far from every run of `held` and `heldSteps`
(`DeltaFar`), which stays so because whatever is embedded anew leaves these sets
and the window only moves on; and at `steps` the head of what is left is far
from the runs already (`DeltaStaged`).  For a search, `SearchSound`: what it
shows is near by the threshold in force and within the limit, and an attempt
that is given up leaves nothing behind.  It needs
`BatchesAssumption` (a batch is a sequence of items, each with a text, none, or
one the provider has no vector for), and not that there are finitely many runs:
those embedded are finitely many because embedding takes a step.

A set of natural numbers that is not empty has a least member (`LeastNatural`,
from the well-foundedness of the numbers): that stands in for induction where a
fold over a sequence is reasoned about, as the theorems that take an operator
cannot be used.  For each length the function by which `FoldLeft` is defined is
shown to exist, then what it yields, on the shortest sequence where it would
not.  `SelectSeq` stays opaque to the provers; where theorems need a choice
among the items of a sequence the modules use sets of positions.

Only model-checked: liveness (`EventuallyAcked`, `EventuallyReturns`,
`EventuallyFired`, `EventuallyDecided`), which is beyond this prover.  Every
invariant and action property of a passing run is a theorem.

## Findings

* `resume`: "Crashed worker resumes job without duplication." (tasks.md:31).
  The bootstrap checkpoint stays `"dispatched"` after a clean dispatch, so every
  restart publishes the task again.
* `duplicate`: "distributed lock to avoid duplicate runs" (scheduler.go:76).
  The latest run is read before the lock is taken and not again after it.
* `reapproval`: "run remains pending approval; do not mark failed yet"
  (runs.go:878).  The pipeline of an approved run asks for approval again, and
  the goroutine started by budgetDecision marks it failed.  With
  `require_approval` no approved run gets past its plan.

* `synthesis`: `synthesizeResults` takes the last *successful* synthesis and
  fails when there is none (orchestrator.go:588-599), but `SimpleAgent.Execute`
  sets `Success` after the agent has returned (factories.go:815), so a synthesis
  whose language model call failed becomes an empty report of a completed run.

## Read in the code

Met while modelling and left as the code has it; the models behave like this,
and no run asserts the contrary.

* Worker: it is responsible for "persisting the run stub before acking"
  (docs/architecture/service-decomposition.md:35), but an error in
  `handleRunEnqueued` is followed by the ack all the same (processor.go:445).
  With a blank user the gate asks in the name of `"system"`, which
  `CreateBudgetApproval` cannot store (processor.go:166): the run is parked
  without a request.  A run parked behind another's request (processor.go:170) is
  not taken up when that is decided.  The gate lets pass what has no topic
  (processor.go:145), a resume whose `GetCheckpoint` failed among them
  (processor.go:472).  The group starts at `"$"`
  (consumer.go:59): what came before the first worker is not read.
* Planner: "final synthesis depends on all prior tasks" (planner.go:132), where
  the code adds all other tasks, later ones too.  A task's timeout is never
  applied (planner.go:745).  The key of a stored plan is an id from the model's
  document: two plans of one id overwrite each other (store.go:2229).
* Orchestrator: the cost of the synthesis is added twice (orchestrator.go:620).
  `Adjust` raises to the least credibility, so that `low_credibility_count` is
  always 0 and its alert cannot fire.
* Templates: `created_by` is a UUID and `"system"` is not one
  (planner_templates.go:77), so no suggestion is ever stored, though
  internal/planner/TASKS.md:8 has it as done.  A failed promotion keeps its
  name.  `current_version` is 1 while version 1 is only pending.
* Memory: the rebuild's cursor is a nanosecond before a time of microseconds
  (rebuild.go:92): its last page comes back for ever, "before serving traffic"
  (main.go:63).  `ReplacePlanStepEmbeddings` tells a COMMIT that
  failed as success (store.go:2428) and commits its DELETE when a step has no ID
  or no vector, so that a run is without the embeddings of its plan.  Jobs of
  pruning are never recorded.  Shadowed errors leave a
  transaction without its rollback (`CompleteMemoryJob`,
  `CreateProceduralTemplateVersion`).  A limit of episodes above 200 becomes 50.
* Recall: `$2 = '' OR topic_id = $2` (store.go:2499, 2542, 2588, 2621) compares a
  UUID with a text, which Postgres refuses with the schema of the migrations.
  The ivfflat indexes are approximate and the topic is compared after them, so
  near rows may be missing.  One `search_threshold` is a similarity in deltas and
  a distance in searches.  A run's own steps are shown among its neighbours though the run
  itself is left out.  Two like items of one batch are both new.
* Results: the "latest run" of the context is the run itself (runs.go:1352).  A
  client's episode replaces the claims of a run, its stored result keeps the
  old ones, and the manifest has none.
* Topics: a chat writes back the preferences and the schedule it read before it
  asked the model; what was edited meanwhile is lost.
* Agents: sources are excluded and deduplicated by their spelling
  (sources_http.go:60, 221) and looked up by their page (orchestrator.go:902): of
  two spellings of a page the last is cited, not the most credible.  Brave is
  never told what is known (factories.go:917), and the body of
  a request is empty from its second attempt on (httpclient.go:41).  The cap of
  a host counts duplicates.  The sources of highlights are what the model wrote.
* Start-up: a server that ends while it seeds leaves a table no server starts
  from (capability.go:29); cards are published without validation (tools.go:43);
  a new secret makes all cards unsound; seeding overwrites schemas published
  under base versions; `"512mb"` may not parse (security.go:230) and is then not
  compared with the maximum.

## What the properties except

Some properties hold of everything but what a marked event has touched.  The
hazards behind these marks are real, the models have them, and no property
catches them:

* `overrun`: a tick that outlasts its lock (`OneHolder`); `BoundedDuplicates`
  bounds what comes of it;
* `hit`: a run whose pipeline a deadline, a crash or a failed call has ended
  (`RunningIsWorkedOn`, `ParkedCanBeDecided`);
* `overlapped`: two decisions on one run at once (`OneWorker`,
  `KeepsPermission`);
* `crossed`, `struck`: two promotions of a fingerprint at once, or a failure
  between two statements of one (`TemplatesFollowed`);
* `orphaned`: the process ends, or the completion fails, while a job runs
  (`JobsClosed`);
* `hurt`: a write of claims or report that failed (`SucceededHasResult`);
* `torn`: an episode saved between the two reads of a manifest
  (`ManifestsAgree`);
* a failure while a table is seeded (`StartedWhole`), or anywhere in a worker
  (`NoSilentLoss`, `ParkedHasRequest`);
* `believed`: a COMMIT that failed and was told as done (`MemoryKept`).

## Not modelled

`PROJECT.json` lists every component with its status.  In short:

* prompts, the text of answers and reports, ranking, embeddings as vectors:
  data, of which the models keep what the control depends on;
* handlers that translate one request into one statement and a response,
  authentication, pages, swagger;
* the JSON schema and the durations of a plan document, temporal policy, the
  semaphore between thoughts, `CancelProcessing`, which only changes a status;
* telemetry, metrics and logs: counters under a mutex nobody reads back;
* `cmd/executor` and `cmd/crawler`, placeholders that wait; nothing in the
  repository consumes `task.dispatch`, so what becomes of a dispatched task has
  no model; `cmd/replay` and `cmd/qa`, offline programs over files;
* the browser client.

## Plan

The plan of the first version is done: `RunWorker`, `Executor` with
`TaskOrder`, `Scheduler`, `RunLifecycle`, `Planner` and `Orchestrator`, then the
records beside them, in the order of how much of the program depends on them;
`Dispatch` and `Permission` came last, with their proofs.
What is worth adding when the code changes:

1. The orchestrator's admission: thoughts at the semaphore with contexts that
   end, once something can cancel them.
2. A consumer of `task.dispatch`, when there is one.
