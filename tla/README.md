# OasisPlatform in TLA+

A verification project for OasisPlatform: the API server that stores analyses and
portfolios, the celery workers that run catastrophe models for it, and the worker
controller that scales those workers in a kubernetes cluster. The modules are
translated from the Python sources; `PROJECT.json` maps each definition to the lines
it models.

## 1. The system

| Part | State it keeps | Operations | Talks to |
|---|---|---|---|
| API server (`analyses/models.py`, `v2_api/viewsets.py`) | `Analysis` rows: status, run mode, task ids, file columns | `run`, `generate_inputs`, `generate_and_run`, three cancel requests, copy, uploads | task controller (celery), worker monitor, websocket clients |
| Task controller (`v2_api/task_controller.py`) | the canvas of an execution; `AnalysisTaskStatus` rows | `start_*` tasks: replace rows, send chain, record ids | model workers, database |
| Worker monitor (`v2_api/tasks.py`) | none of its own | `set_task_status`, `record_*`, `handle_task_failure`, `update_task_id`, `cancel_subtasks` | database |
| Model worker, V2 (`distributed_tasks.py`) | running sub-tasks, files | sub-tasks of the two halves; start, failure and revocation signals | monitor, file store, websocket |
| Model worker, V1 (`model_execution_worker/tasks.py`, `celery_error_handler.py`) | a file lock, the count of retries in its message | `start_analysis_task`, `generate_input`, `on_error`, redelivery guard | server's V1 tasks |
| Worker monitor, V1 (`v1_api/tasks.py`) | none of its own | `set_task_status`, `record_*_result`, `record_*_failure` | database |
| Queue status (`queues/`) | none | digest every minute, message on each change, filter requests | worker controller, UI |
| Event progress (`queues/consumers.py`) | two counters of the row | one save per report | kernel of a run |
| Worker controller (`kubernetes/worker-controller`) | cache of deployments, scaling options, shutdown timer | handle a message, watch the cluster, shut down | API, websocket, kubernetes |
| Model registry (`analysis_models/`) | models, scaling and chunking options, soft deletion | registration by workers, configuration requests | controller, task controller |
| Portfolios (`portfolios/`) | file columns, validation, exposure and transformation status | upload, delete, validate, exposure run, transform | internal worker (`server_tasks.py`) |
| Files (`files/`) | file rows with a conversion state | convert, delete (with a cascade) | conversion task |
| Access (`auth/`, `oidc/`, `permissions/`) | tokens, groups | login, queryset filters | identity provider |

What is hard in it:

* **No locks.** A handler reads a row, works on the copy and saves all its columns.
  Requests, monitor tasks and the progress consumer do that concurrently.
* **Messages without an execution.** The monitor's messages name an analysis and a
  slug. A late message of one execution applies to the rows of the next.
* **Two databases of truth.** The status rows and the celery tasks they stand for are
  changed by different processes, and ids that connect them are recorded late.
* **One loop, many awaits.** The controller works with cached replicas and cached
  options, and every await lets the watcher, the timer and old requests in between.
* **Messages handed back.** Tasks are acknowledged when they end, so a container that dies returns
  its message; exceptions are retried. Work may begin several times, and its end may be reported twice.
* **Cascades.** A file row that is deleted takes every portfolio and analysis with it that still names it.
* **Checked then, used later.** Options, row counts and file paths go into a task when it is
  sent, or are read again when it starts.
* **Best effort.** Status messages may be lost, the digest makes up for it, and the
  controller's answer to an unexpected exception is to be restarted.

Properties that make the parts correct: the status of an analysis has a cause and the
files it promises; work that was started ends, also if it has to begin anew; a file has one conversion at a
time; no deletion of a file reaches its portfolio; the chunks of a lookup cover each row once; sub-task rows tell what became of their
tasks; cancelled work is halted; the number of workers follows the load, stays within
the limit in the end and returns to the minimum.

## 2. The modules

| Module | Models | Role |
|---|---|---|
| `AnalysisRow` | the status choices of `Analysis` and what its methods require and reset, for both run modes | operators |
| `AnalysisWorkflow` | what an analysis promises its clients | abstract specification |
| `AnalysisLifecycle` | one analysis row in run mode V2 and the requests, tasks and messages that write its status; implements `AnalysisWorkflow` | core, proved |
| `AnalysisLifecycle_proofs` | | theorems on it |
| `V1Execution` | one analysis row in run mode V1, worker, redelivery and monitor; implements `AnalysisWorkflow` | checked, safety proved |
| `SubTasks` | the sub-task rows of one analysis and their celery tasks | checked, safety proved |
| `ChunkedLookup` | a `generate_and_run` from validation to merged keys: chunk counts, split, lookup, merge | checked, proved |
| `FileConversion` | the file table and the conversion of a file | component of the next |
| `PortfolioFiles` | a portfolio, its files and the work on them; extends `FileConversion` | checked, safety proved |
| `ScalingRules` | `autoscaler_rules.py` and the priority selection, as operators | proved |
| `Autoscaler` | the worker controller with the API's messages and the cluster; uses `ScalingRules` | checked, safety proved |
| `V1Execution_proofs`, `SubTasks_proofs`, `ChunkedLookup_proofs`, `PortfolioFiles_proofs`, `ScalingRules_proofs`, `Autoscaler_proofs` | | theorems on them; `PortfolioFiles_proofs` has those on `FileConversion` too |
| `MCLifecycle`, `MCV1Execution`, `MCSubTasks`, `MCChunkedLookup`, `MCPortfolio`, `MCAutoscaler` | | instances for TLC |

Definitions whose comment begins with "Mutant" are plausible bugs used to show that a
property can fail; no specification uses them.

### AnalysisWorkflow

Three variables: the status clients see, which of the two main files exist, and for each execution the
kinds of work (inputs, run) it may still report on. A request is one step. Everything an execution
does is a `Report`: it changes the status within its own kinds of work; a run leaves the input file alone, while an input
generation may change both files, as it removes the output of older runs; READY comes with an input file and RUN_COMPLETED
with an output file, and the last execution does not end in silence while the
status waits for it (`NoOrphan`). `Shielded` says whether a late start or failure may replace a cancellation: V2
checks for that, V1 does not. Both concrete modules map the row onto it (`Workflow`) and have
`FollowsWorkflow` as a property; requests in their handlers, messages, jobs and canvases
all count as work under way (`UnderWay`). In V2 a cancel request revokes the canvas first and saves the status
afterwards; in between, the revoked work counts as under way if it is the last and nothing else goes on, since to clients it was
not over yet.

### AnalysisLifecycle

`row` is the database row (status, run mode, input and output file, the two task ids).
A file column holds the name of the execution that made the file; the other columns
follow the same saves and are left out. `req[r]` is an API request with the Django
object it read; `stage[e]` is how far the celery canvas of request `e` has got;
`recObj[e]` the object that the canvas's `record_*` task holds; `msgs` the tasks on their way
to the monitor, each with its copy of the row once it has read it. `owner` says whose
sub-task rows exist, `earned` is a history variable: the statuses whose cause occurred.

* A start request is four actions, as its saves can be overtaken between any two:
  `BeginRequest` (get_object), `SaveQueued` (validation, reset, first `save()`),
  `Dispatch`, `RecordDispatch` (second full `save()`).
* A cancel request is `BeginRequest`, `SendCancelSubtasks`, and `CancelSave` or
  `RejectCancel`, in the order of the views.
* The canvas goes through the stages of the two halves; `record_input_files` and
  `record_losses_files` are a read and a full save. `NoKeys` is a `write_input_files`
  that finds no keys and is tried three times. `FailStage` is any sub-task that has used up
  its retries, with the errbacks that its place in the canvas carries.
* `StartChain` makes the message `record_chain_id` (`ChainId`), which for an input generation carries the run task id that the start task
  read, and writes it back. A failure after the chain was sent is retried, with a second chain; that is not modelled.
* Monitor tasks that use a copy of the row are a read (`ReadRow`) and a write; those
  that use `update()` or a single fetched-and-saved column are one action.
* The tasks that handle the messages do not fail: `handle_task_failure` and `set_task_status` log an exception of their own and leave the
  status as it is (`v2_api/tasks.py:626-627`, `698`), and `Settles` is about everything else that fails.
* Validation that does not depend on the row's columns above (existence of the model,
  the settings file, the portfolio) is assumed to succeed.

### V1Execution

One celery task does the whole of an input generation or a run. `jobs` is the queue of the model with the
messages being worked on: each has its count of retries, and whether it was redelivered. `known` are the task
ids the workers know to be revoked, `runs` a history of how often the work of a request was begun, `faults` how many
containers died.

* Requests are as in `AnalysisLifecycle`, without sub-tasks.
* `Guard` is `task_redelivered_guard`: a redelivered message is not run but costs a retry. `retry()` is given an
  exception and raises it when no retry is left, so the task fails and its errback reports; the
  guard's own branch for `MaxRetriesExceededError` is never reached.
* `ContainerDies` hands the message back. A container may also die when it has published what ends its task and has not acknowledged
  it, in the guard as well as at work: `RetryDies` doubles the message (the retry and the original), `FailureDies` hands back one whose
  failure is reported already.
  `Return` may lose its acknowledgement, `ChildDies` is a killed process under a living worker, which celery reports as a
  failure (`CELERY_REJECT_ON_WORKER_LOST = False`). The last worker takes the revoked ids with it.
* The monitor's recorders are a read, the clearing of the old file columns, and a full save; `RecorderFails` is
  `LogTaskError`; the failure recorders only log their own exceptions (`v1_api/tasks.py:509-510`, `538-539`) and are taken to succeed.
  A status message is one write, with no look at the row.

### SubTasks

`rows[s]` is the `AnalysisTaskStatus` row of slug `s`: the execution it was created for (a
history value, the table has no such column), its status and task id. `task[g][s]` is
what became of the celery task of that slug in execution `g`; `revoked` what has
been broadcast to the workers. `Level` describes the canvas (a chain of tasks and
chords), `Senders` the tasks that send the ids of a half to the monitor, as the first of each half does. The controller's `_record_subtask_ids` is a fetch and one full save per row.
External behaviour of celery, modelled from how the code relies on it: the next level
is sent when a whole level has succeeded; a failed header task calls its own errback,
those of the chord's body and the chord's; a revoked task calls no errback but runs
`revoked_handler`. Left out are retries and redeliveries of a sub-task, which run `task_prerun` and the errbacks again, and
exceptions in the monitor's own tasks (`v2_api/tasks.py:481`).

### ChunkedLookup

`options` are the chunking options that apply, `portfolio` the exposure as the sequence of its `loc_id`s, `run` the
request with the counts it sends along and then its chain, `keys` what each chunk has stored. `generate_and_run` validates
and counts; `StartChain` reads the options again and fails on a null or zero count; `pre_analysis_hook` may change the
exposure, and splits it unless an older API has not told it the number of chunks; `prepare_keys_file_chunk` loads what is
its own; `collect_keys` merges; it does not drop doubles as `unique(keep='first')` does, so `EveryRowOnce` asks more than the
code does. Rows stand for keys: what a lookup makes of a row is the model vendor's code.

### FileConversion and PortfolioFiles

`files` is the file table, with conversion state, recorded mapping, and `oed_validated`; `output` is the storage: which mapping made what
lies at the output path, one path for all conversions of a file. A conversion is the view's read and save, the message, which may not get
out (`unsent`), and the task's read, mark, conversion, output (`WriteOutput`) and final full save, with retries. `PortfolioFiles` adds the portfolio row and requests that go through handler, worker and
recorder. Deleting a file row cascades to a portfolio that names it, and removes the stored file that a task may
have been told to fetch; `takenBy` remembers who deleted it. A task of the internal worker can die at any point (`TaskDies`: no file, a failed
download, an answer that cannot be stored, a killed container), which leaves STARTED behind. `set_portfolio_valid` reads the attached
file and saves all of it (`FetchAttached`, `MarkValid`), conversion state included. A full save that names a deleted file fails, one of a deleted row inserts it again. `checked`
is a history of the files a validation has found valid. The location file stands for the four exposure
files, the transform file for itself and its mapping.

### ScalingRules and Autoscaler

`ScalingRules` has the worker count of each strategy, the settings it refuses, and the
selection of priority levels. `Autoscaler` adds the processes. `phase[a]` abstracts
the database: an analysis is new, waiting for or with workers, ready, over, or an
*orphan* (cancelled with a message still in its queue). `inbox` is the websocket; a message holds
the aggregated states, as the parsing is a function of the message alone. A pass over
the models is an action per model (`LoadOptions` when the API is asked, then `ScaleUp`, `ScaleDown`
or `Crash`; `Reconnect` is a closed websocket, after which the loop goes on with what it has), interleaved with the watcher (`UpdateDeployment`), the timer (`Tick`,
`Cleanup`) and requests under way (`PatchDone`, `ZeroDone`, `ZeroFails`) wherever the loop
yields. Abstractions: queue and deployment names are model values; the set of
deployments is fixed; watch events carry the latest replicas; debugging options
(`never_shutdown_fixed_workers`, continuous updates) are off; every model has options; an analysis that is submitted has its
sub-tasks at once, while the message of the dispatch goes out before their rows exist.

## 3. What TLC checks

| Run | Properties | Shows |
|---|---|---|
| `lifecycle_overlap` | `TypeOK`, `StatusHasFiles`, `StatusEarned`, `FilesHaveProducers` | two requests that overlap in every way, with stale saves, keep the row consistent |
| `lifecycle_prompt` | `Settles`, `FollowsWorkflow` | with the timing the design counts on, no analysis stays queued or started, and V2 implements the workflow with its shield |
| `v1_redelivery` | `TypeOK`, `RunsBounded`, `Settles`, `FollowsWorkflow` | V1 implements the workflow without the shield, through deaths at work and before an acknowledgement, redeliveries, doubles and forgotten revocations, and begins the work no more often than its retries allow |
| `subtasks_again` | `TypeOK`, `StatusJustified` | two executions, ids saved late, late messages: no status without a cause |
| `subtasks_prompt` | `CancelledIsHalted`, `SuccessShows`, `NotOverwritten` | both halves of a canvas, with ids recorded in time: cancelled tasks are halted, successes show, statuses go forward |
| `lookup_chunks` | `TypeOK`, `ChunksBounded`, `AcceptedStarts`, `EveryRowOnce`, `SubjectsTogether` | which accepted requests can fail to start; each row is looked up once, in the version in use, with all rows of its subject |
| `portfolio_work` | `TypeOK`, `Survives`, `ExposureHasFile`, `LostToRival`, `OneConversion`, `MappingIsUsed`, `ConversionAttended`, `WorkEnds` | two requests and two conversions: no cascade, no conversion twice at a time or forgotten, the output is that of the recorded mapping, only a rival takes the file of a task away, work ends unless its task died |
| `scale_converge` | `TypeOK`, `WorkIsServed`, `Converges`, `IdleSpinsDown` | replicas of a V2 deployment follow load and options through losses, crashes, reconnections, restarts and edits, and work is given a worker in its turn |
| `scale_limit` | `EventuallyWithinLimit`, `TopPriorityServed` | limit, minimum and priorities together, over V1 and V2 deployments |

Three runs show the code to disagree with what the repository says of it:

| Run | Property | Disagreement |
|---|---|---|
| `refused_cancel` | `RevokedOnlyIfCancelled` | a refused cancel request has revoked the sub-tasks already |
| `failed_chunk` | `OthersCancelled` | a failed chunk leaves its siblings running: `chord_error_callback` is told no analysis and cancels nothing |
| `transform_unchecked` | `ValidatedIsChecked` | the validation after a transformation checks the old file and marks the new one |

**Bounds.** Each request is made once and at most two exist, enough for a request to overlap
another's work, a cancellation to overlap a start, and a late message to meet the
next execution. `MaxMsgs` keeps senders waiting while that many messages are unhandled; one
message that is read, overtaken and saved late is what the stale-save hazards need, and the
proofs below do without the bound. `MaxRetries` is 0 or 1 instead of 8 in `AnalysisLifecycle`: a retry returns to a state
already seen, with another count. `subtasks_again` uses a chord of one chunk and its
body, the smallest canvas with two levels and a chord error; `subtasks_prompt` has both halves, six tasks of which the first and the fifth
send ids, and two chunks, so that one
can fail or be revoked while the other runs. `v1_redelivery` has two requests, one retry and two deaths (`MaxFaults`), so that a message
can be redelivered, doubled and given up, and the work of one request meet that of the other. `lookup_chunks` has four rows and up to three chunks: uneven blocks, empty chunks,
subjects with several rows; the options are one per way of counting with its limits, and there is one edit (`MaxEdits`) between request and start. `portfolio_work` has files enough (`MaxFiles`) for
what two requests can create, two conversions (`MaxConvs`) and a retry, so that a retry meets the other request's
conversion. `scale_converge` allows three events (edits,
reruns, restarts, failed requests), with options of every strategy, a missing maximum and `chunks_per_worker = 0` among them; more repeat what these do from a state that convergence already
covers. `scale_limit` has two deployments that want two workers each, keep one, and may have two.
Deadlock is not checked: clients may stop asking, and then everything is rightly at rest.

**Prompt and Atomic.** In `AnalysisLifecycle`, `V1Execution` and `SubTasks` the constant `Prompt` restricts the environment
to the timing the code counts on: requests do not overlap, messages are handled before the next step. The
runs with `Prompt = TRUE` say what the design achieves; those without it what is left when timing is
arbitrary. `Prompt` therefore excludes the stale saves of start requests and monitor tasks, ids that are recorded late and rows cancelled
before they have one: with them `Settles`, `FollowsWorkflow`, `CancelledIsHalted` and `NotOverwritten` are false of the code. `Atomic` in `PortfolioFiles` is weaker: a request and a recorder are not interrupted between their
read and their save, which takes milliseconds; the tasks between them take any time. It excludes a save between the clearing of a
column and the deletion of the file, two conversions that both see a file at rest, and two recorders that overlap. Section 5
says what can happen otherwise.

**Fairness.** Handlers, workers and the monitor keep going: uvicorn and celery processes are
restarted and their queues are durable. Nothing is assumed of clients, and no container has to die. Workers are strongly fair
in `AnalysisLifecycle` and `V1Execution` because they never wait for the monitor, the bounds and `Prompt` only make it look so;
in `PortfolioFiles` the handlers, workers and recorders together are weakly fair (`System`), which is enough, as each of their steps brings
some request or conversion nearer to its end. In
`Autoscaler` the digest is periodic (celery beat), the loop runs each of its
ready callbacks (strong fairness for what can run only while it yields), the watcher never ends (an exception other than
`ApiException` would end its task in silence, `cluster_client.py:88-101`, `worker_controller.py:142`), and the shutdown timer
is weakly fair only, as a message that sets it anew may interrupt it. A busy model can
therefore keep the workers of an idle one, and the runs bound how often analyses are
started again for that reason.

## 4. What is proved

Every invariant of a run, the action property and the two refinements hold for all values of the constants that the
modules' `ASSUME`s allow: any number of requests, executions, files, rows or models, and any bounds. The assumptions
give the constants their types, and say that the table of analyses is finite (`AutoscalerAssumption`).
Where a theorem has a hypothesis (`Prompt`, `Atomic`, one execution), the runs that check the property have it too,
and section 5 says what can happen without it.

| Module | Theorem | States | Under |
|---|---|---|---|
| `AnalysisLifecycle_proofs` | `TypeCorrect`, `FilesFollowStatus`, `StatusIsEarned`, `FilesAreProduced` | the invariants of `lifecycle_overlap` | |
| | `ImplementsWorkflow` | `FollowsWorkflow` | `Prompt`, cancellation by `cancel` |
| `V1Execution_proofs` | `TypeCorrect`, `RunsAreBounded` | `TypeOK`, `RunsBounded` | |
| | `ImplementsWorkflow` | `FollowsWorkflow` | `Prompt` |
| `SubTasks_proofs` | `TypeCorrect`, `StatusesJustified` | `TypeOK`, `StatusJustified` | |
| | `CancelledAreHalted`, `StatusesKept` | `CancelledIsHalted`, `NotOverwritten` | `Prompt`, `MaxGen = 1` |
| `PortfolioFiles_proofs` | `TypeCorrect` | `TypeOK` | |
| | `ConversionsAlone`, `MappingsAreUsed`, `ConversionsAttended` | `OneConversion`, `MappingIsUsed`, `ConversionAttended` | `Atomic` |
| | `PortfolioSurvives`, `ExposuresHaveFiles`, `FilesLostToRivals` | `Survives`, `ExposureHasFile`, `LostToRival` | `Atomic` |
| `ChunkedLookup_proofs` | `TypeCorrect`, `ChunksAreBounded`, `AcceptedRequestsStart`, `RowsAreLookedUpOnce`, `SubjectsStayTogether` | the invariants of `lookup_chunks` | |
| | `SplitCoversRows`, `SplitKeepsSubjects` | what the split of an exposure is, as an operator | |
| `ScalingRules_proofs` | `DesiredWithinSettings`, `PrioritiesRespected` | bounds of the worker count; whom limited priorities serve | |
| `Autoscaler_proofs` | `TypeCorrect`, `WorkGetsWorkers` | `TypeOK`, `WorkIsServed` | |

The arguments:

* **AnalysisLifecycle, invariants.** They follow from `Inductive`, that is `Spec => []IInv`. They are not inductive by themselves,
  since the row is overwritten by copies read long ago. `IInv` says of every copy that may still be saved (in a request, a
  recorder, a message) what the invariants say of the row (`SnapshotOK`), ties a canvas to the operation of its
  request (`CanvasOK`), and says what a message may carry (`MsgOK`). A copy stays good while it waits, for causes do not
  unhappen and a canvas that has stored files goes on owning them (`Forward`, `SnapshotsKeep`). One lemma per
  action shows that it goes forward and writes a good copy.
* **The refinements of AnalysisWorkflow.** The invariant `WInv` (one in each module) says who can be in the middle of something at
  a time, that copies of the row are then equal to it, what an unhandled message may be about, and that a status that
  waits has somebody who will report an outcome (`Waited`); the last is what `NoOrphan` asks for. One lemma per
  action names the abstract step it is, or shows that clients see nothing. In V2 the two cancel requests for one
  half (`cancel_generate_inputs`, `cancel_analysis_run`) are excluded: one that is refused has revoked the work already, which
  leaves a status that waits with nobody to end it (run `refused_cancel`). The clause of `UnderWay` for revoked work matters from the
  fourth request on (start, cancel, start, cancel), which the run does not have.
* **V1Execution, RunsBounded.** An account: `RInv` gives each message its share of runs (what is left of `max_retries + 1`, one less
  when it runs or is redelivered). No step increases a share, to begin the work takes one run out of it, and only an acknowledgement lost
  with a published retry (`RetryDies`) opens a new share. Runs begun and shares together are therefore bounded by what the request and the losses brought in.
* **SubTasks.** `JInv` explains a status also in the controller's fetched rows and in unhandled messages, and has the order of the
  canvas: a level is sent once, after the levels before it have succeeded, so that causes stay. `HInv` adds, for the first execution with
  ids recorded promptly, that afterwards every row has the id of its task, so that what is still active is revoked before it is marked.
* **PortfolioFiles.** `PInv` holds whatever overlaps: types, keys that are handed out once, and a table with room for what requests create
  (`Room`, a ledger of what each may still need). `AInv` needs `Atomic`: one thing at a time is between its read and its save (`Alone`), the
  state of a file keeps a second conversion away (`Guarded`), so that what lies at the output path is of the task that wrote last and will save
  its outcome (`Written`). An object in a handler or recorder differs from the row at most in the column it cleared (`CopyOK`), and only a rival
  takes the file of a task away (`RivalsKnown`, `SourceKept`).
* **ChunkedLookup.** `CInv` says what the request has been told and what each chunk has stored; the properties then follow from facts about
  the split for exposures of any length: `array_split` makes blocks that follow one another and differ in length by at most one, every subject
  has one block, and the lists joined have each row once. Those need induction over lists, done by a least counterexample
  (`LeastNumber`), as are the solution of the recursion behind `FlattenSeq` and the existence of ascending lists (`Ascending` chooses such a list).
* **Autoscaler.** The rules need tasks and analyses to be counted together: a strategy that looks at one of them would take a busy model for an idle
  one. `AInv` says so of the states in messages and in the pass; the sum of tasks over analyses is positive by a least counterexample again.
  This discharges the hypothesis of `DesiredWithinSettings`. `TypeCorrect` says that the cluster is never asked for fewer than 0 workers, even when the limit
  leaves a negative number, nor for more than options can ask for.
* **ScalingRules.** Case by case over the strategies, excluding the settings that the rules refuse or divide by zero with; whoever is at least
  as urgent as a model that is served is served.

Only model-checked: liveness (`Settles`, `SuccessShows`, `WorkEnds`, `Converges`, `IdleSpinsDown`, `EventuallyWithinLimit`,
`TopPriorityServed`), since the prover has no fairness and no `ENABLED`; and the three disagreements, whose counterexamples TLC finds.

## 5. What is not modelled

Event counters (a progress display that no decision depends on); the file lock between V1 workers on one machine; registration and
deletion of models; combining analyses; copies of analyses; deletion and upload of single files
of an analysis; requests that save the whole row of an analysis without touching its status (PUT, PATCH, the chunking configuration), which can write
back a stale one like every other full save; the deletion of mapping files, which cascades to the files that name them and on to
their portfolios, so that `Survives` does not speak of it; the distribution of events over loss chunks, which the kernel does; validation of settings against
other rows; names of queues and deployments; authentication, permissions, serializers, storage and charts.
`PROJECT.json` says of each why, and lists the hazards without a property.

Behaviour of the code that its readers may not expect. The models have it unless noted:

* The second save of a start request (`_record_dispatch`) writes every column of the object read at the beginning. When the
  worker is faster, it puts QUEUED back over the outcome and nothing changes it any more (`AnalysisLifecycle` without
  `Prompt`; the runbook explains a stuck `INPUTS_GENERATION_QUEUED` by missing services only).
* `generate_and_run` shows READY between its halves, so a client can start a second run in between
  (`record_input_files` sets READY whatever follows).
* A cancellation marks sub-task rows without a recorded id as CANCELLED, and their tasks go on
  (`SubTasks` without `Prompt`).
* A success message or a worker's echo of a cancellation that is late by one execution changes the rows of the
  next one (`record_sub_task_success`, `revoked_handler`).
* `_record_subtask_ids` can set rows back to PENDING (full saves of rows fetched earlier).
* In run mode V1 a late `set_task_status` overwrites a cancellation, and a revocation is forgotten when the last worker dies: the
  cancelled work then starts again when its message comes back.
* Retries for want of the V1 lock are unlimited but count, so a later exception may find none left (not in the models).
* The conversion task saves the whole file row at its end: it writes back `oed_validated` as it was, and inserts a row again that was
  deleted meanwhile. `set_portfolio_valid` saves the whole row too: with `Atomic = FALSE` it can put PENDING or IN_PROGRESS back after the
  conversion has ended, and the file is refused from then on.
* A conversion whose message cannot be sent leaves PENDING behind, and the file refuses every further conversion (`unsent`).
* All conversions of a file write to one path. Two at a time (`Atomic = FALSE`) may leave the output of the other's mapping, and so
  does a retry of an older request that writes its output and then fails: the file is in ERROR then, not DONE.
* An unreadable mapping file leaves the conversion IN_PROGRESS for ever: each retry takes itself for a double (`MappingFails`).
* A validation, exposure run or transformation whose task ends outside its `try` (the file was replaced before the worker fetched it, a
  download failed, the container died) leaves STARTED behind, with or without a rival (`TaskDies`).
* `record_transform_output` deletes the transform file of whoever asked last, not the one it used.
* With `Atomic = FALSE`, a full save that comes between the clearing of a file column and the deletion of the file puts
  the reference back, and the deletion takes the portfolio along. `delete_prev_output` of run mode V1 has the same window.
* A request accepted with FIXED_CHUNKS and no location file fails at its start if the strategy is changed to DYNAMIC_CHUNKS while it is queued; so does
  one with a null fixed count, and one whose single event id sends it to an event set of size 0.
* The worker limit can be exceeded while a shutdown is pending, since a pass counts only what
  comes before a model; the option's help text calls it a hard limit (`worker_controller.py:71`).
* Models whose minimums fill the worker limit and come earlier in the pass starve a more urgent one (`TopPriorityServed` has room above them).
* A shutdown request that is under way when new work arrives is not aborted, and takes the workers of that work away until the next message.
* Analyses that are merely NEW or READY count as work for a V1 deployment that has workers (`consumers.py:119-139`, `autoscaler.py:202-210`). It
  does not spin down, although `analysis_models/v2_api/viewsets.py:257` says "When the model queue is inactive the number of workers is set to
  `worker_count_min`"; `IdleSpinsDown` is stated for V2 deployments.
* `chunks_per_worker = 0` is accepted and stops the controller at every message about that model's work.
* Options edited while a busy model has workers are used only when it had none again, unless a minimum is set.
* A report of `events_total` writes back the count of completed events it read, against the comment above it (not in the models).

## 6. Plan

1. *Done*: the core components modelled and checked; `AnalysisWorkflow` implemented by both run modes; the safety properties of all
   modules and the two refinements proved.
2. Safety properties that would carry the liveness of `Autoscaler` further, as a bound on what one pass asks for under a worker limit, checked and proved.
3. `ModelRegistry`: registration by several workers at once, soft deletion, run mode, default options, validation of options.
