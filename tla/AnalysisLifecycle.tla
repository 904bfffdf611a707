------------------------- MODULE AnalysisLifecycle -------------------------
(***************************************************************************)
(* The life of one Analysis row in run mode V2.                            *)
(*                                                                         *)
(* Three kinds of processes write the row, and none of them holds a lock   *)
(* or a transaction over its read and its write:                           *)
(*   - the API handlers (run, generate_inputs, generate_and_run, cancel,   *)
(*     cancel_generate_inputs, cancel_analysis_run), each working on the   *)
(*     Django object it read when the request came in;                     *)
(*   - the tasks of the worker monitor (set_task_status,                   *)
(*     handle_task_failure, record_input_files, record_losses_files, the   *)
(*     two record_*_error_files, cancel_subtasks);                         *)
(*   - the websocket consumer that stores the event progress of a run.     *)
(* A plain save() writes every column of the object, so it also writes     *)
(* back whatever the process read earlier; save(update_fields) writes the  *)
(* named columns only.  Both are modelled as they are: an object is copied *)
(* when it is read and written, whole or in part, in a later step.         *)
(*                                                                         *)
(* An accepted request that starts work gives its own name to the celery   *)
(* canvas it dispatches, so `stage[r]' is the progress of the work that    *)
(* request r started.                                                      *)
(***************************************************************************)
EXTENDS AnalysisRow, Naturals, FiniteSets

CONSTANTS
  Request,      \* the API requests; each is made at most once (a bound)
  Ops,          \* the operations the clients use
  MaxMsgs,      \* bound: nobody sends while this many messages are unhandled
  MaxRetries,   \* retries of handle_task_failure (8 in the code)
  Prior,        \* stands for the execution that made an already READY row
  Prompt        \* TRUE: requests and recorders do not overlap, and messages are
                \* handled before the next request or chain step (as designed)

ASSUME LifecycleAssumption ==
  /\ Ops \subseteq {"run", "generate_inputs", "generate_and_run", "cancel",
                   "cancel_generate_inputs", "cancel_analysis_run"}
  /\ MaxMsgs \in Nat
  /\ MaxRetries \in Nat
  /\ NoKey \notin Request
  /\ Prior \notin Request
  /\ Prior # NoKey
  /\ Prompt \in BOOLEAN

VARIABLES
  row,      \* the row of the analyses table
  req,      \* each API request: its operation, where it is, its object
  stage,    \* where the canvas dispatched by a request is
  recObj,   \* the object held by the record_* task of a canvas
  msgs,     \* tasks sent to the worker monitor and not finished
  owner,    \* whose sub-task status rows are in the database
  earned    \* history: the statuses whose cause has happened

vars == <<row, req, stage, recObj, msgs, owner, earned>>

-----------------------------------------------------------------------------
(* The shape of the state.                                                 *)

Stage == {"none", "start", "gen_params", "gen_files", "no_keys",
          "no_keys_2", "no_keys_3", "record_inputs", "save_inputs", "gen_cleanup",
          "loss_params", "loss_work", "record_losses", "save_losses",
          "loss_cleanup", "done", "failed", "revoked"}

GenStage    == {"gen_params", "gen_files", "no_keys", "no_keys_2",
                "no_keys_3", "record_inputs", "save_inputs", "gen_cleanup"}
LossStage   == {"loss_params", "loss_work", "record_losses", "save_losses",
                "loss_cleanup"}
ActiveStage == {"start"} \cup GenStage \cup LossStage

File == Request \cup {Prior, NoKey}

Row == [status : Status, run_mode : {"V2", "null"}, input : File,
        output : File, gen_task : Request \cup {NoKey},
        run_task : Request \cup {NoKey}]

ReadyRow == [NewRow EXCEPT !.status = "READY", !.run_mode = "V2",
                           !.input = Prior]

Task == {"set_task_status", "handle_task_failure", "record_input_error_files",
         "record_losses_error_files", "cancel_subtasks", "record_chain_id",
         "event_progress"}

Msg == [task : Task, by : Request, arg : Status, retries : 0..MaxRetries,
        pc : {"queued", "read"}, obj : Row]

\* A task on its way to the monitor; it has not read the row yet.
Send(task, r, arg) == [task |-> task, by |-> r, arg |-> arg, retries |-> 0,
                       pc |-> "queued", obj |-> NewRow]

\* The environment restriction named by Prompt.
Calm == Prompt => /\ msgs = {}
                  /\ \A r \in Request : /\ req[r].pc \in {"idle", "done"}
                                        /\ stage[r] \notin {"save_inputs", "save_losses"}

\* The bound on unhandled messages.
Room == Cardinality(msgs) < MaxMsgs

-----------------------------------------------------------------------------
Init ==
  /\ row \in {NewRow, ReadyRow}
  /\ req = [r \in Request |-> [op |-> "run", pc |-> "idle", obj |-> NewRow]]
  /\ stage = [r \in Request |-> "none"]
  /\ recObj = [r \in Request |-> NewRow]
  /\ msgs = {}
  /\ owner = NoKey
  /\ earned = {"NEW", row.status}

-----------------------------------------------------------------------------
(* API handlers.                                                           *)

\* The response is sent and the request's object is gone.
Finish(r) == [req EXCEPT ![r].pc = "done", ![r].obj = NewRow]

\* The view calls get_object(): the row is copied into the request.
BeginRequest(r, op) ==
  /\ req[r].pc = "idle"
  /\ Calm
  /\ req' = [req EXCEPT ![r] = [op |-> op, pc |-> "begun", obj |-> row]]
  /\ UNCHANGED <<row, stage, recObj, msgs, owner, earned>>

\* First save(): the queued status is stored before anything is dispatched.
SaveQueued(r) ==
  LET obj == ResetFor(req[r].op, req[r].obj) IN
  /\ req[r].pc = "begun"
  /\ req[r].op \in StartOp
  /\ StartValid(req[r].op, req[r].obj)
  /\ row' = obj
  /\ req' = [req EXCEPT ![r].pc = "saved", ![r].obj = obj]
  /\ earned' = earned \cup {obj.status}
  /\ UNCHANGED <<stage, recObj, msgs, owner>>

\* _dispatch_v2: the start_* task goes to the task-controller queue.
Dispatch(r) ==
  /\ req[r].pc = "saved"
  /\ stage' = [stage EXCEPT ![r] = "start"]
  /\ req' = [req EXCEPT ![r].pc = "dispatched", ![r].obj.run_mode = "V2"]
  /\ UNCHANGED <<row, recObj, msgs, owner, earned>>

\* _record_dispatch: the task id is stored by a second full save().
WithDispatchId(r, obj) ==
  IF req[r].op = "run" THEN [obj EXCEPT !.run_task = r]
                       ELSE [obj EXCEPT !.gen_task = r]

RecordDispatch(r) ==
  /\ req[r].pc = "dispatched"
  /\ row' = WithDispatchId(r, req[r].obj)
  /\ req' = Finish(r)
  /\ UNCHANGED <<stage, recObj, msgs, owner, earned>>

\* A validation error: a start method stores nothing.
RejectStart(r) ==
  /\ req[r].pc = "begun"
  /\ req[r].op \in StartOp
  /\ ~StartValid(req[r].op, req[r].obj)
  /\ req' = Finish(r)
  /\ UNCHANGED <<row, stage, recObj, msgs, owner, earned>>

\* cancel_subtasks() of the model: sent before the status is looked at.
SendCancelSubtasks(r) ==
  /\ req[r].pc = "begun"
  /\ req[r].op \in CancelOp
  /\ Room
  /\ msgs' = IF req[r].obj.run_mode = "V2"
             THEN msgs \cup {Send("cancel_subtasks", r, "NEW")} ELSE msgs
  /\ req' = [req EXCEPT ![r].pc = "cancelling"]
  /\ UNCHANGED <<row, stage, recObj, owner, earned>>

\* cancel_generate_inputs() / cancel_analysis(): revoke the stored task id,
\* which stops a start_* task that is still queued, if the revoke gets there,
\* then save the whole object.
CancelSave(r) ==
  LET obj == req[r].obj
      new == [obj EXCEPT !.status = CancelledStatus(obj), !.run_mode = "null"]
      t   == TaskToRevoke(obj) IN
  /\ req[r].pc = "cancelling"
  /\ CancelValid(req[r].op, obj)
  /\ row' = new
  /\ \/ stage' = stage
     \/ /\ t \in Request
        /\ stage[t] = "start"
        /\ stage' = [stage EXCEPT ![t] = "revoked"]
  /\ req' = Finish(r)
  /\ earned' = earned \cup {new.status}
  /\ UNCHANGED <<recObj, msgs, owner>>

RejectCancel(r) ==
  /\ req[r].pc = "cancelling"
  /\ ~CancelValid(req[r].op, req[r].obj)
  /\ req' = Finish(r)
  /\ UNCHANGED <<row, stage, recObj, msgs, owner, earned>>

-----------------------------------------------------------------------------
(* The canvas: task controller, model workers and the record_* tasks.      *)

FirstStage(op) == IF op = "run" THEN "loss_params" ELSE "gen_params"

\* What a start_* task still has to store: the chain's id and, of the object it
\* read, the run_task_id column.
ChainId(e) == [Send("record_chain_id", e, "NEW") EXCEPT !.obj.run_task = row.run_task]

\* A start_* task: replaces the sub-task rows, sends the chain and stores the
\* chain's id afterwards.  If that fails, start_input_generation_task is retried
\* and sends a second chain (autoretry_for); such a failure is taken not to happen.
StartChain(e) ==
  /\ stage[e] = "start"
  /\ Calm /\ Room
  /\ stage' = [stage EXCEPT ![e] = FirstStage(req[e].op)]
  /\ owner' = e
  /\ msgs' = msgs \cup {ChainId(e)}
  /\ UNCHANGED <<row, req, recObj, earned>>

\* The first sub-task of each half tells the API that the half has started.
WorkerStarts(e, from, to, status) ==
  /\ stage[e] = from
  /\ Calm /\ Room
  /\ stage' = [stage EXCEPT ![e] = to]
  /\ msgs' = msgs \cup {Send("set_task_status", e, status)}
  /\ earned' = earned \cup {status}
  /\ UNCHANGED <<row, req, recObj, owner>>

GenParams(e)  == WorkerStarts(e, "gen_params", "gen_files", "INPUTS_GENERATION_STARTED")
LossParams(e) == WorkerStarts(e, "loss_params", "loss_work", "RUN_STARTED")

\* write_input_files finds no keys: it says so, fails and is tried again, three
\* times in all, although the status already allows a new request.
NoKeys(e) ==
  \/ WorkerStarts(e, "gen_files", "no_keys", "INPUTS_GENERATION_NO_KEYS")
  \/ WorkerStarts(e, "no_keys", "no_keys_2", "INPUTS_GENERATION_NO_KEYS")
  \/ WorkerStarts(e, "no_keys_2", "no_keys_3", "INPUTS_GENERATION_NO_KEYS")

\* Steps of the canvas that leave the analysis row alone.
NextStage(e, s) ==
  CASE s = "gen_files" -> "record_inputs"
    [] s = "gen_cleanup" -> IF req[e].op = "generate_and_run" THEN "loss_params" ELSE "done"
    [] s = "loss_work" -> "record_losses"
    [] s = "loss_cleanup" -> "done"

WorkerStep(e) ==
  /\ stage[e] \in {"gen_files", "gen_cleanup", "loss_work", "loss_cleanup"}
  /\ Calm
  /\ stage' = [stage EXCEPT ![e] = NextStage(e, stage[e])]
  /\ UNCHANGED <<row, req, recObj, msgs, owner, earned>>

\* The kernel reports its progress while losses are worked out.
ReportProgress(e) ==
  /\ stage[e] = "loss_work"
  /\ Calm /\ Room
  /\ msgs' = msgs \cup {Send("event_progress", e, "NEW")}
  /\ UNCHANGED <<row, req, stage, recObj, owner, earned>>

\* record_input_files / record_losses_files: Analysis.objects.get() ...
RecordRead(e) ==
  /\ stage[e] \in {"record_inputs", "record_losses"}
  /\ Calm
  /\ stage' = [stage EXCEPT ![e] = IF @ = "record_inputs" THEN "save_inputs" ELSE "save_losses"]
  /\ recObj' = [recObj EXCEPT ![e] = row]
  /\ UNCHANGED <<row, req, msgs, owner, earned>>

\* ... and, after the files have been stored, analysis.save().
\* Mutant: the input file column is forgotten.
InputsRecordedNoFile(e, obj) == [obj EXCEPT !.status = "READY"]

InputsRecorded(e, obj) == [obj EXCEPT !.status = "READY", !.input = e]
LossesRecorded(e, obj) == [obj EXCEPT !.status = "RUN_COMPLETED", !.output = e]

RecordInputFiles(e) ==
  /\ stage[e] = "save_inputs"
  /\ row' = InputsRecorded(e, recObj[e])
  /\ stage' = [stage EXCEPT ![e] = "gen_cleanup"]
  /\ recObj' = [recObj EXCEPT ![e] = NewRow]
  /\ earned' = earned \cup {"READY"}
  /\ UNCHANGED <<req, msgs, owner>>

RecordLossesFiles(e) ==
  /\ stage[e] = "save_losses"
  /\ row' = LossesRecorded(e, recObj[e])
  /\ stage' = [stage EXCEPT ![e] = "loss_cleanup"]
  /\ recObj' = [recObj EXCEPT ![e] = NewRow]
  /\ earned' = earned \cup {"RUN_COMPLETED"}
  /\ UNCHANGED <<req, msgs, owner>>

\* The failure_status of the errback a stage carries.
FailureStatus(e) ==
  IF stage[e] \in LossStage \/ (stage[e] = "start" /\ req[e].op = "run")
  THEN "RUN_ERROR" ELSE "INPUTS_GENERATION_ERROR"

\* The task_failure signal of the worker: files of the failed step, if it was
\* one of those whose directory is kept for debugging.
ErrorFiles(e) ==
  CASE stage[e] = "gen_files" -> {{}, {Send("record_input_error_files", e, "NEW")}}
    [] stage[e] \in {"no_keys", "no_keys_2", "no_keys_3"} -> {{Send("record_input_error_files", e, "NEW")}}
    [] stage[e] = "loss_work" -> {{}, {Send("record_losses_error_files", e, "NEW")}}
    [] OTHER -> {{}}

\* A sub-task fails for good (its own retries used up).
FailStage(e) ==
  /\ stage[e] \in ActiveStage
  /\ Calm /\ Room
  /\ \E files \in ErrorFiles(e) :
       msgs' = msgs \cup files \cup {Send("handle_task_failure", e, FailureStatus(e))}
  /\ stage' = [stage EXCEPT ![e] = "failed"]
  /\ earned' = earned \cup {FailureStatus(e)}
  /\ UNCHANGED <<row, req, recObj, owner>>

-----------------------------------------------------------------------------
(* Tasks of the worker monitor, and the progress consumer.                 *)

\* The task fetches the row: Analysis.objects.get(pk=...).
ReadRow(m) ==
  /\ m.pc = "queued"
  /\ m.task \in {"set_task_status", "handle_task_failure", "event_progress"}
  /\ msgs' = (msgs \ {m}) \cup {[m EXCEPT !.pc = "read", !.obj = row]}
  /\ UNCHANGED <<row, req, stage, recObj, owner, earned>>

\* Mutant: a cancelled analysis is not spared.
SetTaskStatusUnchecked(m) ==
  /\ m.task = "set_task_status"
  /\ m.pc = "read"
  /\ row' = [row EXCEPT !.status = m.arg]
  /\ msgs' = msgs \ {m}
  /\ UNCHANGED <<req, stage, recObj, owner, earned>>

\* set_task_status: a cancelled analysis keeps its status; saves one column.  An
\* exception would be logged and the message lost; it is taken not to happen.
SetTaskStatus(m) ==
  /\ m.task = "set_task_status"
  /\ m.pc = "read"
  /\ row' = IF m.obj.status \in Cancelled THEN row ELSE [row EXCEPT !.status = m.arg]
  /\ msgs' = msgs \ {m}
  /\ UNCHANGED <<req, stage, recObj, owner, earned>>

\* Mutant: one retry too many.
RetryTaskFailureOnce(m) ==
  /\ m.task = "handle_task_failure"
  /\ m.pc = "read"
  /\ m.retries <= MaxRetries
  /\ msgs' = (msgs \ {m}) \cup
             {[m EXCEPT !.pc = "queued", !.obj = NewRow, !.retries = @ + 1]}
  /\ UNCHANGED <<row, req, stage, recObj, owner, earned>>

\* handle_task_failure: the failed sub-tasks' logs have not arrived yet.
RetryTaskFailure(m) ==
  /\ m.task = "handle_task_failure"
  /\ m.pc = "read"
  /\ m.retries < MaxRetries
  /\ msgs' = (msgs \ {m}) \cup
             {[m EXCEPT !.pc = "queued", !.obj = NewRow, !.retries = @ + 1]}
  /\ UNCHANGED <<row, req, stage, recObj, owner, earned>>

\* Mutants: every failure is a failed run; only started work can fail.
FailedRun(obj, failure_status) ==
  IF obj.status \in Cancelled \cup {"INPUTS_GENERATION_NO_KEYS"} THEN obj
  ELSE [obj EXCEPT !.status = "RUN_ERROR"]
FailedStarted(obj, failure_status) ==
  IF obj.status \in {"INPUTS_GENERATION_STARTED", "RUN_STARTED"}
  THEN [obj EXCEPT !.status = failure_status] ELSE obj

Failed(obj, failure_status) ==
  IF obj.status \in Cancelled \cup {"INPUTS_GENERATION_NO_KEYS"} THEN obj
  ELSE [obj EXCEPT !.status = failure_status]

\* The tail of handle_task_failure.  Its try block logs any exception (a traceback
\* file that cannot be stored) and then leaves the row as it is, started for ever;
\* this too is taken not to happen.
HandleTaskFailure(m) ==
  /\ m.task = "handle_task_failure"
  /\ m.pc = "read"
  /\ row' = Failed(m.obj, m.arg)
  /\ msgs' = msgs \ {m}
  /\ UNCHANGED <<req, stage, recObj, owner, earned>>

\* AnalysisStatusConsumer.handle_content: a full save of the object it read.
HandleContent(m) ==
  /\ m.task = "event_progress"
  /\ m.pc = "read"
  /\ row' = m.obj
  /\ msgs' = msgs \ {m}
  /\ UNCHANGED <<req, stage, recObj, owner, earned>>

\* Mutant: the files of a failed loss step go to the column of the inputs.
RecordErrorFilesAsInput(m) ==
  /\ m.task \in {"record_input_error_files", "record_losses_error_files"}
  /\ row' = [row EXCEPT !.input = m.by]
  /\ msgs' = msgs \ {m}
  /\ UNCHANGED <<req, stage, recObj, owner, earned>>

\* The directory of a failed step is stored; only the file column is saved.
RecordErrorFiles(m) ==
  /\ m.task \in {"record_input_error_files", "record_losses_error_files"}
  /\ row' = IF m.task = "record_input_error_files"
            THEN [row EXCEPT !.input = m.by] ELSE [row EXCEPT !.output = m.by]
  /\ msgs' = msgs \ {m}
  /\ UNCHANGED <<req, stage, recObj, owner, earned>>

\* The tail of a start_* task: save(update_fields=[... task ids ...]).  For an input
\* generation the list names run_task_id too, and writes back what was read.
RecordChainId(m) ==
  /\ m.task = "record_chain_id"
  /\ row' = CASE req[m.by].op = "run" -> [row EXCEPT !.run_task = m.by]
              [] req[m.by].op = "generate_inputs" ->
                   [row EXCEPT !.gen_task = m.by, !.run_task = m.obj.run_task]
              [] OTHER -> [row EXCEPT !.gen_task = m.by, !.run_task = m.by]
  /\ msgs' = msgs \ {m}
  /\ UNCHANGED <<req, stage, recObj, owner, earned>>

\* cancel_subtasks: revokes the unfinished sub-tasks whose rows are stored, so
\* the canvas that owns the rows, unless its task ids are not known yet.  A
\* worker that drops a revoked sub-task asks for cancel_subtasks once more.
CancelSubtasks(m) ==
  /\ m.task = "cancel_subtasks"
  /\ \/ stage' = stage /\ msgs' = msgs \ {m}
     \/ /\ owner \in Request
        /\ stage[owner] \in GenStage \cup LossStage
        /\ stage' = [stage EXCEPT ![owner] = "revoked"]
        /\ msgs' = (msgs \ {m}) \cup {Send("cancel_subtasks", owner, "NEW")}
  /\ UNCHANGED <<row, req, recObj, owner, earned>>

-----------------------------------------------------------------------------
Handler(r) ==
  \/ SaveQueued(r) \/ Dispatch(r) \/ RecordDispatch(r) \/ RejectStart(r)
  \/ SendCancelSubtasks(r) \/ CancelSave(r) \/ RejectCancel(r)

Canvas(e) ==
  \/ StartChain(e) \/ GenParams(e) \/ LossParams(e) \/ NoKeys(e)
  \/ WorkerStep(e) \/ RecordRead(e) \/ RecordInputFiles(e)
  \/ RecordLossesFiles(e) \/ FailStage(e)

Monitor(m) ==
  \/ ReadRow(m) \/ SetTaskStatus(m) \/ RetryTaskFailure(m)
  \/ HandleTaskFailure(m) \/ HandleContent(m) \/ RecordErrorFiles(m)
  \/ RecordChainId(m) \/ CancelSubtasks(m)

Next ==
  \/ \E r \in Request, op \in Ops : BeginRequest(r, op)
  \/ \E r \in Request : Handler(r) \/ Canvas(r) \/ ReportProgress(r)
  \/ \E m \in msgs : Monitor(m)

\* Handlers, workers and the monitor keep going; clients need not ask, and the
\* kernel need not report progress.  A canvas is strongly fair because workers do
\* not wait for the monitor: Calm and Room only order its steps after the
\* messages that are on their way.
Fairness ==
  /\ \A r \in Request : WF_vars(Handler(r)) /\ SF_vars(Canvas(r))
  /\ WF_vars(\E m \in msgs : Monitor(m))

Spec     == Init /\ [][Next]_vars
FairSpec == Spec /\ Fairness
-----------------------------------------------------------------------------
(* Properties.                                                             *)

\* Types of the state variables.
TypeOK ==
  /\ row \in Row
  /\ req \in [Request -> [op : StartOp \cup CancelOp,
                          pc : {"idle", "begun", "saved", "dispatched", "cancelling", "done"},
                          obj : Row]]
  /\ stage \in [Request -> Stage]
  /\ recObj \in [Request -> Row]
  /\ msgs \subseteq Msg
  /\ owner \in Request \cup {NoKey}
  /\ earned \subseteq Status

\* The files a status promises to the user (READY: inputs, RUN_COMPLETED: output).
FilesBack(r) ==
  /\ r.status = "READY" => r.input # NoKey
  /\ r.status = "RUN_COMPLETED" => r.output # NoKey

\* An analysis shown as READY has an input file, and one shown as
\* RUN_COMPLETED has an output file, although the status column and the file
\* columns are written by different tasks, some with stale full saves and some
\* with update_fields (record_input_files, set_task_status, cancel_*, ...).
StatusHasFiles == FilesBack(row)

\* No status out of thin air: the stored status is one whose cause has really
\* happened - a chain failed before RUN_ERROR or INPUTS_GENERATION_ERROR shows,
\* a client cancelled before *_CANCELLED does, a recorder finished before READY
\* - whatever stale object a handler, the monitor or the consumer saves back.
StatusEarned == row.status \in earned

\* Whose work may be stored in a file column: the canvas has passed the point
\* where its recorder, or its error-file task, stores it.
InputStored  == {"gen_cleanup", "done", "failed", "revoked"} \cup LossStage
OutputStored == {"loss_cleanup", "done", "failed", "revoked"}

MayOwnInput(e) ==
  \/ e \in {NoKey, Prior}
  \/ req[e].op # "run" /\ stage[e] \in InputStored
MayOwnOutput(e) ==
  \/ e \in {NoKey, Prior}
  \/ req[e].op # "generate_inputs" /\ stage[e] \in OutputStored

\* The file columns never point at the work of an execution that has not
\* stored any yet, nor at that of the wrong kind of execution (inputs made by a
\* run, losses made by an input generation).
FilesHaveProducers == MayOwnInput(row.input) /\ MayOwnOutput(row.output)

\* With the timing the design counts on, no analysis stays queued or started
\* for ever: it ends READY, completed, cancelled or in error, whatever sub-task
\* fails, is revoked or is cancelled on the way.  That the monitor's own tasks do not
\* fail is assumed: handle_task_failure and set_task_status only log what they raise.
Settles == row.status \in InputsActive \cup RunActive
             ~> row.status \notin InputsActive \cup RunActive

\* A cancel request that is refused leaves the analysis alone: work is revoked
\* only when some cancellation was accepted (cancel_analysis_run, for one,
\* requires RUN_QUEUED or RUN_STARTED).
RevokedOnlyIfCancelled ==
  (\E e \in Request : stage[e] = "revoked") => earned \cap Cancelled # {}

-----------------------------------------------------------------------------
(* The analysis as its clients know it.                                    *)

\* The work of request e goes on: it is queued but not sent, its canvas goes on,
\* or messages of it are unhandled.
AtWork(e) ==
  /\ req[e].op \in StartOp
  /\ \/ req[e].pc \in {"saved", "dispatched"}
     \/ stage[e] \in ActiveStage
     \/ \E m \in msgs : m.by = e

\* A cancellation that has been accepted and not been saved yet.
CancelPending == \E r \in Request : req[r].pc = "cancelling" /\ CancelValid(req[r].op, req[r].obj)

\* What clients take for work under way: if the last work was revoked, it counts
\* until the cancellation that revoked it is saved.
UnderWay(e) ==
  \/ AtWork(e)
  \/ /\ e = owner /\ stage[e] = "revoked"
     /\ CancelPending
     /\ \A q \in Request : ~AtWork(q)

KindsOf(op) == CASE op = "run" -> {"run"}
                 [] op = "generate_inputs" -> {"inputs"}
                 [] OTHER -> {"inputs", "run"}

Workflow == INSTANCE AnalysisWorkflow WITH
  Exec     <- Request,
  Shielded <- TRUE,
  status   <- row.status,
  files    <- {f \in {"input", "output"} : row[f] # NoKey},
  busy     <- [e \in Request |-> IF UnderWay(e) THEN KindsOf(req[e].op) ELSE {}]

\* Run mode V2 implements AnalysisWorkflow when requests and messages do not
\* overlap: only an execution under way changes the status, within its kind of
\* work, a cancellation is not undone by a late start or failure message, and no
\* queued or started status is left behind by the last execution, be it failed,
\* revoked, retried or out of keys.
FollowsWorkflow == Workflow!WSpec

-----------------------------------------------------------------------------
(* The inductive invariant behind the safety properties: what holds of the *)
(* row holds of every copy of it that may still be saved back.             *)

SnapshotOK(r) ==
  /\ r.status \in earned
  /\ FilesBack(r)
  /\ MayOwnInput(r.input)
  /\ MayOwnOutput(r.output)

\* A canvas belongs to a request that dispatched it, and does its kind of work.
CanvasOK(e) ==
  /\ stage[e] # "none" => req[e].pc \in {"dispatched", "done"} /\ req[e].op \in StartOp
  /\ req[e].pc = "saved" => stage[e] = "none" /\ req[e].op \in StartOp
  /\ stage[e] \in GenStage => req[e].op # "run"
  /\ stage[e] \in LossStage => req[e].op # "generate_inputs"

MsgOK(m) ==
  /\ SnapshotOK(m.obj)
  /\ m.arg \in earned
  /\ m.arg \notin {"READY", "RUN_COMPLETED"}
  /\ m.task = "record_input_error_files" => stage[m.by] = "failed" /\ req[m.by].op # "run"
  /\ m.task = "record_losses_error_files" =>
       stage[m.by] = "failed" /\ req[m.by].op # "generate_inputs"

\* Types, and the facts above for the row, every request, every canvas and
\* every message: preserved by each step of the system.
IInv ==
  /\ TypeOK
  /\ "NEW" \in earned
  /\ SnapshotOK(row)
  /\ \A r \in Request : SnapshotOK(req[r].obj) /\ SnapshotOK(recObj[r]) /\ CanvasOK(r)
  /\ \A m \in msgs : MsgOK(m)
=============================================================================
