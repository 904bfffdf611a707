---------------------------- MODULE V1Execution ----------------------------
(***************************************************************************)
(* The life of one Analysis row in run mode V1: one celery task does all   *)
(* of an input generation or of a run, on one worker.                      *)
(*                                                                         *)
(* The task is acknowledged when it has ended (acks_late), so a container  *)
(* that dies hands its message back to the broker.  OasisWorkerTask does   *)
(* not run a redelivered message: it publishes a retry instead, which      *)
(* counts against max_retries.  Exceptions of the task are retried as well *)
(* (autoretry_for), and a message may be handled twice when its container  *)
(* dies between the answer and the acknowledgement.  The server's monitor  *)
(* stores status messages without a look at the row, and records results   *)
(* and failures with full saves of the row it read.                        *)
(***************************************************************************)
EXTENDS AnalysisRow, Naturals, FiniteSets

CONSTANTS
  MaxRequests,  \* bound: how many API requests are made
  Ops,          \* the operations the clients use
  MaxRetries,   \* max_retries of the worker's tasks (2 in the code)
  MaxFaults,    \* bound: how often a container dies
  Prior,        \* stands for the execution that made an already READY row
  Prompt        \* TRUE: requests do not overlap, and every message is handled
                \* before the next request or worker step (as designed)

\* Requests are numbered in the order in which they come in.
Request == 1..MaxRequests

V1Ops == (StartOp \ {"generate_and_run"}) \cup CancelOp

ASSUME V1Assumption ==
  /\ Ops \subseteq V1Ops
  /\ MaxRequests \in Nat
  /\ MaxRetries \in Nat
  /\ MaxFaults \in Nat
  /\ NoKey \notin Request
  /\ Prior \notin Request
  /\ Prior # NoKey
  /\ Prompt \in BOOLEAN

VARIABLES
  row,      \* the row of the analyses table
  req,      \* each API request: its operation, where it is, its object
  jobs,     \* the messages of the model's queue, those being worked on included
  known,    \* task ids the workers know to be revoked
  msgs,     \* tasks sent to the worker monitor and not finished
  runs,     \* history: how often the work of a request was begun
  faults    \* containers that died at work, and those that died with a retry
            \* published and not acknowledged

vars == <<row, req, jobs, known, msgs, runs, faults>>

-----------------------------------------------------------------------------
(* The shape of the state.                                                 *)

File == Request \cup {Prior, NoKey}

Row == [status : Status, run_mode : {"V1", "null"}, input : File,
        output : File, gen_task : Request \cup {NoKey},
        run_task : Request \cup {NoKey}]

ReadyRow == [NewRow EXCEPT !.status = "READY", !.input = Prior]

\* copy tells messages apart that a lost acknowledgement has doubled.
Job == [id : Request, retries : 0..MaxRetries, redelivered : BOOLEAN,
        at : {"queued", "running", "no_keys"}, copy : 0..MaxFaults]

Task == {"set_task_status", "record_result", "record_failure"}

Msg == [task : Task, by : Request, arg : Status, ok : BOOLEAN,
        pc : {"queued", "read", "cleared"}, obj : Row]

Send(task, r, arg, ok) ==
  [task |-> task, by |-> r, arg |-> arg, ok |-> ok, pc |-> "queued", obj |-> NewRow]

\* The environment restriction named by Prompt.
Calm == Prompt => /\ msgs = {}
                  /\ \A r \in Request : req[r].pc \in {"idle", "done"}

\* The bound on deaths of containers.
MayDie == faults.died + faults.lost < MaxFaults

Init ==
  /\ row \in {NewRow, ReadyRow}
  /\ req = [r \in Request |-> [op |-> "run", pc |-> "idle", obj |-> NewRow]]
  /\ jobs = {}
  /\ known = {}
  /\ msgs = {}
  /\ runs = [r \in Request |-> 0]
  /\ faults = [died |-> 0, lost |-> 0]

-----------------------------------------------------------------------------
(* API handlers.                                                           *)

Finish(r) == [req EXCEPT ![r].pc = "done", ![r].obj = NewRow]

BeginRequest(r, op) ==
  /\ req[r].pc = "idle"
  /\ \A q \in 1..(r - 1) : req[q].pc # "idle"
  /\ Calm
  /\ req' = [req EXCEPT ![r] = [op |-> op, pc |-> "begun", obj |-> row]]
  /\ UNCHANGED <<row, jobs, known, msgs, runs, faults>>

SaveQueued(r) ==
  LET obj == ResetFor(req[r].op, req[r].obj) IN
  /\ req[r].pc = "begun"
  /\ req[r].op \in StartOp
  /\ StartValid(req[r].op, req[r].obj)
  /\ row' = obj
  /\ req' = [req EXCEPT ![r].pc = "saved", ![r].obj = obj]
  /\ UNCHANGED <<jobs, known, msgs, runs, faults>>

\* _dispatch_v1: the task goes to the queue of the model.
Dispatch(r) ==
  /\ req[r].pc = "saved"
  /\ jobs' = jobs \cup {[id |-> r, retries |-> 0, redelivered |-> FALSE,
                         at |-> "queued", copy |-> 0]}
  /\ req' = [req EXCEPT ![r].pc = "dispatched", ![r].obj.run_mode = "V1"]
  /\ UNCHANGED <<row, known, msgs, runs, faults>>

RecordDispatch(r) ==
  /\ req[r].pc = "dispatched"
  /\ row' = IF req[r].op = "run" THEN [req[r].obj EXCEPT !.run_task = r]
                                 ELSE [req[r].obj EXCEPT !.gen_task = r]
  /\ req' = Finish(r)
  /\ UNCHANGED <<jobs, known, msgs, runs, faults>>

\* cancel_generate_inputs() / cancel_analysis(): the revocation is broadcast; it
\* ends what runs, and the workers remember the id, unless it reaches none.
CancelSave(r) ==
  LET obj == req[r].obj
      t   == TaskToRevoke(obj) IN
  /\ req[r].pc = "begun"
  /\ req[r].op \in CancelOp
  /\ CancelValid(req[r].op, obj)
  /\ row' = [obj EXCEPT !.status = CancelledStatus(obj), !.run_mode = "null"]
  /\ \/ UNCHANGED <<jobs, known>>
     \/ /\ t \in Request
        /\ jobs' = {j \in jobs : j.id = t => j.at = "queued"}
        /\ known' = known \cup {t}
  /\ req' = Finish(r)
  /\ UNCHANGED <<msgs, runs, faults>>

\* A validation error: nothing is stored.
Reject(r) ==
  /\ req[r].pc = "begun"
  /\ ~ IF req[r].op \in StartOp THEN StartValid(req[r].op, req[r].obj)
                                ELSE CancelValid(req[r].op, req[r].obj)
  /\ req' = Finish(r)
  /\ UNCHANGED <<row, jobs, known, msgs, runs, faults>>

-----------------------------------------------------------------------------
(* The worker.                                                             *)

OpOf(j) == req[j.id].op

\* Mutant: the count stays.
RetryUncounted(j) == [j EXCEPT !.redelivered = FALSE, !.at = "queued"]

\* celery publishes the message anew, with one more retry on its count.
Retry(j) == [j EXCEPT !.retries = @ + 1, !.redelivered = FALSE, !.at = "queued"]

\* on_error: the errback has the failure recorded.
Failure(j) == Send("record_failure", j.id, "NEW", FALSE)

\* A message of a revoked task is thrown away.
DropRevoked(j) ==
  /\ j.at = "queued"
  /\ j.id \in known
  /\ Calm
  /\ jobs' = jobs \ {j}
  /\ UNCHANGED <<row, req, known, msgs, runs, faults>>

\* Mutant: one retry too many.
GiveUpOrRetryOnce(j) ==
  \/ /\ j.retries <= MaxRetries
     /\ jobs' = (jobs \ {j}) \cup {Retry(j)}
     /\ msgs' = msgs
  \/ /\ j.retries > MaxRetries
     /\ jobs' = jobs \ {j}
     /\ msgs' = msgs \cup {Failure(j)}

\* The task ends with an exception: it is published again or, when its retries
\* are used up, has failed.
GiveUpOrRetry(j) ==
  \/ /\ j.retries < MaxRetries
     /\ jobs' = (jobs \ {j}) \cup {Retry(j)}
     /\ msgs' = msgs
  \/ /\ j.retries >= MaxRetries
     /\ jobs' = jobs \ {j}
     /\ msgs' = msgs \cup {Failure(j)}

\* Mutant: a redelivered message that has no retries left is dropped.
GuardSilent(j) ==
  /\ j.at = "queued" /\ j.redelivered /\ j.id \notin known
  /\ Calm
  /\ jobs' = (jobs \ {j}) \cup (IF j.retries < MaxRetries THEN {Retry(j)} ELSE {})
  /\ UNCHANGED <<row, req, known, msgs, runs, faults>>

\* task_redelivered_guard: a retry takes the place of a redelivered message.  The
\* last one fails with the WorkerLostError that the guard gave to retry().
Guard(j) ==
  /\ j.at = "queued" /\ j.redelivered /\ j.id \notin known
  /\ Calm
  /\ GiveUpOrRetry(j)
  /\ UNCHANGED <<row, req, known, runs, faults>>

\* The attempt at a message ends by exception: in the guard, or at work.
Ending(j) ==
  \/ j.at = "queued" /\ j.redelivered /\ j.id \notin known
  \/ j.at \in {"running", "no_keys"}

\* The broker hands out again what was not acknowledged.
HandedBack(j) == [j EXCEPT !.at = "queued", !.redelivered = TRUE]

\* The container dies with the retry published and the message not acknowledged.
RetryDies(j) ==
  /\ Ending(j)
  /\ Calm /\ MayDie
  /\ j.retries < MaxRetries
  /\ faults' = [faults EXCEPT !.lost = @ + 1]
  /\ jobs' = (jobs \ {j}) \cup {Retry(j), [HandedBack(j) EXCEPT !.copy = faults.lost + 1]}
  /\ UNCHANGED <<row, req, known, msgs, runs>>

\* The same with the failure published: the guard's last, one of the work that has
\* no retry left, or that of a killed process.
FailureDies(j) ==
  /\ Ending(j)
  /\ Calm /\ MayDie
  /\ j.at = "queued" => j.retries >= MaxRetries
  /\ faults' = [faults EXCEPT !.died = @ + 1]
  /\ msgs' = msgs \cup {Failure(j)}
  /\ jobs' = (jobs \ {j}) \cup {HandedBack(j)}
  /\ UNCHANGED <<row, req, known, runs>>

\* The body of start_analysis_task or generate_input begins.
StartWork(j) ==
  /\ j.at = "queued" /\ ~j.redelivered /\ j.id \notin known
  /\ Calm
  /\ jobs' = (jobs \ {j}) \cup {[j EXCEPT !.at = "running"]}
  /\ msgs' = msgs \cup {Send("set_task_status", j.id,
       IF OpOf(j) = "run" THEN "RUN_STARTED" ELSE "INPUTS_GENERATION_STARTED", FALSE)}
  /\ runs' = [runs EXCEPT ![j.id] = @ + 1]
  /\ UNCHANGED <<row, req, known, faults>>

\* OasisExceptionNoKeys: the API is told before the result.
NoKeys(j) ==
  /\ j.at = "running"
  /\ OpOf(j) = "generate_inputs"
  /\ Calm
  /\ jobs' = (jobs \ {j}) \cup {[j EXCEPT !.at = "no_keys"]}
  /\ msgs' = msgs \cup {Send("set_task_status", j.id, "INPUTS_GENERATION_NO_KEYS", FALSE)}
  /\ UNCHANGED <<row, req, known, runs, faults>>

\* The work returns: the success callback is sent, with the return code, and the
\* message is acknowledged - or not, when the container dies in between.
Return(j, ok) ==
  /\ j.at \in {"running", "no_keys"}
  /\ j.at = "no_keys" => ~ok
  /\ Calm
  /\ msgs' = msgs \cup {Send("record_result", j.id, "NEW", ok)}
  /\ \/ jobs' = jobs \ {j} /\ faults' = faults
     \/ /\ MayDie
        /\ faults' = [faults EXCEPT !.died = @ + 1]
        /\ jobs' = (jobs \ {j}) \cup {HandedBack(j)}
  /\ UNCHANGED <<row, req, known, runs>>

\* The work raises an exception (a file that cannot be fetched, ...).
Raise(j) ==
  /\ j.at \in {"running", "no_keys"}
  /\ Calm
  /\ GiveUpOrRetry(j)
  /\ UNCHANGED <<row, req, known, runs, faults>>

\* The process that does the work is killed, the worker is not: a failure.
ChildDies(j) ==
  /\ j.at \in {"running", "no_keys"}
  /\ Calm
  /\ jobs' = jobs \ {j}
  /\ msgs' = msgs \cup {Failure(j)}
  /\ UNCHANGED <<row, req, known, runs, faults>>

\* The whole container dies.  The revoked ids go with the last worker; others
\* pass them on to the worker that takes its place.
ContainerDies(j) ==
  /\ j.at \in {"running", "no_keys"}
  /\ MayDie
  /\ jobs' = (jobs \ {j}) \cup {HandedBack(j)}
  /\ known' \in IF \E k \in jobs \ {j} : k.at # "queued" THEN {known} ELSE {known, {}}
  /\ faults' = [faults EXCEPT !.died = @ + 1]
  /\ UNCHANGED <<row, req, msgs, runs>>

-----------------------------------------------------------------------------
(* The worker monitor.                                                     *)

\* set_task_status: the column is written, whatever it holds.
SetTaskStatus(m) ==
  /\ m.task = "set_task_status"
  /\ row' = [row EXCEPT !.status = m.arg]
  /\ msgs' = msgs \ {m}
  /\ UNCHANGED <<req, jobs, known, runs, faults>>

ReadRow(m) ==
  /\ m.task \in {"record_result", "record_failure"}
  /\ m.pc = "queued"
  /\ msgs' = (msgs \ {m}) \cup {[m EXCEPT !.pc = "read", !.obj = row]}
  /\ UNCHANGED <<row, req, jobs, known, runs, faults>>

\* The files of the work before this one.
Cleared(op, obj) == IF op = "run" THEN [obj EXCEPT !.output = NoKey]
                    ELSE [obj EXCEPT !.output = NoKey, !.input = NoKey]

\* delete_prev_output: only the file columns are saved.
ClearPrevious(m) ==
  /\ m.task = "record_result"
  /\ m.pc = "read"
  /\ row' = Cleared(req[m.by].op, row)
  /\ msgs' = (msgs \ {m}) \cup
             {[m EXCEPT !.pc = "cleared", !.obj = Cleared(req[m.by].op, @)]}
  /\ UNCHANGED <<req, jobs, known, runs, faults>>

ErrorStatus(op) == IF op = "run" THEN "RUN_ERROR" ELSE "INPUTS_GENERATION_ERROR"

\* Mutant: a run without losses leaves its status.
RunRecordedAsIs(e, ok, obj) ==
  [obj EXCEPT !.status = IF ok THEN "RUN_COMPLETED" ELSE @, !.output = e]

\* record_run_analysis_result: an output file only for a run that succeeded.
RunRecorded(e, ok, obj) ==
  [obj EXCEPT !.status = IF ok THEN "RUN_COMPLETED" ELSE "RUN_ERROR",
              !.output = IF ok THEN e ELSE NoKey]

\* record_generate_input_result: NO_KEYS stays; the directory is always stored.
InputsRecorded(e, ok, obj) ==
  [obj EXCEPT !.status = IF ok THEN "READY"
                         ELSE IF @ = "INPUTS_GENERATION_NO_KEYS" THEN @
                         ELSE "INPUTS_GENERATION_ERROR",
              !.input = e]

RecordResult(m) ==
  /\ m.task = "record_result"
  /\ m.pc = "cleared"
  /\ row' = IF req[m.by].op = "run" THEN RunRecorded(m.by, m.ok, m.obj)
                                    ELSE InputsRecorded(m.by, m.ok, m.obj)
  /\ msgs' = msgs \ {m}
  /\ UNCHANGED <<req, jobs, known, runs, faults>>

\* A recorder that fails, say for want of a file, has on_failure of LogTaskError
\* read the row again and store an error status, as the failure recorders do.
RecorderFails(m) ==
  /\ m.task = "record_result"
  /\ m.pc = "cleared"
  /\ msgs' = (msgs \ {m}) \cup {Send("record_failure", m.by, "NEW", FALSE)}
  /\ UNCHANGED <<row, req, jobs, known, runs, faults>>

\* record_run_analysis_failure / record_generate_input_failure.  What they raise
\* themselves is only logged, and is taken not to happen.
RecordFailure(m) ==
  /\ m.task = "record_failure"
  /\ m.pc = "read"
  /\ row' = [m.obj EXCEPT !.status = ErrorStatus(req[m.by].op)]
  /\ msgs' = msgs \ {m}
  /\ UNCHANGED <<req, jobs, known, runs, faults>>

-----------------------------------------------------------------------------
Handler(r) ==
  SaveQueued(r) \/ Dispatch(r) \/ RecordDispatch(r) \/ CancelSave(r) \/ Reject(r)

Work(j) ==
  \/ DropRevoked(j) \/ Guard(j) \/ RetryDies(j) \/ FailureDies(j) \/ StartWork(j) \/ NoKeys(j)
  \/ Return(j, TRUE) \/ Return(j, FALSE) \/ Raise(j) \/ ChildDies(j)

Monitor(m) ==
  \/ SetTaskStatus(m) \/ ReadRow(m) \/ ClearPrevious(m) \/ RecordResult(m)
  \/ RecorderFails(m) \/ RecordFailure(m)

Next ==
  \/ \E r \in Request, op \in Ops : BeginRequest(r, op)
  \/ \E r \in Request : Handler(r)
  \/ \E j \in jobs : Work(j) \/ ContainerDies(j)
  \/ \E m \in msgs : Monitor(m)

\* Handlers, workers and the monitor keep going; clients need not ask, and no
\* container has to die.  Workers do not wait for the monitor: Calm only orders
\* their steps after the messages that are on their way.
Fairness ==
  /\ \A r \in Request : WF_vars(Handler(r))
  /\ SF_vars(\E j \in jobs : Work(j))
  /\ WF_vars(\E m \in msgs : Monitor(m))

Spec     == Init /\ [][Next]_vars
FairSpec == Spec /\ Fairness
-----------------------------------------------------------------------------
(* Properties.                                                             *)

TypeOK ==
  /\ row \in Row
  /\ req \in [Request -> [op : V1Ops, pc : {"idle", "begun", "saved", "dispatched", "done"},
                          obj : Row]]
  /\ jobs \subseteq Job
  /\ known \subseteq Request
  /\ msgs \subseteq Msg
  /\ runs \in [Request -> Nat]
  /\ faults \in [died : 0..MaxFaults, lost : 0..MaxFaults]

\* "The task will be run max_retries + 1 times" (celeryconf_v1.py), however its
\* runs end and however often containers die under it: redelivered messages cost
\* a retry and are not run as they are.  Only a container that dies with a retry
\* published and its own message not acknowledged doubles the message, and the
\* double has fewer retries left.
RunsBounded ==
  \A r \in Request : runs[r] <= MaxRetries + 1 + faults.lost * MaxRetries

\* No analysis stays queued or started for ever, whatever fails (but the failure
\* recorders themselves), raises, dies, is redelivered or doubled, and also if a
\* revocation is forgotten and the cancelled work starts again, its status message
\* overwriting the cancellation.
Settles == row.status \in InputsActive \cup RunActive
             ~> row.status \notin InputsActive \cup RunActive

-----------------------------------------------------------------------------
(* The analysis as its clients know it.                                    *)

UnderWay(e) ==
  /\ req[e].op \in StartOp
  /\ \/ req[e].pc \in {"saved", "dispatched"}
     \/ \E j \in jobs : j.id = e
     \/ \E m \in msgs : m.by = e

Workflow == INSTANCE AnalysisWorkflow WITH
  Exec     <- Request,
  Shielded <- FALSE,
  status   <- row.status,
  files    <- {f \in {"input", "output"} : row[f] # NoKey},
  busy     <- [e \in Request |-> IF ~UnderWay(e) THEN {}
                                 ELSE IF req[e].op = "run" THEN {"run"} ELSE {"inputs"}]

\* Run mode V1 implements AnalysisWorkflow without its shield: only work that is
\* under way changes the status, within its kind, a success comes with its file,
\* and the last message about an execution never leaves a queued or started status
\* behind - with deaths of containers, retries, doubles and revocations.
FollowsWorkflow == Workflow!WSpec
=============================================================================
