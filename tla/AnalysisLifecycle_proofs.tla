---------------------- MODULE AnalysisLifecycle_proofs ----------------------
(***************************************************************************)
(* The safety properties of AnalysisLifecycle, for any number of requests, *)
(* any queue bound and any retry limit, with or without overlapping        *)
(* requests.  All of them follow from IInv: whatever copy of the row is    *)
(* saved back, however stale, it was a consistent row when it was read,    *)
(* and everything that made it consistent is still so.                     *)
(*                                                                         *)
(* And, under Prompt, that AnalysisLifecycle implements AnalysisWorkflow.  *)
(* WInv says who can be in the middle of something at a time, that copies  *)
(* of the row are then still equal to it, what a message may be about, and *)
(* that a status that waits has somebody who will report an outcome.       *)
(***************************************************************************)
EXTENDS AnalysisLifecycle, TLAPS

USE LifecycleAssumption

-----------------------------------------------------------------------------
(* SnapshotOK and MsgOK, as they read in the next state.                   *)

OwnInputN(e) ==
  \/ e \in {NoKey, Prior}
  \/ req'[e].op # "run" /\ stage'[e] \in InputStored
OwnOutputN(e) ==
  \/ e \in {NoKey, Prior}
  \/ req'[e].op # "generate_inputs" /\ stage'[e] \in OutputStored

SnapshotN(r) ==
  /\ r.status \in earned'
  /\ FilesBack(r)
  /\ OwnInputN(r.input)
  /\ OwnOutputN(r.output)

MsgN(m) ==
  /\ SnapshotN(m.obj)
  /\ m.arg \in earned'
  /\ m.arg \notin {"READY", "RUN_COMPLETED"}
  /\ m.task = "record_input_error_files" => stage'[m.by] = "failed" /\ req'[m.by].op # "run"
  /\ m.task = "record_losses_error_files" =>
       stage'[m.by] = "failed" /\ req'[m.by].op # "generate_inputs"

\* What every step does to the canvases: an operation is fixed once its canvas
\* exists, and a canvas that may own files goes on owning them.
Forward ==
  /\ earned \subseteq earned'
  /\ \A e \in Request :
       /\ stage[e] # "none" => req'[e].op = req[e].op
       /\ stage[e] \in InputStored => stage'[e] \in InputStored
       /\ stage[e] \in OutputStored => stage'[e] \in OutputStored
       /\ stage[e] = "failed" => stage'[e] = "failed"

\* A copy that was consistent stays consistent while it waits to be saved.
LEMMA SnapshotsKeep ==
  ASSUME TypeOK, Forward
  PROVE  \A r \in Row : SnapshotOK(r) => SnapshotN(r)
<1> SUFFICES ASSUME NEW r \in Row, SnapshotOK(r) PROVE SnapshotN(r)
  OBVIOUS
<1>1. r.input \in File /\ r.output \in File
  BY DEF Row
<1>2. "none" \notin InputStored /\ "none" \notin OutputStored
  BY DEF InputStored, OutputStored, LossStage
<1>3. OwnInputN(r.input)
  BY <1>1, <1>2 DEF SnapshotOK, MayOwnInput, OwnInputN, Forward, File
<1>4. OwnOutputN(r.output)
  BY <1>1, <1>2 DEF SnapshotOK, MayOwnOutput, OwnOutputN, Forward, File
<1> QED
  BY <1>3, <1>4 DEF SnapshotOK, SnapshotN, Forward

\* Likewise for a message.
LEMMA MessagesKeep ==
  ASSUME TypeOK, Forward
  PROVE  \A m \in Msg : MsgOK(m) => MsgN(m)
<1> SUFFICES ASSUME NEW m \in Msg, MsgOK(m) PROVE MsgN(m)
  OBVIOUS
<1>1. m.obj \in Row /\ m.by \in Request
  BY DEF Msg
<1>2. SnapshotN(m.obj)
  BY <1>1, SnapshotsKeep DEF MsgOK
<1> QED
  BY <1>1, <1>2 DEF MsgOK, MsgN, Forward

\* What is left to show for one action.
LEMMA Preserve ==
  ASSUME IInv, TypeOK', Forward,
         SnapshotN(row'),
         \A r \in Request : SnapshotN(req'[r].obj) /\ SnapshotN(recObj'[r]),
         \A r \in Request : CanvasOK(r)',
         \A m \in msgs' : m \in msgs \/ MsgN(m)
  PROVE  IInv'
<1>1. SnapshotOK(row)'
  BY DEF SnapshotOK, SnapshotN, MayOwnInput, MayOwnOutput, OwnInputN, OwnOutputN
<1>2. \A r \in Request : (SnapshotOK(req[r].obj) /\ SnapshotOK(recObj[r]) /\ CanvasOK(r))'
  BY DEF SnapshotOK, SnapshotN, MayOwnInput, MayOwnOutput, OwnInputN, OwnOutputN
<1>3. \A m \in msgs' : MsgN(m)
  BY MessagesKeep DEF IInv, TypeOK
<1>4. (\A m \in msgs : MsgOK(m))'
  BY <1>3 DEF MsgOK, MsgN, SnapshotOK, SnapshotN, MayOwnInput, MayOwnOutput,
              OwnInputN, OwnOutputN
<1>5. "NEW" \in earned'
  BY DEF IInv, Forward
<1> QED
  BY <1>1, <1>2, <1>4, <1>5 DEF IInv

\* A new Analysis object is a row.
LEMMA NewRowType == NewRow \in Row
  BY DEF NewRow, Row, Status, File

\* The columns that are assigned take values of their types.
LEMMA RowUpdates ==
  ASSUME NEW r \in Row, NEW s \in Status, NEW f \in File
  PROVE  /\ [r EXCEPT !.status = s] \in Row
         /\ [r EXCEPT !.status = s, !.input = f] \in Row
         /\ [r EXCEPT !.status = s, !.output = f] \in Row
         /\ [r EXCEPT !.status = s, !.run_mode = "null"] \in Row
<1>1. r.status \in Status /\ r.input \in File /\ r.output \in File
  BY DEF Row
<1> QED
  BY <1>1 DEF Row

\* A finished request keeps its operation and holds no copy of the row.
LEMMA FinishType ==
  ASSUME TypeOK, NEW r \in Request
  PROVE  Finish(r) \in [Request -> [op : StartOp \cup CancelOp,
                              pc : {"idle", "begun", "saved", "dispatched", "cancelling", "done"},
                              obj : Row]]
<1> DEFINE done == [req[r] EXCEPT !.pc = "done", !.obj = NewRow]
<1>1. Finish(r) = [req EXCEPT ![r] = done]
  BY DEF Finish, TypeOK
<1>2. done \in [op : StartOp \cup CancelOp,
               pc : {"idle", "begun", "saved", "dispatched", "cancelling", "done"}, obj : Row]
  BY NewRowType DEF TypeOK
<1> HIDE DEF done
<1> QED
  BY <1>1, <1>2 DEF TypeOK

\* A message that has just been sent.
LEMMA SendType ==
  ASSUME NEW task \in Task, NEW r \in Request, NEW arg \in Status
  PROVE  Send(task, r, arg) \in Msg
  BY NewRowType DEF Send, Msg

\* The copies that are around before a step, after it.
LEMMA Copies ==
  ASSUME IInv, Forward
  PROVE  /\ SnapshotN(row)
         /\ \A r \in Request : SnapshotN(req[r].obj) /\ SnapshotN(recObj[r])
         /\ \A m \in msgs : SnapshotN(m.obj)
         /\ SnapshotN(NewRow)
<1>1. \A r \in Row : SnapshotOK(r) => SnapshotN(r)
  BY SnapshotsKeep DEF IInv
<1>2. NewRow \in Row
  BY NewRowType
<1>3. SnapshotOK(NewRow)
  BY DEF IInv, SnapshotOK, NewRow, FilesBack, MayOwnInput, MayOwnOutput
<1>4. \A m \in msgs : m.obj \in Row /\ SnapshotOK(m.obj)
  BY DEF IInv, TypeOK, Msg, MsgOK
<1>5. \A r \in Request : req[r].obj \in Row /\ recObj[r] \in Row
  BY DEF IInv, TypeOK
<1>6. row \in Row
  BY DEF IInv, TypeOK
<1> QED
  BY <1>1, <1>2, <1>3, <1>4, <1>5, <1>6 DEF IInv

-----------------------------------------------------------------------------
(* The API handlers.                                                       *)

\* get_object() copies a consistent row into the request.
LEMMA BeginRequestInv ==
  ASSUME IInv, NEW r \in Request, NEW op \in Ops, BeginRequest(r, op)
  PROVE  IInv'
<1>1. TypeOK'
  BY DEF IInv, TypeOK, BeginRequest, StartOp, CancelOp
<1>2. Forward
  BY DEF IInv, TypeOK, BeginRequest, Forward, CanvasOK
<1>3. \A q \in Request : SnapshotN(req'[q].obj) /\ SnapshotN(recObj'[q])
  BY <1>2, Copies DEF IInv, TypeOK, BeginRequest
<1>4. \A q \in Request : CanvasOK(q)'
  BY DEF IInv, TypeOK, BeginRequest, CanvasOK, GenStage, LossStage
<1> QED
  BY <1>1, <1>2, <1>3, <1>4, Copies, Preserve DEF BeginRequest

\* The first save() earns the queued status; the reset object has no READY or
\* RUN_COMPLETED status left that its missing files would contradict.
LEMMA SaveQueuedInv ==
  ASSUME IInv, NEW r \in Request, SaveQueued(r)
  PROVE  IInv'
<1> DEFINE obj == ResetFor(req[r].op, req[r].obj)
<1>1. obj \in Row /\ obj.status \in Status
  <2>1. req[r].obj \in Row
    BY DEF IInv, TypeOK
  <2>2. {"RUN_QUEUED", "INPUTS_GENERATION_QUEUED"} \subseteq Status /\ NoKey \in File
    BY DEF Status, File
  <2>3. obj \in Row
    BY <2>1, <2>2, RowUpdates DEF ResetFor
  <2> QED
    BY <2>3 DEF Row
<1>2. TypeOK'
  BY <1>1 DEF IInv, TypeOK, SaveQueued
<1>3. Forward
  BY DEF IInv, TypeOK, SaveQueued, Forward
<1>4. SnapshotN(obj)
  <2>1. obj.status \in earned' /\ FilesBack(obj)
    BY <1>1 DEF IInv, TypeOK, SaveQueued, ResetFor, FilesBack, Row
  <2>2. obj.output = req[r].obj.output /\ obj.input \in {NoKey, req[r].obj.input}
    BY DEF IInv, TypeOK, ResetFor, Row
  <2> QED
    BY <1>3, <2>1, <2>2, Copies DEF SnapshotN, OwnInputN, OwnOutputN
<1>5. row' = obj /\ \A q \in Request : req'[q].obj \in {obj, req[q].obj}
  BY DEF IInv, TypeOK, SaveQueued
<1>6. \A q \in Request : CanvasOK(q)'
  BY DEF IInv, TypeOK, SaveQueued, CanvasOK
<1> QED
  BY <1>2, <1>3, <1>4, <1>5, <1>6, Copies, Preserve DEF SaveQueued

\* _dispatch_v2 creates a canvas that belongs to the dispatching request.
LEMMA DispatchInv ==
  ASSUME IInv, NEW r \in Request, Dispatch(r)
  PROVE  IInv'
<1> DEFINE obj == [req[r].obj EXCEPT !.run_mode = "V2"]
<1>1. obj \in Row
  BY DEF IInv, TypeOK, Row
<1>2. TypeOK'
  <2> DEFINE new == [req[r] EXCEPT !.pc = "dispatched", !.obj = obj]
  <2>1. req' = [req EXCEPT ![r] = new]
    BY DEF IInv, TypeOK, Dispatch
  <2>2. new \in [op : StartOp \cup CancelOp,
                 pc : {"idle", "begun", "saved", "dispatched", "cancelling", "done"}, obj : Row]
    <3> HIDE DEF obj
    <3> QED
      BY <1>1 DEF IInv, TypeOK
  <2>3. stage' \in [Request -> Stage]
    BY DEF IInv, TypeOK, Dispatch, Stage
  <2>4. UNCHANGED <<row, recObj, msgs, owner, earned>>
    BY DEF Dispatch
  <2> HIDE DEF new
  <2> QED
    BY <2>1, <2>2, <2>3, <2>4 DEF IInv, TypeOK
<1>3. Forward
  BY DEF IInv, TypeOK, Dispatch, Forward, CanvasOK, InputStored, OutputStored, LossStage
<1>4. SnapshotN(obj)
  BY <1>3, Copies DEF IInv, TypeOK, Row, SnapshotN, FilesBack, OwnInputN, OwnOutputN
<1>5. \A q \in Request : req'[q].obj \in {obj, req[q].obj}
  BY DEF IInv, TypeOK, Dispatch
<1>6. \A q \in Request : CanvasOK(q)'
  BY DEF IInv, TypeOK, Dispatch, CanvasOK, GenStage, LossStage
<1> QED
  BY <1>2, <1>3, <1>4, <1>5, <1>6, Copies, Preserve DEF Dispatch

\* _record_dispatch saves an object that was consistent when it was read, and
\* still is.
LEMMA RecordDispatchInv ==
  ASSUME IInv, NEW r \in Request, RecordDispatch(r)
  PROVE  IInv'
<1> DEFINE obj == WithDispatchId(r, req[r].obj)
<1>1. obj \in Row
  BY DEF IInv, TypeOK, WithDispatchId, Row
<1>2. TypeOK'
  BY <1>1, FinishType DEF IInv, TypeOK, RecordDispatch
<1>3. Forward
  BY DEF IInv, TypeOK, RecordDispatch, Finish, Forward
<1>4. SnapshotN(obj)
  BY <1>3, Copies DEF IInv, TypeOK, Row, WithDispatchId, SnapshotN, FilesBack,
                      OwnInputN, OwnOutputN
<1>5. \A q \in Request : req'[q].obj \in {NewRow, req[q].obj}
  BY DEF IInv, TypeOK, RecordDispatch, Finish
<1>6. \A q \in Request : CanvasOK(q)'
  BY DEF IInv, TypeOK, RecordDispatch, Finish, CanvasOK
<1> QED
  BY <1>2, <1>3, <1>4, <1>5, <1>6, Copies, Preserve DEF RecordDispatch

\* A refused request changes nothing but itself.
LEMMA RejectInv ==
  ASSUME IInv, NEW r \in Request, RejectStart(r) \/ RejectCancel(r)
  PROVE  IInv'
<1>1. /\ req' = Finish(r) /\ req[r].pc \in {"begun", "cancelling"}
      /\ UNCHANGED <<row, stage, recObj, msgs, owner, earned>>
  BY DEF RejectStart, RejectCancel
<1>2. TypeOK'
  BY <1>1, FinishType DEF IInv, TypeOK
<1>3. Forward
  BY <1>1 DEF IInv, TypeOK, Finish, Forward
<1>4. \A q \in Request : req'[q].obj \in {NewRow, req[q].obj}
  BY <1>1 DEF IInv, TypeOK, Finish
<1>5. \A q \in Request : CanvasOK(q)'
  BY <1>1 DEF IInv, TypeOK, Finish, CanvasOK
<1> QED
  BY <1>1, <1>2, <1>3, <1>4, <1>5, Copies, Preserve

\* Sending cancel_subtasks leaves the row alone.
LEMMA SendCancelSubtasksInv ==
  ASSUME IInv, NEW r \in Request, SendCancelSubtasks(r)
  PROVE  IInv'
<1> DEFINE m == Send("cancel_subtasks", r, "NEW")
<1>1. m \in Msg
  BY SendType DEF Status, Task
<1>2. TypeOK'
  BY <1>1 DEF IInv, TypeOK, SendCancelSubtasks
<1>3. Forward
  BY DEF IInv, TypeOK, SendCancelSubtasks, Forward
<1>4. \A q \in Request : req'[q].obj = req[q].obj
  BY DEF IInv, TypeOK, SendCancelSubtasks
<1>5. \A q \in Request : CanvasOK(q)'
  BY DEF IInv, TypeOK, SendCancelSubtasks, CanvasOK
<1>6. MsgN(m)
  BY <1>3, Copies DEF IInv, MsgN, Send, SendCancelSubtasks
<1>7. msgs' \subseteq msgs \cup {m}
  BY DEF SendCancelSubtasks
<1> QED
  BY <1>2, <1>3, <1>4, <1>5, <1>6, <1>7, Copies, Preserve DEF SendCancelSubtasks

\* The cancelled status is earned by the request that saves it, and revoking a
\* canvas keeps the files it stored.
LEMMA CancelSaveInv ==
  ASSUME IInv, NEW r \in Request, CancelSave(r)
  PROVE  IInv'
<1> DEFINE obj == req[r].obj
           new == [obj EXCEPT !.status = CancelledStatus(obj), !.run_mode = "null"]
           t   == TaskToRevoke(obj)
<1>1. obj \in Row /\ new \in Row /\ new.status \in Cancelled /\ new.status \in Status
  <2>1. obj \in Row
    BY DEF IInv, TypeOK
  <2>2. CancelledStatus(obj) \in Cancelled /\ CancelledStatus(obj) \in Status
    BY DEF CancelledStatus, Cancelled, Status
  <2>3. new \in Row
    BY <2>1, <2>2, RowUpdates DEF File
  <2>4. new.status = CancelledStatus(obj)
    BY <2>1 DEF Row
  <2> QED
    BY <2>1, <2>2, <2>3, <2>4
<1>2. \/ stage' = stage
      \/ t \in Request /\ stage[t] = "start" /\ stage' = [stage EXCEPT ![t] = "revoked"]
  BY DEF CancelSave
<1>3. TypeOK'
  <2>1. stage' \in [Request -> Stage]
    BY <1>2 DEF IInv, TypeOK, Stage
  <2>2. /\ row' = new /\ req' = Finish(r) /\ earned' = earned \cup {new.status}
        /\ UNCHANGED <<recObj, msgs, owner>>
    BY DEF CancelSave
  <2>3. req' \in [Request -> [op : StartOp \cup CancelOp,
                             pc : {"idle", "begun", "saved", "dispatched", "cancelling", "done"},
                             obj : Row]]
    BY <2>2, FinishType DEF IInv
  <2> QED
    BY <1>1, <2>1, <2>2, <2>3 DEF IInv, TypeOK
<1>4. Forward
  BY <1>2 DEF IInv, TypeOK, CancelSave, Finish, Forward, InputStored, OutputStored, LossStage
<1>5. SnapshotN(new)
  <2>1. new.status \in earned' /\ FilesBack(new)
    BY <1>1 DEF CancelSave, FilesBack, Cancelled
  <2>2. new.input = obj.input /\ new.output = obj.output
    BY <1>1 DEF Row
  <2> QED
    BY <1>4, <2>1, <2>2, Copies DEF SnapshotN
<1>6. row' = new /\ \A q \in Request : req'[q].obj \in {NewRow, req[q].obj}
  BY DEF IInv, TypeOK, CancelSave, Finish
<1>7. \A q \in Request : CanvasOK(q)'
  BY <1>2 DEF IInv, TypeOK, CancelSave, Finish, CanvasOK, GenStage, LossStage
<1> QED
  BY <1>3, <1>4, <1>5, <1>6, <1>7, Copies, Preserve DEF CancelSave

-----------------------------------------------------------------------------
(* The canvas.                                                             *)

\* A canvas that moves on within its kind of work.
Moves(e, to) == stage' = [stage EXCEPT ![e] = to] /\ req' = req

\* The stages each stage leads to; a failure is possible in all of them.
LEMMA CanvasStep ==
  ASSUME IInv, NEW e \in Request, NEW to \in Stage, Moves(e, to), earned \subseteq earned',
         stage[e] \in ActiveStage,
         to \in GenStage => req[e].op # "run",
         to \in LossStage => req[e].op # "generate_inputs",
         to # "none",
         stage[e] \in InputStored => to \in InputStored,
         stage[e] \in OutputStored => to \in OutputStored
  PROVE  /\ Forward
         /\ stage' \in [Request -> Stage]
         /\ \A q \in Request : CanvasOK(q)'
<1>1. stage' \in [Request -> Stage]
  BY DEF IInv, TypeOK, Moves
<1>2. Forward
  BY DEF IInv, TypeOK, Moves, Forward, ActiveStage, GenStage, LossStage
<1>3. \A q \in Request : CanvasOK(q)'
  BY DEF IInv, TypeOK, Moves, CanvasOK, ActiveStage, GenStage, LossStage
<1> QED
  BY <1>1, <1>2, <1>3

\* Steps that only send a message from a canvas.
LEMMA SendInv ==
  ASSUME IInv, Forward,
         stage' \in [Request -> Stage], earned' \subseteq Status,
         owner' \in Request \cup {NoKey},
         \A q \in Request : CanvasOK(q)',
         row' = row, req' = req, recObj' = recObj,
         \A m \in msgs' : m \in msgs \/ (m \in Msg /\ MsgN(m))
  PROVE  IInv'
<1>1. TypeOK'
  BY DEF IInv, TypeOK
<1> QED
  BY <1>1, Copies, Preserve

\* A start_* task opens the half of the canvas its request asked for.
LEMMA StartChainInv ==
  ASSUME IInv, NEW e \in Request, StartChain(e)
  PROVE  IInv'
<1> DEFINE m  == ChainId(e)
           to == FirstStage(req[e].op)
<1>1. /\ to \in Stage
      /\ to \in GenStage => req[e].op # "run"
      /\ to \in LossStage => req[e].op # "generate_inputs"
      /\ to # "none"
  BY DEF FirstStage, Stage, GenStage, LossStage
<1>2. stage[e] \in ActiveStage /\ stage[e] \notin InputStored /\ stage[e] \notin OutputStored
  BY DEF StartChain, ActiveStage, InputStored, OutputStored, LossStage
<1>3. Moves(e, to) /\ earned \subseteq earned'
  BY DEF StartChain, Moves
<1> HIDE DEF to
<1>4. Forward /\ stage' \in [Request -> Stage] /\ \A q \in Request : CanvasOK(q)'
  BY <1>1, <1>2, <1>3, CanvasStep
<1>5. m \in Msg /\ MsgN(m)
  <2>1. PICK obj : obj = [NewRow EXCEPT !.run_task = row.run_task]
    OBVIOUS
  <2>2. m = [Send("record_chain_id", e, "NEW") EXCEPT !.obj = obj]
    BY <2>1 DEF ChainId, Send
  <2>3. obj \in Row /\ obj.status = NewRow.status /\ obj.input = NewRow.input
        /\ obj.output = NewRow.output
    BY <2>1, NewRowType DEF IInv, TypeOK, Row
  <2>4. m \in Msg /\ m.obj = obj /\ m.task = "record_chain_id" /\ m.arg = "NEW"
    BY <2>2, <2>3 DEF Send, Msg, Task, Status
  <2>5. SnapshotN(obj)
    BY <1>4, <2>3, Copies DEF SnapshotN, FilesBack
  <2> QED
    BY <1>4, <2>4, <2>5, Copies DEF IInv, MsgN, StartChain
<1>6. msgs' = msgs \cup {m} /\ owner' = e /\ UNCHANGED <<row, req, recObj, earned>>
  BY DEF StartChain
<1> HIDE DEF m
<1> QED
  BY <1>4, <1>5, <1>6, SendInv DEF IInv, TypeOK

\* A worker that announces a status has earned it, and announces no status that
\* promises files.
LEMMA WorkerStartsInv ==
  ASSUME IInv, NEW e \in Request, NEW from \in Stage, NEW to \in Stage, NEW status \in Status,
         WorkerStarts(e, from, to, status),
         status \notin {"READY", "RUN_COMPLETED"},
         \/ from \in GenStage \ {"gen_cleanup"} /\ to \in GenStage
         \/ from \in LossStage \ {"loss_cleanup"} /\ to \in LossStage
  PROVE  IInv'
<1> DEFINE m == Send("set_task_status", e, status)
<1>1. /\ to \in GenStage => req[e].op # "run"
      /\ to \in LossStage => req[e].op # "generate_inputs"
      /\ to # "none"
      /\ stage[e] \in ActiveStage
  BY DEF IInv, CanvasOK, WorkerStarts, ActiveStage, GenStage, LossStage
<1>2. /\ stage[e] \in InputStored => to \in InputStored
      /\ stage[e] \notin OutputStored
  BY DEF WorkerStarts, InputStored, OutputStored, GenStage, LossStage
<1>3. Moves(e, to) /\ earned \subseteq earned'
  BY DEF WorkerStarts, Moves
<1>4. Forward /\ stage' \in [Request -> Stage] /\ \A q \in Request : CanvasOK(q)'
  BY <1>1, <1>2, <1>3, CanvasStep
<1>5. m \in Msg /\ MsgN(m)
  BY <1>4, Copies, SendType DEF MsgN, Send, WorkerStarts, Task
<1>6. msgs' = msgs \cup {m} /\ earned' = earned \cup {status} /\ UNCHANGED <<row, req, recObj, owner>>
  BY DEF WorkerStarts
<1> HIDE DEF m
<1> QED
  BY <1>4, <1>5, <1>6, SendInv DEF IInv, TypeOK

\* GenParams, LossParams and NoKeys are instances of WorkerStarts.
LEMMA NotifyingStepsInv ==
  ASSUME IInv, NEW e \in Request, GenParams(e) \/ LossParams(e) \/ NoKeys(e)
  PROVE  IInv'
<1>1. CASE GenParams(e)
  BY <1>1, WorkerStartsInv DEF GenParams, Stage, Status, GenStage
<1>2. CASE LossParams(e)
  BY <1>2, WorkerStartsInv DEF LossParams, Stage, Status, LossStage
<1>3. CASE NoKeys(e)
  <2>1. "INPUTS_GENERATION_NO_KEYS" \in Status \ {"READY", "RUN_COMPLETED"}
    BY DEF Status
  <2>2. /\ {"gen_files", "no_keys", "no_keys_2", "no_keys_3"} \subseteq GenStage
        /\ {"gen_files", "no_keys", "no_keys_2", "no_keys_3"} \subseteq Stage
    BY DEF GenStage, Stage
  <2>3. CASE WorkerStarts(e, "gen_files", "no_keys", "INPUTS_GENERATION_NO_KEYS")
    BY <2>1, <2>2, <2>3, WorkerStartsInv
  <2>4. CASE WorkerStarts(e, "no_keys", "no_keys_2", "INPUTS_GENERATION_NO_KEYS")
    BY <2>1, <2>2, <2>4, WorkerStartsInv
  <2>5. CASE WorkerStarts(e, "no_keys_2", "no_keys_3", "INPUTS_GENERATION_NO_KEYS")
    BY <2>1, <2>2, <2>5, WorkerStartsInv
  <2> QED
    BY <1>3, <2>3, <2>4, <2>5 DEF NoKeys
<1> QED
  BY <1>1, <1>2, <1>3

\* Steps of the workers that leave the row alone keep the canvas in its half.
LEMMA WorkerStepInv ==
  ASSUME IInv, NEW e \in Request, WorkerStep(e)
  PROVE  IInv'
<1> DEFINE to == NextStage(e, stage[e])
<1>1. /\ to \in Stage /\ to # "none"
      /\ to \in GenStage => req[e].op # "run"
      /\ to \in LossStage => req[e].op # "generate_inputs"
      /\ stage[e] \in InputStored => to \in InputStored
      /\ stage[e] \in OutputStored => to \in OutputStored
      /\ stage[e] \in ActiveStage
  BY DEF IInv, CanvasOK, WorkerStep, NextStage, Stage, ActiveStage, GenStage, LossStage,
         InputStored, OutputStored
<1>2. Moves(e, to) /\ earned \subseteq earned'
  BY DEF WorkerStep, Moves
<1> HIDE DEF to
<1>3. Forward /\ stage' \in [Request -> Stage] /\ \A q \in Request : CanvasOK(q)'
  BY <1>1, <1>2, CanvasStep
<1> QED
  BY <1>3, SendInv DEF WorkerStep, IInv, TypeOK

\* A progress report carries no object until the consumer reads the row.
LEMMA ReportProgressInv ==
  ASSUME IInv, NEW e \in Request, ReportProgress(e)
  PROVE  IInv'
<1> DEFINE m == Send("event_progress", e, "NEW")
<1>1. Forward /\ \A q \in Request : CanvasOK(q)'
  BY DEF IInv, ReportProgress, Forward, CanvasOK
<1>2. m \in Msg /\ MsgN(m)
  BY <1>1, Copies, SendType DEF IInv, MsgN, Send, ReportProgress, Status, Task
<1>3. msgs' = msgs \cup {m} /\ UNCHANGED <<row, req, stage, recObj, owner, earned>>
  BY DEF ReportProgress
<1> HIDE DEF m
<1> QED
  BY <1>1, <1>2, <1>3, SendInv DEF IInv, TypeOK

\* A record_* task copies a consistent row.
LEMMA RecordReadInv ==
  ASSUME IInv, NEW e \in Request, RecordRead(e)
  PROVE  IInv'
<1> DEFINE to == IF stage[e] = "record_inputs" THEN "save_inputs" ELSE "save_losses"
<1>1. /\ to \in Stage /\ to # "none"
      /\ to \in GenStage => req[e].op # "run"
      /\ to \in LossStage => req[e].op # "generate_inputs"
      /\ stage[e] \in InputStored => to \in InputStored
      /\ stage[e] \in OutputStored => to \in OutputStored
      /\ stage[e] \in ActiveStage
  BY DEF IInv, CanvasOK, RecordRead, Stage, ActiveStage, GenStage, LossStage,
         InputStored, OutputStored
<1>2. Moves(e, to) /\ earned \subseteq earned'
  BY DEF IInv, TypeOK, RecordRead, Moves
<1> HIDE DEF to
<1>3. Forward /\ stage' \in [Request -> Stage] /\ \A q \in Request : CanvasOK(q)'
  BY <1>1, <1>2, CanvasStep
<1>4. TypeOK'
  BY <1>3 DEF IInv, TypeOK, RecordRead
<1>5. \A q \in Request : recObj'[q] \in {row, recObj[q]}
  BY DEF IInv, TypeOK, RecordRead
<1> QED
  BY <1>3, <1>4, <1>5, Copies, Preserve DEF RecordRead

\* record_input_files stores READY together with its own input file.
LEMMA RecordInputFilesInv ==
  ASSUME IInv, NEW e \in Request, RecordInputFiles(e)
  PROVE  IInv'
<1> DEFINE obj == recObj[e]
           new == InputsRecorded(e, obj)
<1>1. /\ req[e].op # "run" /\ stage[e] \in ActiveStage
      /\ stage[e] \notin InputStored /\ stage[e] \notin OutputStored
  BY DEF IInv, CanvasOK, RecordInputFiles, ActiveStage, GenStage, LossStage,
         InputStored, OutputStored
<1>2. Moves(e, "gen_cleanup") /\ earned \subseteq earned'
  BY DEF RecordInputFiles, Moves
<1>3. "gen_cleanup" \in Stage /\ "gen_cleanup" \notin LossStage /\ "gen_cleanup" \in InputStored
  BY DEF Stage, LossStage, InputStored
<1>4. Forward /\ stage' \in [Request -> Stage] /\ \A q \in Request : CanvasOK(q)'
  BY <1>1, <1>2, <1>3, CanvasStep
<1>5. obj \in Row /\ new \in Row
  <2>1. obj \in Row
    BY DEF IInv, TypeOK
  <2>2. "READY" \in Status /\ e \in File
    BY DEF Status, File
  <2> QED
    BY <2>1, <2>2, RowUpdates DEF InputsRecorded
<1>6. TypeOK'
  BY <1>4, <1>5, NewRowType DEF IInv, TypeOK, RecordInputFiles, Status
<1>7. SnapshotN(new)
  <2>1. /\ new.status = "READY" /\ new.input = e /\ new.output = obj.output
    BY <1>5 DEF InputsRecorded, Row
  <2>2. OwnInputN(e)
    BY <1>1, <1>2, <1>3 DEF IInv, TypeOK, OwnInputN, Moves
  <2> QED
    BY <1>4, <2>1, <2>2, Copies DEF SnapshotN, FilesBack, RecordInputFiles
<1>8. row' = new /\ \A q \in Request : recObj'[q] \in {NewRow, recObj[q]}
  BY DEF IInv, TypeOK, RecordInputFiles
<1> QED
  BY <1>4, <1>6, <1>7, <1>8, Copies, Preserve DEF RecordInputFiles

\* record_losses_files stores RUN_COMPLETED together with its own output file.
LEMMA RecordLossesFilesInv ==
  ASSUME IInv, NEW e \in Request, RecordLossesFiles(e)
  PROVE  IInv'
<1> DEFINE obj == recObj[e]
           new == LossesRecorded(e, obj)
<1>1. /\ req[e].op # "generate_inputs" /\ stage[e] \in ActiveStage
      /\ stage[e] \notin OutputStored
  BY DEF IInv, CanvasOK, RecordLossesFiles, ActiveStage, GenStage, LossStage, OutputStored
<1>2. Moves(e, "loss_cleanup") /\ earned \subseteq earned'
  BY DEF RecordLossesFiles, Moves
<1>3. /\ "loss_cleanup" \in Stage /\ "loss_cleanup" \notin GenStage
      /\ "loss_cleanup" \in InputStored /\ "loss_cleanup" \in OutputStored
  BY DEF Stage, GenStage, LossStage, InputStored, OutputStored
<1>4. Forward /\ stage' \in [Request -> Stage] /\ \A q \in Request : CanvasOK(q)'
  BY <1>1, <1>2, <1>3, CanvasStep
<1>5. obj \in Row /\ new \in Row
  <2>1. obj \in Row
    BY DEF IInv, TypeOK
  <2>2. "RUN_COMPLETED" \in Status /\ e \in File
    BY DEF Status, File
  <2> QED
    BY <2>1, <2>2, RowUpdates DEF LossesRecorded
<1>6. TypeOK'
  BY <1>4, <1>5, NewRowType DEF IInv, TypeOK, RecordLossesFiles, Status
<1>7. SnapshotN(new)
  <2>1. /\ new.status = "RUN_COMPLETED" /\ new.output = e /\ new.input = obj.input
    BY <1>5 DEF LossesRecorded, Row
  <2>2. OwnOutputN(e)
    BY <1>1, <1>2, <1>3 DEF IInv, TypeOK, OwnOutputN, Moves
  <2> QED
    BY <1>4, <2>1, <2>2, Copies DEF SnapshotN, FilesBack, RecordLossesFiles
<1>8. row' = new /\ \A q \in Request : recObj'[q] \in {NewRow, recObj[q]}
  BY DEF IInv, TypeOK, RecordLossesFiles
<1> QED
  BY <1>4, <1>6, <1>7, <1>8, Copies, Preserve DEF RecordLossesFiles

\* A failure earns the status its errback will store, and its error files belong
\* to the half that failed.
LEMMA FailStageInv ==
  ASSUME IInv, NEW e \in Request, FailStage(e)
  PROVE  IInv'
<1> DEFINE m == Send("handle_task_failure", e, FailureStatus(e))
<1>1. Moves(e, "failed") /\ earned \subseteq earned' /\ stage[e] \in ActiveStage
  BY DEF FailStage, Moves
<1>2. /\ "failed" \in Stage /\ "failed" \notin GenStage /\ "failed" \notin LossStage
      /\ "failed" \in InputStored /\ "failed" \in OutputStored
  BY DEF Stage, GenStage, LossStage, InputStored, OutputStored
<1>3. Forward /\ stage' \in [Request -> Stage] /\ \A q \in Request : CanvasOK(q)'
  BY <1>1, <1>2, CanvasStep
<1>4. stage'[e] = "failed" /\ req' = req
  BY <1>1 DEF IInv, TypeOK, Moves
<1>5. FailureStatus(e) \in {"RUN_ERROR", "INPUTS_GENERATION_ERROR"}
  BY DEF FailureStatus
<1>6. m \in Msg /\ MsgN(m)
  <2>1. m \in Msg
    BY <1>5, SendType DEF Status, Task
  <2>2. MsgN(m)
    BY <1>3, <1>5, Copies DEF MsgN, Send, FailStage
  <2> QED
    BY <2>1, <2>2
<1>7. PICK files \in ErrorFiles(e) : msgs' = msgs \cup files \cup {m}
  BY DEF FailStage
<1>8. \A f \in files : f \in Msg /\ MsgN(f)
  <2> SUFFICES ASSUME NEW f \in files PROVE f \in Msg /\ MsgN(f)
    OBVIOUS
  <2> DEFINE fi == Send("record_input_error_files", e, "NEW")
             fo == Send("record_losses_error_files", e, "NEW")
  <2>1. fi \in Msg /\ fo \in Msg
    BY SendType DEF Status, Task
  <2>2. \/ f = fi /\ stage[e] \in GenStage
        \/ f = fo /\ stage[e] \in LossStage
    BY <1>7 DEF ErrorFiles, GenStage, LossStage
  <2>3. CASE f = fi /\ stage[e] \in GenStage
    BY <1>3, <1>4, <2>1, <2>3, Copies DEF IInv, CanvasOK, MsgN, Send, Forward
  <2>4. CASE f = fo /\ stage[e] \in LossStage
    BY <1>3, <1>4, <2>1, <2>4, Copies DEF IInv, CanvasOK, MsgN, Send, Forward
  <2> QED
    BY <2>2, <2>3, <2>4
<1>9. earned' = earned \cup {FailureStatus(e)} /\ UNCHANGED <<row, req, recObj, owner>>
  BY DEF FailStage
<1> HIDE DEF m
<1>10. earned' \subseteq Status
  BY <1>5, <1>9 DEF IInv, TypeOK, Status
<1> QED
  BY <1>3, <1>6, <1>7, <1>8, <1>9, <1>10, SendInv DEF IInv, TypeOK

-----------------------------------------------------------------------------
(* The monitor's tasks: none of them starts work or earns a status.        *)

\* A task of the monitor that ends: what it wrote is consistent.
LEMMA MonitorWrite ==
  ASSUME IInv, row' \in Row, SnapshotN(row'),
         \A m \in msgs' : m \in msgs \/ (m \in Msg /\ MsgN(m)),
         req' = req, stage' = stage, recObj' = recObj, owner' = owner, earned' = earned
  PROVE  IInv'
<1>1. TypeOK'
  BY DEF IInv, TypeOK
<1>2. Forward
  BY DEF Forward
<1>3. \A q \in Request : CanvasOK(q)'
  BY DEF IInv, CanvasOK
<1> QED
  BY <1>1, <1>2, <1>3, Copies, Preserve

\* A task of the monitor copies a consistent row.
LEMMA ReadRowInv ==
  ASSUME IInv, NEW m \in msgs, ReadRow(m)
  PROVE  IInv'
<1> DEFINE n == [m EXCEPT !.pc = "read", !.obj = row]
<1>1. m \in Msg /\ row \in Row /\ Forward
  BY DEF IInv, TypeOK, ReadRow, Forward
<1>2. n \in Msg /\ n.obj = row /\ n.arg = m.arg /\ n.task = m.task /\ n.by = m.by
  BY <1>1 DEF Msg
<1>3. MsgN(m) /\ SnapshotN(row)
  BY <1>1, MessagesKeep, Copies DEF IInv
<1> HIDE DEF n
<1>4. MsgN(n)
  BY <1>2, <1>3 DEF MsgN
<1>5. msgs' = (msgs \ {m}) \cup {n} /\ UNCHANGED <<row, req, stage, recObj, owner, earned>>
  BY DEF ReadRow, n
<1> QED
  BY <1>1, <1>2, <1>3, <1>4, <1>5, MonitorWrite

\* handle_task_failure forgets its object and stays within its retries.
LEMMA RetryTaskFailureInv ==
  ASSUME IInv, NEW m \in msgs, RetryTaskFailure(m)
  PROVE  IInv'
<1> DEFINE n == [m EXCEPT !.pc = "queued", !.obj = NewRow, !.retries = @ + 1]
<1>1. m \in Msg /\ row \in Row /\ Forward
  BY DEF IInv, TypeOK, RetryTaskFailure, Forward
<1>a. m.retries \in 0..MaxRetries /\ m.retries < MaxRetries
  BY <1>1 DEF Msg, RetryTaskFailure
<1>b. m.retries + 1 \in 0..MaxRetries
  BY <1>a
<1>2. n \in Msg /\ n.obj = NewRow /\ n.arg = m.arg /\ n.task = m.task /\ n.by = m.by
  BY <1>1, <1>b, NewRowType DEF Msg
<1>3. MsgN(m) /\ SnapshotN(row) /\ SnapshotN(NewRow)
  BY <1>1, MessagesKeep, Copies DEF IInv
<1> HIDE DEF n
<1>4. MsgN(n)
  BY <1>2, <1>3 DEF MsgN
<1>5. msgs' = (msgs \ {m}) \cup {n} /\ UNCHANGED <<row, req, stage, recObj, owner, earned>>
  BY DEF RetryTaskFailure, n
<1> QED
  BY <1>1, <1>2, <1>3, <1>4, <1>5, MonitorWrite

\* A status column written on its own, by a task that does not promise files.
LEMMA StatusWrite ==
  ASSUME IInv, Forward, earned' = earned, NEW r \in Row, SnapshotN(r), NEW s \in Status,
         s \in earned, s \notin {"READY", "RUN_COMPLETED"}
  PROVE  [r EXCEPT !.status = s] \in Row /\ SnapshotN([r EXCEPT !.status = s])
<1> DEFINE n == [r EXCEPT !.status = s]
<1>1. n \in Row /\ n.status = s /\ n.input = r.input /\ n.output = r.output
  BY DEF Row
<1> HIDE DEF n
<1>2. SnapshotN(n)
  BY <1>1 DEF SnapshotN, FilesBack
<1> QED
  BY <1>1, <1>2 DEF n

\* set_task_status writes an announced status next to the stored files.
LEMMA SetTaskStatusInv ==
  ASSUME IInv, NEW m \in msgs, SetTaskStatus(m)
  PROVE  IInv'
<1>1. /\ Forward /\ row \in Row /\ SnapshotN(row)
      /\ m.arg \in Status /\ m.arg \in earned /\ m.arg \notin {"READY", "RUN_COMPLETED"}
  <2>1. Forward /\ row \in Row /\ m.arg \in Status
    BY DEF IInv, TypeOK, SetTaskStatus, Forward, Msg
  <2> QED
    BY <2>1, Copies DEF IInv, MsgOK
<1>2. row' \in Row /\ SnapshotN(row')
  BY <1>1, StatusWrite DEF SetTaskStatus
<1> QED
  BY <1>2, MonitorWrite DEF SetTaskStatus

\* handle_task_failure writes an error status into the object it read.
LEMMA HandleTaskFailureInv ==
  ASSUME IInv, NEW m \in msgs, HandleTaskFailure(m)
  PROVE  IInv'
<1>1. /\ Forward /\ m.obj \in Row /\ SnapshotN(m.obj)
      /\ m.arg \in Status /\ m.arg \in earned /\ m.arg \notin {"READY", "RUN_COMPLETED"}
  <2>1. Forward /\ m.obj \in Row /\ m.arg \in Status
    BY DEF IInv, TypeOK, HandleTaskFailure, Forward, Msg
  <2> QED
    BY <2>1, Copies DEF IInv, MsgOK
<1>2. row' \in Row /\ SnapshotN(row')
  BY <1>1, StatusWrite DEF HandleTaskFailure, Failed
<1> QED
  BY <1>2, MonitorWrite DEF HandleTaskFailure

\* The progress consumer saves back what it read.
LEMMA HandleContentInv ==
  ASSUME IInv, NEW m \in msgs, HandleContent(m)
  PROVE  IInv'
<1>1. Forward /\ m.obj \in Row
  BY DEF IInv, TypeOK, HandleContent, Forward, Msg
<1>2. SnapshotN(m.obj)
  BY <1>1, Copies
<1> QED
  BY <1>1, <1>2, MonitorWrite DEF HandleContent

\* The files of a failed step are stored as that step's kind of files.
LEMMA RecordErrorFilesInv ==
  ASSUME IInv, NEW m \in msgs, RecordErrorFiles(m)
  PROVE  IInv'
<1>1. Forward /\ row \in Row /\ m.by \in Request
  BY DEF IInv, TypeOK, RecordErrorFiles, Forward, Msg
<1>2. SnapshotN(row) /\ MsgOK(m) /\ m.by # NoKey
  BY <1>1, Copies DEF IInv
<1>3. CASE m.task = "record_input_error_files"
  <2>1. row' \in Row /\ row'.status = row.status /\ row'.input = m.by /\ row'.output = row.output
    BY <1>1, <1>3 DEF RecordErrorFiles, Row, File
  <2>2. OwnInputN(m.by)
    BY <1>2, <1>3 DEF MsgOK, OwnInputN, RecordErrorFiles, InputStored
  <2>3. SnapshotN(row')
    BY <1>2, <2>1, <2>2 DEF SnapshotN, FilesBack
  <2> QED
    BY <2>1, <2>3, MonitorWrite DEF RecordErrorFiles
<1>4. CASE m.task = "record_losses_error_files"
  <2>1. row' \in Row /\ row'.status = row.status /\ row'.output = m.by /\ row'.input = row.input
    BY <1>1, <1>4 DEF RecordErrorFiles, Row, File
  <2>2. OwnOutputN(m.by)
    BY <1>2, <1>4 DEF MsgOK, OwnOutputN, RecordErrorFiles, OutputStored
  <2>3. SnapshotN(row')
    BY <1>2, <2>1, <2>2 DEF SnapshotN, FilesBack
  <2> QED
    BY <2>1, <2>3, MonitorWrite DEF RecordErrorFiles
<1> QED
  BY <1>3, <1>4 DEF RecordErrorFiles

\* Storing the chain id touches neither the status nor the files.
LEMMA RecordChainIdInv ==
  ASSUME IInv, NEW m \in msgs, RecordChainId(m)
  PROVE  IInv'
<1>1. Forward /\ row \in Row /\ m.by \in Request
  BY DEF IInv, TypeOK, RecordChainId, Forward, Msg
<1>0. m.obj.run_task \in Request \cup {NoKey}
  BY DEF IInv, TypeOK, Msg, Row
<1>2. SnapshotN(row)
  BY <1>1, Copies
<1>3. /\ row' \in Row
      /\ row'.status = row.status /\ row'.input = row.input /\ row'.output = row.output
  BY <1>0, <1>1 DEF RecordChainId, Row
<1>4. SnapshotN(row')
  BY <1>2, <1>3 DEF SnapshotN, FilesBack
<1> QED
  BY <1>3, <1>4, MonitorWrite DEF RecordChainId

\* Revoking the canvas that owns the sub-task rows keeps the files it stored.
LEMMA CancelSubtasksInv ==
  ASSUME IInv, NEW m \in msgs, CancelSubtasks(m)
  PROVE  IInv'
<1> DEFINE n == Send("cancel_subtasks", owner, "NEW")
<1>1. CASE stage' = stage /\ msgs' = msgs \ {m}
  <2>1. Forward /\ row \in Row
    BY <1>1 DEF IInv, TypeOK, CancelSubtasks, Forward
  <2>2. SnapshotN(row)
    BY <2>1, Copies
  <2> QED
    BY <1>1, <2>1, <2>2, MonitorWrite DEF CancelSubtasks
<1>2. CASE /\ owner \in Request
           /\ stage[owner] \in GenStage \cup LossStage
           /\ stage' = [stage EXCEPT ![owner] = "revoked"]
           /\ msgs' = (msgs \ {m}) \cup {n}
  <2>1. Moves(owner, "revoked") /\ earned \subseteq earned' /\ stage[owner] \in ActiveStage
    BY <1>2 DEF CancelSubtasks, Moves, ActiveStage
  <2>2. /\ "revoked" \in Stage /\ "revoked" \notin GenStage /\ "revoked" \notin LossStage
        /\ "revoked" \in InputStored /\ "revoked" \in OutputStored
    BY DEF Stage, GenStage, LossStage, InputStored, OutputStored
  <2>3. Forward /\ stage' \in [Request -> Stage] /\ \A q \in Request : CanvasOK(q)'
    BY <1>2, <2>1, <2>2, CanvasStep
  <2>4. n \in Msg /\ MsgN(n)
    BY <1>2, <2>3, Copies, SendType DEF IInv, MsgN, Send, CancelSubtasks, Status, Task
  <2>5. UNCHANGED <<row, req, recObj, owner, earned>>
    BY DEF CancelSubtasks
  <2> HIDE DEF n
  <2> QED
    BY <1>2, <2>3, <2>4, <2>5, SendInv DEF IInv, TypeOK
<1> QED
  BY <1>1, <1>2 DEF CancelSubtasks

-----------------------------------------------------------------------------
(* The invariant and what follows from it.                                 *)

\* A fresh or an already READY analysis with nothing going on is consistent.
LEMMA InitInv == Init => IInv
<1> SUFFICES ASSUME Init PROVE IInv
  OBVIOUS
<1>1. NewRow \in Row /\ ReadyRow \in Row
  BY NewRowType DEF NewRow, ReadyRow, Row, Status, File
<1>a. /\ NewRow.status = "NEW" /\ NewRow.input = NoKey /\ NewRow.output = NoKey
      /\ ReadyRow.status = "READY" /\ ReadyRow.input = Prior /\ ReadyRow.output = NoKey
  BY DEF NewRow, ReadyRow
<1>b. row = NewRow \/ row = ReadyRow
  BY DEF Init
<1>2. TypeOK
  <2>1. row \in Row /\ earned \subseteq Status
    BY <1>1, <1>a, <1>b DEF Init, Status
  <2>2. "run" \in StartOp /\ "none" \in Stage
    BY DEF StartOp, Stage
  <2> QED
    BY <1>1, <2>1, <2>2 DEF Init, TypeOK
<1>3. SnapshotOK(row) /\ SnapshotOK(NewRow)
  <2>1. "NEW" \in earned /\ row.status \in earned
    BY DEF Init
  <2> QED
    BY <1>a, <1>b, <2>1 DEF SnapshotOK, FilesBack, MayOwnInput, MayOwnOutput
<1>4. \A r \in Request : CanvasOK(r)
  BY DEF Init, CanvasOK, GenStage, LossStage
<1> QED
  BY <1>2, <1>3, <1>4 DEF Init, IInv

\* Every step of a handler, a canvas or the monitor keeps it, and so does a
\* step in which none of them does anything.
LEMMA StepInv == IInv /\ [Next]_vars => IInv'
<1> SUFFICES ASSUME IInv, [Next]_vars PROVE IInv'
  OBVIOUS
<1>1. ASSUME NEW r \in Request, NEW op \in Ops, BeginRequest(r, op) PROVE IInv'
  BY <1>1, BeginRequestInv
<1>2. ASSUME NEW r \in Request, Handler(r) PROVE IInv'
  BY <1>2, SaveQueuedInv, DispatchInv, RecordDispatchInv, RejectInv, SendCancelSubtasksInv,
     CancelSaveInv DEF Handler
<1>3. ASSUME NEW e \in Request, Canvas(e) PROVE IInv'
  BY <1>3, StartChainInv, NotifyingStepsInv, WorkerStepInv, RecordReadInv, RecordInputFilesInv,
     RecordLossesFilesInv, FailStageInv DEF Canvas
<1>4. ASSUME NEW e \in Request, ReportProgress(e) PROVE IInv'
  BY <1>4, ReportProgressInv
<1>5. ASSUME NEW m \in msgs, Monitor(m) PROVE IInv'
  BY <1>5, ReadRowInv, SetTaskStatusInv, RetryTaskFailureInv, HandleTaskFailureInv,
     HandleContentInv, RecordErrorFilesInv, RecordChainIdInv, CancelSubtasksInv DEF Monitor
<1>6. CASE UNCHANGED vars
  <2>1. Forward /\ TypeOK' /\ \A q \in Request : CanvasOK(q)'
    BY <1>6 DEF vars, IInv, TypeOK, Forward, CanvasOK
  <2> QED
    BY <1>6, <2>1, Copies, Preserve DEF vars
<1> QED
  BY <1>1, <1>2, <1>3, <1>4, <1>5, <1>6 DEF Next

\* IInv holds in every reachable state, whatever the requests, the order in
\* which tasks read and save the row, and the failures.
THEOREM Inductive == Spec => []IInv
<1>1. Init => IInv
  BY InitInv
<1>2. IInv /\ [Next]_vars => IInv'
  BY StepInv
<1> QED
  BY <1>1, <1>2, PTL DEF Spec

\* Every variable keeps its type; a retried handle_task_failure, in
\* particular, stays within its retry limit.
THEOREM TypeCorrect == Spec => []TypeOK
<1>1. IInv => TypeOK
  BY DEF IInv
<1> QED
  BY <1>1, Inductive, PTL

\* READY always comes with an input file and RUN_COMPLETED with an output
\* file, for any number of overlapping requests and late saves.
THEOREM FilesFollowStatus == Spec => []StatusHasFiles
<1>1. IInv => StatusHasFiles
  BY DEF IInv, SnapshotOK, StatusHasFiles
<1> QED
  BY <1>1, Inductive, PTL

\* No task, however stale its object, stores a status whose cause has not
\* happened.
THEOREM StatusIsEarned == Spec => []StatusEarned
<1>1. IInv => StatusEarned
  BY DEF IInv, SnapshotOK, StatusEarned
<1> QED
  BY <1>1, Inductive, PTL

\* The file columns point at work of the right kind that has been stored.
THEOREM FilesAreProduced == Spec => []FilesHaveProducers
<1>1. IInv => FilesHaveProducers
  BY DEF IInv, SnapshotOK, FilesHaveProducers
<1> QED
  BY <1>1, Inductive, PTL

-----------------------------------------------------------------------------
(* The refinement: with requests that do not overlap and messages that are *)
(* handled before the next step, as Prompt has it, V2 implements           *)
(* AnalysisWorkflow.                                                       *)

\* The request has been read and is not finished.
Open(r) == req[r].pc \in {"begun", "saved", "dispatched", "cancelling"}

\* The recorder of the canvas holds a copy of the row.
Saving(e) == stage[e] \in {"save_inputs", "save_losses"}

\* An open request is alone, but for the cancel_subtasks that it sends; so what it
\* read is still what is stored.
OpenAlone ==
  \A r \in Request : Open(r) =>
    /\ \A q \in Request : Open(q) => q = r
    /\ \A e \in Request : ~Saving(e)
    /\ \A m \in msgs : m.task = "cancel_subtasks" /\ req[r].pc = "cancelling"
    /\ req[r].obj.status = row.status /\ req[r].obj.input = row.input /\ req[r].obj.output = row.output
    /\ req[r].op \in StartOp \cup {"cancel"}
    /\ req[r].pc \in {"saved", "dispatched"} => req[r].op \in StartOp
    /\ req[r].pc = "cancelling" => req[r].op = "cancel"
    /\ req[r].pc = "dispatched" => stage[r] = "start"

\* So is a recorder.
SavingAlone ==
  \A e \in Request : Saving(e) =>
    /\ msgs = {}
    /\ \A q \in Request : Saving(q) => q = e
    /\ recObj[e] = row

\* The stages in which a canvas tells of its start or of its progress: an outcome
\* is still to come.
WorkStage == {"gen_params", "gen_files", "no_keys", "no_keys_2", "no_keys_3",
              "loss_params", "loss_work"}

ErrorFileTask == {"record_input_error_files", "record_losses_error_files"}

\* What work for an operation may say.
Tells(op, s) ==
  \/ op # "run" /\ s \in {"INPUTS_GENERATION_STARTED", "INPUTS_GENERATION_NO_KEYS",
                          "INPUTS_GENERATION_ERROR"}
  \/ op # "generate_inputs" /\ s \in {"RUN_STARTED", "RUN_ERROR"}

\* One message at a time, except for the two of a failure.
Together(m, n) ==
  \/ n = m
  \/ /\ n.by = m.by
     /\ \/ m.task \in ErrorFileTask /\ n.task = "handle_task_failure"
        \/ n.task \in ErrorFileTask /\ m.task = "handle_task_failure"

\* What a message may be about: it tells of its own kind of work, which goes on or
\* has failed, what it has read is what is stored, and a cancel_subtasks belongs to a
\* cancellation that is not over, unless the analysis is not waiting for anything.
Fits(m) ==
  /\ m.task # "cancel_subtasks" => req[m.by].op \in StartOp
  /\ m.task \in {"set_task_status", "event_progress", "record_chain_id"} => stage[m.by] \in WorkStage
  /\ m.task \in {"set_task_status", "handle_task_failure"} => Tells(req[m.by].op, m.arg)
  /\ m.task = "handle_task_failure" => m.arg \in {"RUN_ERROR", "INPUTS_GENERATION_ERROR"}
  /\ m.pc = "read" => /\ m.task \notin ErrorFileTask \cup {"cancel_subtasks"}
                      /\ m.obj.status = row.status
                      /\ req[m.by].op = "run" => m.obj.input = row.input
  /\ m.task = "cancel_subtasks" =>
       /\ row.status \in InputsActive \cup RunActive => \E r \in Request : req[r].pc = "cancelling"
       /\ req[m.by].op \in CancelOp \/ (m.by = owner /\ stage[m.by] = "revoked")

Messages == \A m \in msgs : Fits(m) /\ \A n \in msgs : Together(m, n)

\* Work that still has an outcome to report.
Pending(e) ==
  /\ req[e].op \in StartOp
  /\ \/ req[e].pc \in {"saved", "dispatched"}
     \/ stage[e] \in ActiveStage \ {"gen_cleanup", "loss_cleanup"}
     \/ stage[e] = "gen_cleanup" /\ req[e].op = "generate_and_run"
     \/ \E m \in msgs : m.by = e /\ m.task = "handle_task_failure"

\* A status that waits for an outcome has somebody who will report one, or is about
\* to be replaced by a cancellation.
Waited ==
  row.status \in InputsActive \cup RunActive =>
    \/ \E e \in Request : Pending(e)
    \/ /\ \E r \in Request : req[r].pc = "cancelling"
       /\ owner \in Request /\ stage[owner] = "revoked"

WInv == OpenAlone /\ SavingAlone /\ Messages /\ Waited

-----------------------------------------------------------------------------

\* The kinds of work of an operation.
LEMMA KindsAre ==
  ASSUME NEW op \in StartOp
  PROVE  /\ KindsOf(op) \subseteq {"inputs", "run"} /\ KindsOf(op) # {}
         /\ "inputs" \in KindsOf(op) <=> op # "run"
         /\ "run" \in KindsOf(op) <=> op # "generate_inputs"
<1>1. CASE op = "run"
  BY <1>1 DEF KindsOf
<1>2. CASE op = "generate_inputs"
  BY <1>2 DEF KindsOf
<1>3. CASE op = "generate_and_run"
  BY <1>3 DEF KindsOf
<1> QED
  BY <1>1, <1>2, <1>3 DEF StartOp

\* What clients can see of a step that changes neither the status nor the files,
\* and neither begins nor ends work: nothing.
LEMMA UnseenStep ==
  ASSUME row'.status = row.status, row'.input = row.input, row'.output = row.output,
         \A r \in Request : /\ UnderWay(r)' <=> UnderWay(r)
                            /\ UnderWay(r) => req'[r].op = req[r].op
  PROVE  [Workflow!WNext]_(Workflow!wvars)
<1>1. {f \in {"input", "output"} : row[f] # NoKey}' = {f \in {"input", "output"} : row[f] # NoKey}
  OBVIOUS
<1>2. [e \in Request |-> IF UnderWay(e) THEN KindsOf(req[e].op) ELSE {}]'
      = [e \in Request |-> IF UnderWay(e) THEN KindsOf(req[e].op) ELSE {}]
  BY DEF KindsOf
<1> QED
  BY <1>1, <1>2 DEF Workflow!wvars

\* Who has an outcome to report is at work.
LEMMA PendingWorks ==
  ASSUME NEW e \in Request, Pending(e)
  PROVE  AtWork(e)
  BY DEF Pending, AtWork, ActiveStage, GenStage, LossStage

\* A step of the work for a request, or of the monitor on its behalf, which stays
\* within what work of its kind may report.
LEMMA ReportStep ==
  ASSUME OpenAlone', Waited', NEW e \in Request, UnderWay(e), req[e].op \in StartOp, req' = req,
         \A r \in Request \ {e} : UnderWay(r)' <=> UnderWay(r),
         req[e].op = "run" => row'.input = row.input,
         \/ row'.status = row.status
         \/ Tells(req[e].op, row'.status) /\ row.status \notin Cancelled
         \/ req[e].op # "run" /\ row'.status = "READY" /\ row'.input # NoKey
         \/ req[e].op # "generate_inputs" /\ row'.status = "RUN_COMPLETED" /\ row'.output # NoKey
  PROVE  [Workflow!WNext]_(Workflow!wvars)
<1>1. PICK busy : busy = [r \in Request |-> IF UnderWay(r) THEN KindsOf(req[r].op) ELSE {}]
  OBVIOUS
<1>2. PICK next : next = [r \in Request |-> IF UnderWay(r) THEN KindsOf(req[r].op) ELSE {}]'
  OBVIOUS
<1>3. PICK files : files = {f \in {"input", "output"} : row[f] # NoKey}
  OBVIOUS
<1>4. PICK later : later = {f \in {"input", "output"} : row[f] # NoKey}'
  OBVIOUS
<1>5. /\ busy[e] = KindsOf(req[e].op) /\ busy[e] # {}
      /\ "inputs" \in busy[e] <=> req[e].op # "run"
      /\ "run" \in busy[e] <=> req[e].op # "generate_inputs"
  BY <1>1, KindsAre
<1>a. \A r \in Request : next[r] = IF UnderWay(r)' THEN KindsOf(req[r].op) ELSE {}
  BY <1>2 DEF KindsOf
<1>6. \E left \in SUBSET busy[e] : next = [busy EXCEPT ![e] = left]
  <2>1. next[e] \in SUBSET busy[e]
    BY <1>a, <1>5
  <2>2. next = [busy EXCEPT ![e] = next[e]]
    <3>1. \A r \in Request \ {e} : next[r] = busy[r]
      BY <1>1, <1>a
    <3> QED
      BY <1>1, <1>2, <3>1
  <2> QED
    BY <2>1, <2>2
<1>7. later \in SUBSET {"input", "output"}
  BY <1>4
<1>8. "inputs" \notin busy[e] => ("input" \in later <=> "input" \in files)
  BY <1>3, <1>4, <1>5
<1>9. \/ row'.status = row.status
      \/ row'.status \in Workflow!News(busy[e]) /\ row.status \notin Workflow!Cancelled
      \/ "inputs" \in busy[e] /\ row'.status = "READY" /\ "input" \in later
      \/ "run" \in busy[e] /\ row'.status = "RUN_COMPLETED" /\ "output" \in later
  BY <1>4, <1>5 DEF Workflow!News, Tells, Cancelled, Workflow!Cancelled
<1>10. row'.status \in InputsActive \cup RunActive => \E r \in Request : UnderWay(r)'
  <2> SUFFICES ASSUME row'.status \in InputsActive \cup RunActive
               PROVE  \E r \in Request : UnderWay(r)'
    OBVIOUS
  <2>1. CASE \E r \in Request : AtWork(r)'
    BY <2>1 DEF UnderWay
  <2>2. CASE \A r \in Request : ~AtWork(r)'
    <3>1. \A r \in Request : ~Pending(r)'
      BY <2>2 DEF Pending, AtWork, ActiveStage, GenStage, LossStage
    <3>2. (\E r \in Request : req'[r].pc = "cancelling") /\ owner' \in Request /\ stage'[owner'] = "revoked"
      BY <3>1 DEF Waited
    <3>3. PICK r \in Request : req'[r].pc = "cancelling"
      BY <3>2
    <3>4. req'[r].op = "cancel" /\ req'[r].obj.status = row'.status
      BY <3>3 DEF OpenAlone, Open
    <3>5. CancelPending'
      BY <3>3, <3>4 DEF CancelPending, CancelValid
    <3>6. UnderWay(owner)'
      BY <2>2, <3>2, <3>5 DEF UnderWay
    <3> QED
      BY <3>2, <3>6
  <2> QED
    BY <2>1, <2>2
<1>11. Workflow!NoOrphan'
  <2>1. \A r \in Request : KindsOf(req[r].op) # {}
    BY DEF KindsOf
  <2>2. \A r \in Request : UnderWay(r)' => next[r] # {}
    BY <1>a, <2>1
  <2>3. Workflow!Active = InputsActive \cup RunActive
    BY DEF Workflow!Active, InputsActive, RunActive, Workflow!InputsActive, Workflow!RunActive
  <2>4. row'.status \in Workflow!Active => \E r \in Request : next[r] # {}
    BY <1>10, <2>2, <2>3
  <2> QED
    BY <1>2, <2>4 DEF Workflow!NoOrphan, Workflow!Active
<1>12. Workflow!Report(e)
  BY <1>1, <1>2, <1>3, <1>4, <1>5, <1>6, <1>7, <1>8, <1>9, <1>11 DEF Workflow!Report
<1> QED
  BY <1>12 DEF Workflow!WNext

\* Between requests, recorders and messages, only a canvas can move.
LEMMA CalmIs ==
  ASSUME Prompt, Calm
  PROVE  /\ msgs = {}
         /\ \A r \in Request : ~Open(r) /\ ~Saving(r) /\ req[r].pc # "cancelling"
  BY DEF Calm, Open, Saving

\* A step of a canvas at work that leaves the row alone; it may send messages.
LEMMA CanvasMove ==
  ASSUME Prompt, WInv, Calm, NEW e \in Request, AtWork(e), req' = req, row' = row,
         \A q \in Request \ {e} : stage'[q] = stage[q],
         Saving(e)' => msgs' = {} /\ recObj'[e] = row,
         \A m \in msgs' : m.by = e /\ Fits(m)' /\ (\A n \in msgs' : Together(m, n)),
         Pending(e) => Pending(e)'
  PROVE  WInv' /\ [Workflow!WNext]_(Workflow!wvars)
<1>1. msgs = {} /\ \A r \in Request : ~Open(r) /\ ~Saving(r) /\ req[r].pc # "cancelling"
  BY CalmIs
<1>2. OpenAlone'
  BY <1>1 DEF OpenAlone, Open
<1>3. SavingAlone'
  BY <1>1 DEF SavingAlone, Saving
<1>4. Messages'
  BY DEF Messages, Together
<1>5. Waited'
  <2> SUFFICES ASSUME row.status \in InputsActive \cup RunActive
               PROVE  \E q \in Request : Pending(q)'
    BY DEF Waited
  <2>1. PICK q \in Request : Pending(q)
    BY <1>1 DEF WInv, Waited
  <2>2. q # e => Pending(q)'
    BY <1>1, <2>1 DEF Pending
  <2> QED
    BY <2>1, <2>2
<1>6. ~CancelPending /\ ~CancelPending'
  BY <1>1 DEF CancelPending
<1>7. \A q \in Request \ {e} : UnderWay(q)' <=> UnderWay(q)
  BY <1>1, <1>6 DEF UnderWay, AtWork
<1>8. UnderWay(e) /\ req[e].op \in StartOp
  BY DEF UnderWay, AtWork
<1>9. [Workflow!WNext]_(Workflow!wvars)
  BY <1>2, <1>5, <1>7, <1>8, ReportStep
<1> QED
  BY <1>2, <1>3, <1>4, <1>5, <1>9 DEF WInv

\* A canvas in one of its stages is at work, and so is one that a message tells of.
LEMMA StagesWork ==
  ASSUME IInv, NEW e \in Request, stage[e] \in ActiveStage
  PROVE  AtWork(e) /\ req[e].op \in StartOp
<1>1. req[e].op \in StartOp
  BY DEF IInv, CanvasOK, ActiveStage, GenStage, LossStage
<1> QED
  BY <1>1 DEF AtWork

\* A message that has just been sent, alone.
LEMMA SentIs ==
  ASSUME NEW task, NEW e, NEW arg, NEW m, m = Send(task, e, arg)
  PROVE  m.task = task /\ m.by = e /\ m.arg = arg /\ m.pc = "queued"
  BY DEF Send

\* The canvas goes to a stage of work and tells something.
LEMMA TellingStep ==
  ASSUME Prompt, WInv, IInv, Calm, NEW e \in Request, stage[e] \in ActiveStage,
         NEW to \in WorkStage, NEW task \in {"set_task_status", "event_progress", "record_chain_id"},
         NEW arg, task = "set_task_status" => Tells(req[e].op, arg),
         req' = req, row' = row, stage' = [stage EXCEPT ![e] = to],
         NEW m, m.task = task /\ m.by = e /\ m.arg = arg /\ m.pc = "queued",
         msgs' = msgs \cup {m}
  PROVE  WInv' /\ [Workflow!WNext]_(Workflow!wvars)
<1>2. m.task = task /\ m.by = e /\ m.arg = arg /\ m.pc = "queued"
  OBVIOUS
<1>3. msgs' = {m}
  BY CalmIs
<1>4. AtWork(e) /\ req[e].op \in StartOp
  BY StagesWork
<1>5. stage'[e] = to /\ \A q \in Request \ {e} : stage'[q] = stage[q]
  BY DEF IInv, TypeOK
<1>6. ~Saving(e)' /\ Pending(e)'
  BY <1>4, <1>5 DEF Saving, Pending, WorkStage, ActiveStage, GenStage, LossStage
<1>7. Fits(m)'
  BY <1>2, <1>4, <1>5 DEF Fits, Tells
<1>8. Together(m, m)
  BY DEF Together
<1> QED
  BY <1>2, <1>3, <1>4, <1>5, <1>6, <1>7, <1>8, CanvasMove

\* The start_* task sends the chain.
LEMMA StartChainW ==
  ASSUME Prompt, WInv, IInv, NEW e \in Request, StartChain(e)
  PROVE  WInv' /\ [Workflow!WNext]_(Workflow!wvars)
<1>1. /\ stage[e] = "start" /\ Calm /\ stage' = [stage EXCEPT ![e] = FirstStage(req[e].op)]
      /\ msgs' = msgs \cup {ChainId(e)}
      /\ req' = req /\ row' = row
  BY DEF StartChain
<1>3. /\ ChainId(e).task = "record_chain_id" /\ ChainId(e).by = e
      /\ ChainId(e).arg = "NEW" /\ ChainId(e).pc = "queued"
  BY DEF ChainId, Send
<1>2. FirstStage(req[e].op) \in WorkStage /\ stage[e] \in ActiveStage
  BY <1>1 DEF FirstStage, WorkStage, ActiveStage
<1> QED
  BY <1>1, <1>2, <1>3, TellingStep

\* The first sub-task of a half, and write_input_files without keys, tell the status.
LEMMA NotifyingStepsW ==
  ASSUME Prompt, WInv, IInv, NEW e \in Request, GenParams(e) \/ LossParams(e) \/ NoKeys(e)
  PROVE  WInv' /\ [Workflow!WNext]_(Workflow!wvars)
<1>1. ASSUME NEW from \in GenStage, NEW to \in WorkStage,
             NEW status \in {"INPUTS_GENERATION_STARTED", "INPUTS_GENERATION_NO_KEYS"},
             WorkerStarts(e, from, to, status)
      PROVE  WInv' /\ [Workflow!WNext]_(Workflow!wvars)
  <2>1. /\ stage[e] = from /\ Calm /\ stage' = [stage EXCEPT ![e] = to]
        /\ msgs' = msgs \cup {Send("set_task_status", e, status)}
        /\ req' = req /\ row' = row
    BY <1>1 DEF WorkerStarts
  <2>2. stage[e] \in ActiveStage /\ req[e].op # "run"
    BY <2>1 DEF ActiveStage, IInv, CanvasOK
  <2>3. Tells(req[e].op, status)
    BY <2>2 DEF Tells
  <2>4. PICK m : m = Send("set_task_status", e, status)
    OBVIOUS
  <2>5. m.task = "set_task_status" /\ m.by = e /\ m.arg = status /\ m.pc = "queued"
    BY <2>4, SentIs
  <2> QED
    BY <2>1, <2>2, <2>3, <2>4, <2>5, TellingStep
<1>2. ASSUME WorkerStarts(e, "loss_params", "loss_work", "RUN_STARTED")
      PROVE  WInv' /\ [Workflow!WNext]_(Workflow!wvars)
  <2>1. /\ stage[e] = "loss_params" /\ Calm /\ stage' = [stage EXCEPT ![e] = "loss_work"]
        /\ msgs' = msgs \cup {Send("set_task_status", e, "RUN_STARTED")}
        /\ req' = req /\ row' = row
    BY <1>2 DEF WorkerStarts
  <2>2. stage[e] \in ActiveStage /\ req[e].op # "generate_inputs" /\ "loss_work" \in WorkStage
    BY <2>1 DEF ActiveStage, LossStage, WorkStage, IInv, CanvasOK
  <2>3. Tells(req[e].op, "RUN_STARTED")
    BY <2>2 DEF Tells
  <2>4. PICK m : m = Send("set_task_status", e, "RUN_STARTED")
    OBVIOUS
  <2>5. m.task = "set_task_status" /\ m.by = e /\ m.arg = "RUN_STARTED" /\ m.pc = "queued"
    BY <2>4, SentIs
  <2> QED
    BY <2>1, <2>2, <2>3, <2>4, <2>5, TellingStep
<1>3. /\ {"gen_params", "gen_files", "no_keys", "no_keys_2"} \subseteq GenStage
      /\ {"gen_files", "no_keys", "no_keys_2", "no_keys_3"} \subseteq WorkStage
  BY DEF GenStage, WorkStage
<1>4. CASE GenParams(e)
  BY <1>1, <1>3, <1>4 DEF GenParams
<1>5. CASE NoKeys(e)
  BY <1>1, <1>3, <1>5 DEF NoKeys
<1> QED
  BY <1>2, <1>4, <1>5 DEF LossParams

\* The kernel tells of its progress.
LEMMA ReportProgressW ==
  ASSUME Prompt, WInv, IInv, NEW e \in Request, ReportProgress(e)
  PROVE  WInv' /\ [Workflow!WNext]_(Workflow!wvars)
<1>1. /\ stage[e] = "loss_work" /\ Calm /\ stage' = stage
      /\ msgs' = msgs \cup {Send("event_progress", e, "NEW")}
      /\ req' = req /\ row' = row
  BY DEF ReportProgress
<1>2. stage' = [stage EXCEPT ![e] = "loss_work"]
  BY <1>1 DEF IInv, TypeOK
<1>3. "loss_work" \in WorkStage /\ stage[e] \in ActiveStage
  BY <1>1 DEF WorkStage, ActiveStage, LossStage
<1>4. PICK m : m = Send("event_progress", e, "NEW")
  OBVIOUS
<1>5. m.task = "event_progress" /\ m.by = e /\ m.arg = "NEW" /\ m.pc = "queued"
  BY <1>4, SentIs
<1> QED
  BY <1>1, <1>2, <1>3, <1>4, <1>5, TellingStep

\* A step that leaves the row alone.  A canvas ends when it has no outcome left to
\* report.
LEMMA WorkerStepW ==
  ASSUME Prompt, WInv, IInv, NEW e \in Request, WorkerStep(e)
  PROVE  WInv' /\ [Workflow!WNext]_(Workflow!wvars)
<1>1. /\ stage[e] \in {"gen_files", "gen_cleanup", "loss_work", "loss_cleanup"} /\ Calm
      /\ stage' = [stage EXCEPT ![e] = NextStage(e, stage[e])]
      /\ req' = req /\ row' = row /\ msgs' = msgs
  BY DEF WorkerStep
<1>2. msgs' = {} /\ req[e].pc \notin {"saved", "dispatched"}
  BY <1>1, CalmIs DEF Open
<1>3. stage[e] \in ActiveStage
  BY <1>1 DEF ActiveStage, GenStage, LossStage
<1>4. AtWork(e) /\ req[e].op \in StartOp
  BY <1>3, StagesWork
<1>5. stage'[e] = NextStage(e, stage[e]) /\ \A q \in Request \ {e} : stage'[q] = stage[q]
  BY <1>1 DEF IInv, TypeOK
<1>6. /\ stage[e] = "gen_files" => stage'[e] = "record_inputs"
      /\ stage[e] = "gen_cleanup" =>
           stage'[e] = IF req[e].op = "generate_and_run" THEN "loss_params" ELSE "done"
      /\ stage[e] = "loss_work" => stage'[e] = "record_losses"
      /\ stage[e] = "loss_cleanup" => stage'[e] = "done"
  BY <1>5 DEF NextStage
<1>7. ~Saving(e)'
  BY <1>1, <1>6 DEF Saving
<1>8. Pending(e) => Pending(e)'
  BY <1>1, <1>2, <1>4, <1>6, CalmIs DEF Pending, ActiveStage, GenStage, LossStage
<1> QED
  BY <1>1, <1>2, <1>4, <1>5, <1>7, <1>8, CanvasMove

\* The recorder reads the row.
LEMMA RecordReadW ==
  ASSUME Prompt, WInv, IInv, NEW e \in Request, RecordRead(e)
  PROVE  WInv' /\ [Workflow!WNext]_(Workflow!wvars)
<1>1. /\ stage[e] \in {"record_inputs", "record_losses"} /\ Calm
      /\ stage' = [stage EXCEPT ![e] = IF @ = "record_inputs" THEN "save_inputs" ELSE "save_losses"]
      /\ recObj' = [recObj EXCEPT ![e] = row]
      /\ req' = req /\ row' = row /\ msgs' = msgs
  BY DEF RecordRead
<1>2. msgs' = {}
  BY <1>1, CalmIs
<1>3. stage[e] \in ActiveStage
  BY <1>1 DEF ActiveStage, GenStage, LossStage
<1>4. AtWork(e) /\ req[e].op \in StartOp
  BY <1>3, StagesWork
<1>5. /\ stage'[e] \in {"save_inputs", "save_losses"} /\ recObj'[e] = row
      /\ \A q \in Request \ {e} : stage'[q] = stage[q]
  BY <1>1 DEF IInv, TypeOK
<1>6. Pending(e)'
  BY <1>1, <1>4, <1>5 DEF Pending, ActiveStage, GenStage, LossStage
<1> QED
  BY <1>1, <1>2, <1>4, <1>5, <1>6, CanvasMove

\* A sub-task fails: its errback has an outcome to report, and files may come with it.
LEMMA FailStageW ==
  ASSUME Prompt, WInv, IInv, NEW e \in Request, FailStage(e)
  PROVE  WInv' /\ [Workflow!WNext]_(Workflow!wvars)
<1>1. /\ stage[e] \in ActiveStage /\ Calm
      /\ stage' = [stage EXCEPT ![e] = "failed"]
      /\ req' = req /\ row' = row
  BY DEF FailStage
<1>2. PICK h : h = Send("handle_task_failure", e, FailureStatus(e))
  OBVIOUS
<1>3. PICK f \in ErrorFiles(e) : msgs' = msgs \cup f \cup {h}
  BY <1>2 DEF FailStage
<1>4. /\ h.task = "handle_task_failure" /\ h.by = e /\ h.arg = FailureStatus(e) /\ h.pc = "queued"
  BY <1>2, SentIs
<1>5. f \subseteq {Send("record_input_error_files", e, "NEW")} \/ f \subseteq {Send("record_losses_error_files", e, "NEW")}
  <2>1. f \in CASE stage[e] = "gen_files" -> {{}, {Send("record_input_error_files", e, "NEW")}}
    [] stage[e] \in {"no_keys", "no_keys_2", "no_keys_3"} -> {{Send("record_input_error_files", e, "NEW")}}
    [] stage[e] = "loss_work" -> {{}, {Send("record_losses_error_files", e, "NEW")}}
    [] OTHER -> {{}}
    BY <1>3 DEF ErrorFiles
  <2>2. CASE stage[e] = "gen_files"
    BY <2>1, <2>2
  <2>3. CASE stage[e] \in {"no_keys", "no_keys_2", "no_keys_3"}
    BY <2>1, <2>3
  <2>4. CASE stage[e] = "loss_work"
    BY <2>1, <2>4
  <2>5. CASE stage[e] \notin {"gen_files", "no_keys", "no_keys_2", "no_keys_3", "loss_work"}
    BY <2>1, <2>5
  <2> QED
    BY <2>2, <2>3, <2>4, <2>5
<1>6. PICK t \in ErrorFileTask : f \subseteq {Send(t, e, "NEW")}
  BY <1>5 DEF ErrorFileTask
<1>7. PICK n : n = Send(t, e, "NEW")
  OBVIOUS
<1>8. n.task = t /\ n.by = e /\ n.pc = "queued"
  BY <1>7, SentIs
<1>9. h \in msgs' /\ msgs' \subseteq {n, h}
  BY <1>1, <1>3, <1>6, <1>7, CalmIs
<1>10. AtWork(e) /\ req[e].op \in StartOp
  BY <1>1, StagesWork
<1>11. stage'[e] = "failed" /\ \A q \in Request \ {e} : stage'[q] = stage[q]
  BY <1>1 DEF IInv, TypeOK
<1>12. Tells(req[e].op, h.arg) /\ h.arg \in {"RUN_ERROR", "INPUTS_GENERATION_ERROR"}
  BY <1>1, <1>4 DEF IInv, CanvasOK, FailureStatus, Tells, ActiveStage, GenStage, LossStage
<1>13. Fits(h)' /\ Fits(n)'
  BY <1>1, <1>4, <1>8, <1>10, <1>12 DEF Fits, ErrorFileTask, Tells
<1>14. Together(h, h) /\ Together(n, n) /\ Together(h, n) /\ Together(n, h)
  BY <1>4, <1>8 DEF Together
<1>15. ~Saving(e)' /\ Pending(e)'
  BY <1>1, <1>4, <1>9, <1>10, <1>11 DEF Saving, Pending
<1>16. \A m \in msgs' : m.by = e /\ Fits(m)' /\ (\A k \in msgs' : Together(m, k))
  <2>1. \A m \in msgs' : m = n \/ m = h
    BY <1>9
  <2> QED
    BY <1>4, <1>8, <1>13, <1>14, <2>1
<1> QED
  BY <1>1, <1>10, <1>11, <1>15, <1>16, CanvasMove

\* The recorder saves the row that it read, with its outcome.
LEMMA RecordW ==
  ASSUME WInv, IInv, NEW e \in Request, RecordInputFiles(e) \/ RecordLossesFiles(e)
  PROVE  WInv' /\ [Workflow!WNext]_(Workflow!wvars)
<1>1. /\ Saving(e) /\ req' = req /\ msgs' = msgs
      /\ \/ stage[e] = "save_inputs" /\ row' = InputsRecorded(e, recObj[e]) /\ stage' = [stage EXCEPT ![e] = "gen_cleanup"]
         \/ stage[e] = "save_losses" /\ row' = LossesRecorded(e, recObj[e]) /\ stage' = [stage EXCEPT ![e] = "loss_cleanup"]
  BY DEF RecordInputFiles, RecordLossesFiles, Saving
<1>2. /\ msgs = {} /\ recObj[e] = row /\ row \in Row
      /\ \A q \in Request : (Saving(q) => q = e) /\ ~Open(q)
  BY <1>1 DEF WInv, SavingAlone, OpenAlone, IInv, TypeOK
<1>3. stage[e] \in ActiveStage
  BY <1>1 DEF Saving, ActiveStage, GenStage, LossStage
<1>4. AtWork(e) /\ req[e].op \in StartOp
  BY <1>3, StagesWork
<1>5. /\ stage'[e] \in {"gen_cleanup", "loss_cleanup"}
      /\ \A q \in Request \ {e} : stage'[q] = stage[q]
  BY <1>1 DEF IInv, TypeOK
<1>6. \/ row'.status = "READY" /\ row'.input = e /\ req[e].op # "run"
      \/ row'.status = "RUN_COMPLETED" /\ row'.output = e /\ row'.input = row.input /\ req[e].op # "generate_inputs"
  <2>1. CASE stage[e] = "save_inputs"
    BY <1>1, <1>2, <2>1 DEF InputsRecorded, Row, IInv, CanvasOK, GenStage
  <2>2. CASE stage[e] = "save_losses"
    BY <1>1, <1>2, <2>2 DEF LossesRecorded, Row, IInv, CanvasOK, LossStage
  <2> QED
    BY <1>1, <2>1, <2>2
<1>7. OpenAlone' /\ SavingAlone' /\ Messages'
  BY <1>1, <1>2, <1>5 DEF OpenAlone, Open, SavingAlone, Saving, Messages
<1>8. Waited'
  BY <1>6 DEF Waited, InputsActive, RunActive
<1>9. ~CancelPending /\ ~CancelPending'
  BY <1>1, <1>2 DEF CancelPending, Open
<1>10. UnderWay(e) /\ \A q \in Request \ {e} : UnderWay(q)' <=> UnderWay(q)
  BY <1>1, <1>2, <1>4, <1>5, <1>9 DEF UnderWay, AtWork
<1>11. e # NoKey
  OBVIOUS
<1>12. [Workflow!WNext]_(Workflow!wvars)
  BY <1>1, <1>4, <1>6, <1>7, <1>8, <1>10, <1>11, ReportStep
<1> QED
  BY <1>7, <1>8, <1>12 DEF WInv

\* Who is around while the monitor has anything but a cancel_subtasks to do: nobody.
LEMMA MonitorAlone ==
  ASSUME WInv, NEW m \in msgs, m.task # "cancel_subtasks"
  PROVE  \A r \in Request : ~Open(r) /\ ~Saving(r) /\ req[r].pc # "cancelling"
  BY DEF WInv, OpenAlone, SavingAlone, Open

\* A task of the monitor ends.  If it was the last to bring an outcome, the status
\* does not wait any more.
LEMMA MonitorEnds ==
  ASSUME WInv, IInv, NEW m \in msgs, m.task # "cancel_subtasks",
         req' = req, stage' = stage, owner' = owner, msgs' = msgs \ {m},
         req[m.by].op = "run" => row'.input = row.input,
         m.task # "handle_task_failure" /\ m.task # "set_task_status" => row'.status = row.status,
         m.task = "handle_task_failure" => row'.status \notin InputsActive \cup RunActive,
         \/ row'.status = row.status
         \/ Tells(req[m.by].op, row'.status) /\ row.status \notin Cancelled
  PROVE  WInv' /\ [Workflow!WNext]_(Workflow!wvars)
<1>1. \A r \in Request : ~Open(r) /\ ~Saving(r) /\ req[r].pc # "cancelling"
  BY MonitorAlone
<1>2. m.by \in Request /\ Fits(m) /\ \A n \in msgs : Fits(n) /\ Together(m, n)
  BY DEF WInv, Messages, IInv, TypeOK, Msg
<1>3. req[m.by].op \in StartOp
  BY <1>2 DEF Fits
<1>4. OpenAlone' /\ SavingAlone'
  BY <1>1 DEF OpenAlone, Open, SavingAlone, Saving
<1>5. Messages'
  <2>1. \A n \in msgs' : /\ n \in msgs /\ n # m /\ n.by = m.by /\ Fits(n)
                         /\ n.task # "cancel_subtasks"
                         /\ n.task \in ErrorFileTask \/ m.task \in ErrorFileTask
    BY <1>2 DEF Together, ErrorFileTask
  <2>2. m.task \in ErrorFileTask => row'.status = row.status
    BY DEF ErrorFileTask
  <2>3. \A n \in msgs' : Fits(n)'
    BY <2>1, <2>2 DEF Fits, Tells, WorkStage
  <2>4. \A n, k \in msgs' : Together(n, k)
    BY DEF WInv, Messages, Together
  <2> QED
    BY <2>3, <2>4 DEF Messages, Together
<1>6. Waited'
  <2> SUFFICES ASSUME row'.status \in InputsActive \cup RunActive
               PROVE  \E e \in Request : Pending(e)'
    BY DEF Waited
  <2>1. m.task # "handle_task_failure"
    OBVIOUS
  <2>2. CASE m.task = "set_task_status"
    <3>1. stage[m.by] \in WorkStage
      BY <1>2, <2>2 DEF Fits
    <3>2. Pending(m.by)'
      BY <1>3, <3>1 DEF Pending, WorkStage, ActiveStage, GenStage, LossStage
    <3> QED
      BY <1>2, <3>2
  <2>3. CASE m.task # "set_task_status"
    <3>1. row.status \in InputsActive \cup RunActive
      BY <2>1, <2>3
    <3>2. PICK e \in Request : Pending(e)
      BY <1>1, <3>1 DEF WInv, Waited
    <3>3. Pending(e)'
      BY <2>1, <3>2 DEF Pending
    <3> QED
      BY <3>3
  <2> QED
    BY <2>2, <2>3
<1>7. ~CancelPending /\ ~CancelPending'
  BY <1>1 DEF CancelPending
<1>8. UnderWay(m.by) /\ \A q \in Request \ {m.by} : UnderWay(q)' <=> UnderWay(q)
  BY <1>2, <1>3, <1>7 DEF UnderWay, AtWork
<1>9. [Workflow!WNext]_(Workflow!wvars)
  BY <1>2, <1>3, <1>4, <1>6, <1>8, ReportStep
<1> QED
  BY <1>4, <1>5, <1>6, <1>9 DEF WInv

\* A task of the monitor reads the row, or is put back into the queue.
LEMMA MonitorGoesOn ==
  ASSUME WInv, IInv, NEW m \in msgs, m.task # "cancel_subtasks", NEW n,
         req' = req, stage' = stage, owner' = owner, row' = row, msgs' = (msgs \ {m}) \cup {n},
         n.task = m.task, n.by = m.by, n.arg = m.arg,
         n.pc = "read" => n.obj = row /\ n.task \notin ErrorFileTask
  PROVE  WInv' /\ [Workflow!WNext]_(Workflow!wvars)
<1>1. \A r \in Request : ~Open(r) /\ ~Saving(r) /\ req[r].pc # "cancelling"
  BY MonitorAlone
<1>2. m.by \in Request /\ Fits(m) /\ \A k \in msgs : Fits(k)
  BY DEF WInv, Messages, IInv, TypeOK, Msg
<1>3. OpenAlone' /\ SavingAlone'
  BY <1>1 DEF OpenAlone, Open, SavingAlone, Saving
<1>4. Messages'
  <2>1. \A k \in msgs' : Fits(k)'
    BY <1>2 DEF Fits, Tells, WorkStage
  <2>2. \A k \in msgs \ {m} : Together(m, k) /\ Together(k, m)
    BY DEF WInv, Messages
  <2>3. \A k \in msgs \ {m} : Together(n, k) /\ Together(k, n)
    BY <2>2 DEF Together
  <2>4. \A k, l \in msgs' : Together(k, l)
    BY <2>3 DEF WInv, Messages, Together
  <2> QED
    BY <2>1, <2>4 DEF Messages, Together
<1>5. \A e \in Request : Pending(e) => Pending(e)'
  BY DEF Pending
<1>6. Waited'
  BY <1>1, <1>5 DEF WInv, Waited
<1>7. ~CancelPending /\ ~CancelPending'
  BY <1>1 DEF CancelPending
<1>8. \A q \in Request : AtWork(q)' <=> AtWork(q)
  BY DEF AtWork
<1>9. [Workflow!WNext]_(Workflow!wvars)
  BY <1>7, <1>8, UnseenStep DEF UnderWay
<1> QED
  BY <1>3, <1>4, <1>6, <1>9 DEF WInv

\* The tasks of the monitor other than cancel_subtasks.
LEMMA MonitorW ==
  ASSUME WInv, IInv, NEW m \in msgs, Monitor(m), ~CancelSubtasks(m)
  PROVE  WInv' /\ [Workflow!WNext]_(Workflow!wvars)
<1>1. /\ m \in Msg /\ m.by \in Request /\ m.obj \in Row /\ row \in Row /\ Fits(m) /\ MsgOK(m)
  BY DEF WInv, Messages, IInv, TypeOK, Msg
<1>2. CASE ReadRow(m)
  <2>1. PICK n : n = [m EXCEPT !.pc = "read", !.obj = row]
    OBVIOUS
  <2>2. n.task = m.task /\ n.by = m.by /\ n.arg = m.arg /\ n.obj = row
    BY <1>1, <2>1 DEF Msg
  <2>3. /\ m.task \in {"set_task_status", "handle_task_failure", "event_progress"}
        /\ msgs' = (msgs \ {m}) \cup {n}
        /\ req' = req /\ stage' = stage /\ owner' = owner /\ row' = row
    BY <1>2, <2>1 DEF ReadRow
  <2>4. m.task \notin ErrorFileTask
    BY <2>3 DEF ErrorFileTask
  <2> QED
    BY <2>2, <2>3, <2>4, MonitorGoesOn
<1>3. CASE RetryTaskFailure(m)
  <2>1. PICK n : n = [m EXCEPT !.pc = "queued", !.obj = NewRow, !.retries = @ + 1]
    OBVIOUS
  <2>2. n.task = m.task /\ n.by = m.by /\ n.arg = m.arg /\ n.pc = "queued"
    BY <1>1, <2>1 DEF Msg
  <2>3. /\ m.task = "handle_task_failure" /\ msgs' = (msgs \ {m}) \cup {n}
        /\ req' = req /\ stage' = stage /\ owner' = owner /\ row' = row
    BY <1>3, <2>1 DEF RetryTaskFailure
  <2> QED
    BY <2>2, <2>3, MonitorGoesOn
<1>4. CASE SetTaskStatus(m)
  <2>1. /\ m.task = "set_task_status" /\ m.pc = "read" /\ msgs' = msgs \ {m}
        /\ row' = IF m.obj.status \in Cancelled THEN row ELSE [row EXCEPT !.status = m.arg]
        /\ req' = req /\ stage' = stage /\ owner' = owner
    BY <1>4 DEF SetTaskStatus
  <2>2. m.obj.status = row.status /\ Tells(req[m.by].op, m.arg)
    BY <1>1, <2>1 DEF Fits
  <2>3. /\ row'.input = row.input
        /\ row'.status = row.status \/ (row'.status = m.arg /\ row.status \notin Cancelled)
    BY <1>1, <2>1, <2>2 DEF Row
  <2> QED
    BY <2>1, <2>2, <2>3, MonitorEnds
<1>5. CASE HandleTaskFailure(m)
  <2>1. /\ m.task = "handle_task_failure" /\ m.pc = "read" /\ msgs' = msgs \ {m}
        /\ row' = IF m.obj.status \in Cancelled \cup {"INPUTS_GENERATION_NO_KEYS"} THEN m.obj
                  ELSE [m.obj EXCEPT !.status = m.arg]
        /\ req' = req /\ stage' = stage /\ owner' = owner
    BY <1>5 DEF HandleTaskFailure, Failed
  <2>2. /\ m.obj.status = row.status /\ Tells(req[m.by].op, m.arg)
        /\ m.arg \in {"RUN_ERROR", "INPUTS_GENERATION_ERROR"}
        /\ req[m.by].op = "run" => m.obj.input = row.input
    BY <1>1, <2>1 DEF Fits
  <2>3. /\ row'.input = m.obj.input
        /\ \/ row'.status = row.status /\ row.status \in Cancelled \cup {"INPUTS_GENERATION_NO_KEYS"}
           \/ row'.status = m.arg /\ row.status \notin Cancelled
    BY <1>1, <2>1, <2>2 DEF Row
  <2>4. row'.status \notin InputsActive \cup RunActive
    BY <2>2, <2>3 DEF InputsActive, RunActive, Cancelled
  <2> QED
    BY <2>1, <2>2, <2>3, <2>4, MonitorEnds
<1>6. CASE HandleContent(m)
  <2>1. /\ m.task = "event_progress" /\ m.pc = "read" /\ msgs' = msgs \ {m} /\ row' = m.obj
        /\ req' = req /\ stage' = stage /\ owner' = owner
    BY <1>6 DEF HandleContent
  <2>2. m.obj.status = row.status /\ (req[m.by].op = "run" => m.obj.input = row.input)
    BY <1>1, <2>1 DEF Fits
  <2> QED
    BY <2>1, <2>2, MonitorEnds
<1>7. CASE RecordErrorFiles(m)
  <2>1. /\ m.task \in {"record_input_error_files", "record_losses_error_files"} /\ msgs' = msgs \ {m}
        /\ row' = IF m.task = "record_input_error_files"
                  THEN [row EXCEPT !.input = m.by] ELSE [row EXCEPT !.output = m.by]
        /\ req' = req /\ stage' = stage /\ owner' = owner
    BY <1>7 DEF RecordErrorFiles
  <2>2. m.task = "record_input_error_files" => req[m.by].op # "run"
    BY <1>1 DEF MsgOK
  <2>3. /\ row'.status = row.status
        /\ req[m.by].op = "run" => row'.input = row.input
    BY <1>1, <2>1, <2>2 DEF Row
  <2> QED
    BY <2>1, <2>3, MonitorEnds
<1>8. CASE RecordChainId(m)
  <2>1. /\ m.task = "record_chain_id" /\ msgs' = msgs \ {m}
        /\ row' = CASE req[m.by].op = "run" -> [row EXCEPT !.run_task = m.by]
                    [] req[m.by].op = "generate_inputs" ->
                         [row EXCEPT !.gen_task = m.by, !.run_task = m.obj.run_task]
                    [] OTHER -> [row EXCEPT !.gen_task = m.by, !.run_task = m.by]
        /\ req' = req /\ stage' = stage /\ owner' = owner
    BY <1>8 DEF RecordChainId
  <2>2. row'.status = row.status /\ row'.input = row.input
    BY <1>1, <2>1 DEF Row
  <2> QED
    BY <2>1, <2>2, MonitorEnds
<1> QED
  BY <1>2, <1>3, <1>4, <1>5, <1>6, <1>7, <1>8 DEF Monitor

\* cancel_subtasks: nothing is left of it, or the canvas that owns the rows is revoked
\* and its worker says so, which clients do not see before the cancellation is saved.
LEMMA CancelSubtasksW ==
  ASSUME WInv, IInv, NEW m \in msgs, CancelSubtasks(m)
  PROVE  WInv' /\ [Workflow!WNext]_(Workflow!wvars)
<1>1. m.task = "cancel_subtasks" /\ req' = req /\ row' = row /\ owner' = owner
  BY DEF CancelSubtasks
<1>2. m.by \in Request /\ Fits(m) /\ msgs = {m}
  <2>1. \A n \in msgs : n = m
    BY <1>1 DEF WInv, Messages, Together, ErrorFileTask
  <2> QED
    BY <2>1 DEF WInv, Messages, IInv, TypeOK, Msg
<1>3. \A e \in Request : ~Saving(e)
  BY <1>2 DEF WInv, SavingAlone
<1>4. \A r \in Request : Open(r) => req[r].pc = "cancelling"
  BY <1>2 DEF WInv, OpenAlone
<1>5. /\ row.status \in InputsActive \cup RunActive => \E r \in Request : req[r].pc = "cancelling"
      /\ req[m.by].op \in CancelOp \/ (m.by = owner /\ stage[m.by] = "revoked")
  BY <1>1, <1>2 DEF Fits
<1>a. CancelOp \cap StartOp = {}
  BY DEF CancelOp, StartOp
<1>b. CancelPending' <=> CancelPending
  BY <1>1 DEF CancelPending
<1>6. CASE stage' = stage /\ msgs' = msgs \ {m}
  <2>1. msgs' = {} /\ stage' = stage
    BY <1>2, <1>6
  <2>2. OpenAlone' /\ SavingAlone' /\ Messages'
    BY <1>1, <1>3, <2>1 DEF WInv, OpenAlone, Open, SavingAlone, Saving, Messages
  <2>3. \A e \in Request : Pending(e) => Pending(e)'
    BY <1>1, <1>2, <2>1 DEF Pending
  <2>4. Waited'
    BY <1>1, <2>1, <2>3 DEF WInv, Waited
  <2>5. \A q \in Request \ {m.by} : AtWork(q)' <=> AtWork(q)
    BY <1>1, <1>2, <2>1 DEF AtWork
  <2>6. CASE req[m.by].op \in CancelOp
    <3>1. ~AtWork(m.by) /\ ~AtWork(m.by)'
      BY <1>1, <1>a, <2>6 DEF AtWork
    <3>2. \A q \in Request : AtWork(q)' <=> AtWork(q)
      BY <2>5, <3>1
    <3>3. \A q \in Request : UnderWay(q)' <=> UnderWay(q)
      BY <1>1, <1>b, <2>1, <3>2 DEF UnderWay
    <3>4. [Workflow!WNext]_(Workflow!wvars)
      BY <1>1, <3>3, UnseenStep
    <3> QED
      BY <2>2, <2>4, <3>4 DEF WInv
  <2>7. CASE m.by = owner /\ stage[m.by] = "revoked"
    <3>1. req[m.by].op \in StartOp
      BY <1>2, <2>7 DEF IInv, CanvasOK
    <3>2. AtWork(m.by)
      BY <3>1 DEF AtWork
    <3>3. \A q \in Request \ {m.by} : UnderWay(q)' <=> UnderWay(q)
      BY <1>1, <2>5, <2>7 DEF UnderWay
    <3>4. UnderWay(m.by)
      BY <3>2 DEF UnderWay
    <3>5. [Workflow!WNext]_(Workflow!wvars)
      BY <1>1, <1>2, <2>2, <2>4, <3>1, <3>3, <3>4, ReportStep
    <3> QED
      BY <2>2, <2>4, <3>5 DEF WInv
  <2> QED
    BY <1>5, <2>6, <2>7
<1>7. CASE /\ owner \in Request
           /\ stage[owner] \in GenStage \cup LossStage
           /\ stage' = [stage EXCEPT ![owner] = "revoked"]
           /\ msgs' = (msgs \ {m}) \cup {Send("cancel_subtasks", owner, "NEW")}
  <2>1. PICK n : n = Send("cancel_subtasks", owner, "NEW")
    OBVIOUS
  <2>2. n.task = "cancel_subtasks" /\ n.by = owner /\ n.pc = "queued"
    BY <2>1, SentIs
  <2>3. /\ msgs' = {n} /\ stage'[owner] = "revoked"
        /\ \A q \in Request \ {owner} : stage'[q] = stage[q]
    BY <1>2, <1>7, <2>1 DEF IInv, TypeOK
  <2>4. req[m.by].op \in CancelOp
    BY <1>5, <1>7 DEF GenStage, LossStage
  <2>5. stage[owner] \in ActiveStage
    BY <1>7 DEF ActiveStage
  <2>6. AtWork(owner) /\ req[owner].op \in StartOp
    BY <1>7, <2>5, StagesWork
  <2>7. OpenAlone'
    BY <1>1, <1>3, <1>4, <2>2, <2>3 DEF WInv, OpenAlone, Open, Saving
  <2>8. SavingAlone'
    BY <1>3, <2>3 DEF SavingAlone, Saving
  <2>9. Fits(n)'
    BY <1>1, <1>5, <2>2, <2>3 DEF Fits
  <2>10. Messages'
    BY <2>3, <2>9 DEF Messages, Together
  <2>11. Waited'
    BY <1>1, <1>5, <1>7, <2>3 DEF Waited
  <2>a. PICK o \in Request : o = owner
    BY <1>7
  <2>12. AtWork(o)' /\ AtWork(o)
    BY <1>1, <2>2, <2>3, <2>6, <2>a DEF AtWork
  <2>13. \A q \in Request \ {owner} : AtWork(q)' <=> AtWork(q)
    BY <1>1, <1>2, <1>a, <2>2, <2>3, <2>4 DEF AtWork
  <2>14. \A q \in Request : AtWork(q)' <=> AtWork(q)
    BY <2>12, <2>13, <2>a
  <2>15. \A q \in Request : UnderWay(q)' <=> UnderWay(q)
    BY <2>12, <2>14 DEF UnderWay
  <2>16. [Workflow!WNext]_(Workflow!wvars)
    BY <1>1, <2>15, UnseenStep
  <2> QED
    BY <2>7, <2>8, <2>10, <2>11, <2>16 DEF WInv
<1> QED
  BY <1>6, <1>7 DEF CancelSubtasks

-----------------------------------------------------------------------------
(* Requests.                                                               *)

ReqRec == [op : StartOp \cup CancelOp,
           pc : {"idle", "begun", "saved", "dispatched", "cancelling", "done"}, obj : Row]

\* What an open request finds: nothing has changed since it read the row, and its own
\* work is not under way before it is saved.
LEMMA OpenIs ==
  ASSUME WInv, IInv, NEW r \in Request, Open(r)
  PROVE  /\ req[r] \in ReqRec /\ req[r].obj \in Row /\ row \in Row /\ DOMAIN req = Request
         /\ \A q \in Request : (Open(q) => q = r) /\ ~Saving(q)
         /\ req[r].pc # "cancelling" => msgs = {}
         /\ req[r].obj.status = row.status /\ req[r].obj.input = row.input
         /\ req[r].obj.output = row.output
         /\ req[r].op \in StartOp \cup {"cancel"}
         /\ req[r].pc # "dispatched" => stage[r] = "none"
<1>1. req[r] \in ReqRec /\ req[r].obj \in Row /\ row \in Row /\ DOMAIN req = Request
  BY DEF IInv, TypeOK, ReqRec
<1>2. /\ \A q \in Request : (Open(q) => q = r) /\ ~Saving(q)
      /\ req[r].pc # "cancelling" => msgs = {}
      /\ req[r].obj.status = row.status /\ req[r].obj.input = row.input
      /\ req[r].obj.output = row.output
      /\ req[r].op \in StartOp \cup {"cancel"}
  BY DEF WInv, OpenAlone
<1>3. req[r].pc # "dispatched" => stage[r] = "none"
  BY DEF IInv, CanvasOK, Open
<1> QED
  BY <1>1, <1>2, <1>3

\* The end of a request.
LEMMA FinishIs ==
  ASSUME IInv, NEW r \in Request, req' = Finish(r)
  PROVE  /\ req'[r].pc = "done" /\ req'[r].op = req[r].op
         /\ \A q \in Request \ {r} : req'[q] = req[q]
<1>1. req[r] \in ReqRec /\ DOMAIN req = Request
  BY DEF IInv, TypeOK, ReqRec
<1>2. req' = [req EXCEPT ![r] = [req[r] EXCEPT !.pc = "done", !.obj = NewRow]]
  BY <1>1 DEF Finish
<1> QED
  BY <1>1, <1>2 DEF ReqRec

\* A request is read when it is alone.
LEMMA BeginRequestW ==
  ASSUME Prompt, Ops \subseteq StartOp \cup {"cancel"},
         WInv, IInv, NEW r \in Request, NEW op \in Ops, BeginRequest(r, op)
  PROVE  WInv' /\ [Workflow!WNext]_(Workflow!wvars)
<1>1. /\ req[r].pc = "idle" /\ Calm
      /\ req' = [req EXCEPT ![r] = [op |-> op, pc |-> "begun", obj |-> row]]
      /\ row' = row /\ stage' = stage /\ msgs' = msgs /\ owner' = owner /\ recObj' = recObj
  BY DEF BeginRequest
<1>2. /\ msgs = {} /\ msgs' = {}
      /\ \A q \in Request : ~Open(q) /\ ~Saving(q) /\ req[q].pc # "cancelling"
  BY <1>1, CalmIs
<1>3. DOMAIN req = Request
  BY DEF IInv, TypeOK
<1>4. /\ req'[r].op = op /\ req'[r].pc = "begun" /\ req'[r].obj = row
      /\ \A q \in Request \ {r} : req'[q] = req[q]
  BY <1>1, <1>3
<1>5. stage[r] = "none"
  BY <1>1 DEF IInv, CanvasOK
<1>6. OpenAlone'
  BY <1>1, <1>2, <1>4 DEF OpenAlone, Open, Saving
<1>7. SavingAlone' /\ Messages'
  BY <1>1, <1>2 DEF SavingAlone, Saving, Messages
<1>8. \A q \in Request \ {r} : (AtWork(q)' <=> AtWork(q)) /\ (Pending(q)' <=> Pending(q))
  BY <1>1, <1>4 DEF AtWork, Pending
<1>9. ~AtWork(r) /\ ~AtWork(r)' /\ ~Pending(r)
  BY <1>1, <1>2, <1>4, <1>5 DEF AtWork, Pending, ActiveStage, GenStage, LossStage
<1>10. Waited'
  BY <1>1, <1>2, <1>8, <1>9 DEF WInv, Waited
<1>11. \A q \in Request : req'[q].pc # "cancelling"
  BY <1>2, <1>4
<1>12. ~CancelPending /\ ~CancelPending'
  BY <1>2, <1>11 DEF CancelPending
<1>13. \A q \in Request : (UnderWay(q)' <=> UnderWay(q)) /\ (UnderWay(q) => req'[q].op = req[q].op)
  BY <1>4, <1>8, <1>9, <1>12 DEF UnderWay
<1>14. [Workflow!WNext]_(Workflow!wvars)
  BY <1>1, <1>13, UnseenStep
<1> QED
  BY <1>6, <1>7, <1>10, <1>14 DEF WInv

\* The row is saved as queued: clients see their request accepted.
LEMMA SaveQueuedW ==
  ASSUME WInv, IInv, NEW r \in Request, SaveQueued(r)
  PROVE  WInv' /\ [Workflow!WNext]_(Workflow!wvars)
<1>1. /\ req[r].pc = "begun" /\ req[r].op \in StartOp /\ StartValid(req[r].op, req[r].obj)
      /\ row' = ResetFor(req[r].op, req[r].obj)
      /\ stage' = stage /\ msgs' = msgs /\ owner' = owner /\ recObj' = recObj
  BY DEF SaveQueued
<1>2. Open(r)
  BY <1>1 DEF Open
<1>3. PICK obj \in Row : obj = req[r].obj
  BY <1>2, OpenIs
<1>4. /\ req[r] \in ReqRec /\ row \in Row /\ DOMAIN req = Request /\ msgs = {} /\ stage[r] = "none"
      /\ obj.status = row.status /\ obj.input = row.input /\ obj.output = row.output
      /\ (\A q \in Request : (Open(q) => q = r) /\ ~Saving(q))
  BY <1>1, <1>2, <1>3, OpenIs
<1>5. req' = [req EXCEPT ![r] = [req[r] EXCEPT !.pc = "saved", !.obj = row']]
  BY <1>1, <1>4 DEF SaveQueued
<1>6. /\ req'[r].pc = "saved" /\ req'[r].op = req[r].op /\ req'[r].obj = row'
      /\ \A q \in Request \ {r} : req'[q] = req[q]
  BY <1>4, <1>5 DEF ReqRec
<1>7. /\ row'.output = row.output
      /\ row'.status = IF req[r].op = "run" THEN "RUN_QUEUED" ELSE "INPUTS_GENERATION_QUEUED"
      /\ row'.input = IF req[r].op = "run" THEN row.input ELSE NoKey
  BY <1>1, <1>3, <1>4 DEF ResetFor, Row
<1>8. OpenAlone'
  BY <1>1, <1>4, <1>6 DEF OpenAlone, Open, Saving
<1>9. SavingAlone' /\ Messages'
  BY <1>1, <1>4 DEF SavingAlone, Saving, Messages
<1>10. /\ \A q \in Request : req[q].pc # "cancelling" /\ req'[q].pc # "cancelling"
  BY <1>1, <1>4, <1>6 DEF Open
<1>11. ~CancelPending /\ ~CancelPending'
  BY <1>10 DEF CancelPending
<1>12. ~AtWork(r) /\ AtWork(r)' /\ Pending(r)'
  BY <1>1, <1>4, <1>6 DEF AtWork, Pending, ActiveStage, GenStage, LossStage
<1>13. \A q \in Request \ {r} : AtWork(q)' <=> AtWork(q)
  BY <1>1, <1>6 DEF AtWork
<1>14. Waited'
  BY <1>12 DEF Waited
<1>15. ~UnderWay(r) /\ UnderWay(r)' /\ \A q \in Request \ {r} : UnderWay(q)' <=> UnderWay(q)
  BY <1>11, <1>12, <1>13 DEF UnderWay
<1>16. PICK busy : busy = [q \in Request |-> IF UnderWay(q) THEN KindsOf(req[q].op) ELSE {}]
  OBVIOUS
<1>17. PICK next : next = [q \in Request |-> IF UnderWay(q) THEN KindsOf(req[q].op) ELSE {}]'
  OBVIOUS
<1>18. \A q \in Request : next[q] = IF UnderWay(q)' THEN KindsOf(req[q].op) ELSE {}
  BY <1>6, <1>17 DEF KindsOf
<1>19. busy[r] = {} /\ next = [busy EXCEPT ![r] = KindsOf(req[r].op)]
  <2>1. busy[r] = {} /\ next[r] = KindsOf(req[r].op) /\ \A q \in Request \ {r} : next[q] = busy[q]
    BY <1>15, <1>16, <1>18
  <2> QED
    BY <1>16, <1>17, <2>1
<1>20. ASSUME req[r].op = "run" PROVE [Workflow!WNext]_(Workflow!wvars)
  <2>1. row.status \in RUN_VALID_STATUSES /\ row.input # NoKey
    BY <1>1, <1>3, <1>4, <1>20 DEF StartValid
  <2>2. {f \in {"input", "output"} : row[f] # NoKey}' = {f \in {"input", "output"} : row[f] # NoKey}
    BY <1>7, <1>20
  <2>3. next = [busy EXCEPT ![r] = {"run"}]
    BY <1>19, <1>20 DEF KindsOf
  <2>4. Workflow!QueueRun(r)
    BY <1>7, <1>16, <1>17, <1>19, <1>20, <2>1, <2>2, <2>3
       DEF Workflow!QueueRun, RUN_VALID_STATUSES, Workflow!RUN_VALID_STATUSES
  <2> QED
    BY <2>4 DEF Workflow!WNext
<1>21. ASSUME req[r].op # "run" PROVE [Workflow!WNext]_(Workflow!wvars)
  <2>1. row.status \in INPUTS_GENERATION_VALID_STATUSES
    BY <1>1, <1>3, <1>4, <1>21 DEF StartValid
  <2>2. {f \in {"input", "output"} : row[f] # NoKey}'
          = {f \in {"input", "output"} : row[f] # NoKey} \ {"input"}
    BY <1>7, <1>21
  <2>3. PICK kinds \in {{"inputs"}, {"inputs", "run"}} : kinds = KindsOf(req[r].op)
    BY <1>21 DEF KindsOf
  <2>4. Workflow!QueueInputs(r, kinds)
    BY <1>7, <1>16, <1>17, <1>19, <1>21, <2>1, <2>2, <2>3
       DEF Workflow!QueueInputs, INPUTS_GENERATION_VALID_STATUSES,
           Workflow!INPUTS_GENERATION_VALID_STATUSES
  <2> QED
    BY <2>3, <2>4 DEF Workflow!WNext
<1> QED
  BY <1>8, <1>9, <1>14, <1>20, <1>21 DEF WInv

\* The start_* task is sent: clients see nothing of it.
LEMMA DispatchW ==
  ASSUME WInv, IInv, NEW r \in Request, Dispatch(r)
  PROVE  WInv' /\ [Workflow!WNext]_(Workflow!wvars)
<1>1. /\ req[r].pc = "saved" /\ stage' = [stage EXCEPT ![r] = "start"]
      /\ row' = row /\ msgs' = msgs /\ owner' = owner /\ recObj' = recObj
      /\ req' = [req EXCEPT ![r].pc = "dispatched", ![r].obj.run_mode = "V2"]
  BY DEF Dispatch
<1>2. Open(r)
  BY <1>1 DEF Open
<1>3. /\ req[r] \in ReqRec /\ req[r].obj \in Row /\ DOMAIN req = Request /\ msgs = {}
      /\ req[r].obj.status = row.status /\ req[r].obj.input = row.input
      /\ req[r].obj.output = row.output
      /\ (\A q \in Request : (Open(q) => q = r) /\ ~Saving(q))
  BY <1>1, <1>2, OpenIs
<1>4. req[r].op \in StartOp
  BY <1>1 DEF IInv, CanvasOK
<1>5. PICK obj : obj = [req[r].obj EXCEPT !.run_mode = "V2"]
  OBVIOUS
<1>6. obj.status = row.status /\ obj.input = row.input /\ obj.output = row.output
  BY <1>3, <1>5 DEF Row
<1>7. req' = [req EXCEPT ![r] = [req[r] EXCEPT !.pc = "dispatched", !.obj = obj]]
  BY <1>1, <1>3, <1>5 DEF ReqRec
<1>8. /\ req'[r].pc = "dispatched" /\ req'[r].op = req[r].op /\ req'[r].obj = obj
      /\ \A q \in Request \ {r} : req'[q] = req[q]
  BY <1>3, <1>7 DEF ReqRec
<1>9. stage'[r] = "start" /\ \A q \in Request \ {r} : stage'[q] = stage[q]
  BY <1>1 DEF IInv, TypeOK
<1>10. OpenAlone'
  BY <1>1, <1>3, <1>4, <1>6, <1>8, <1>9 DEF OpenAlone, Open, Saving
<1>11. SavingAlone' /\ Messages'
  BY <1>1, <1>3, <1>9 DEF SavingAlone, Saving, Messages
<1>12. /\ \A q \in Request : req[q].pc # "cancelling" /\ req'[q].pc # "cancelling"
  BY <1>1, <1>3, <1>8 DEF Open
<1>13. ~CancelPending /\ ~CancelPending'
  BY <1>12 DEF CancelPending
<1>14. AtWork(r) /\ AtWork(r)' /\ Pending(r)'
  BY <1>1, <1>4, <1>8 DEF AtWork, Pending
<1>15. \A q \in Request \ {r} : AtWork(q)' <=> AtWork(q)
  BY <1>1, <1>8, <1>9 DEF AtWork
<1>16. Waited'
  BY <1>14 DEF Waited
<1>17. \A q \in Request : (UnderWay(q)' <=> UnderWay(q)) /\ req'[q].op = req[q].op
  BY <1>8, <1>13, <1>14, <1>15 DEF UnderWay
<1>18. [Workflow!WNext]_(Workflow!wvars)
  BY <1>1, <1>17, UnseenStep
<1> QED
  BY <1>10, <1>11, <1>16, <1>18 DEF WInv

\* The request ends with the task id in the row; the canvas has not begun yet.
LEMMA RecordDispatchW ==
  ASSUME WInv, IInv, NEW r \in Request, RecordDispatch(r)
  PROVE  WInv' /\ [Workflow!WNext]_(Workflow!wvars)
<1>1. /\ req[r].pc = "dispatched" /\ req' = Finish(r)
      /\ row' = IF req[r].op = "run" THEN [req[r].obj EXCEPT !.run_task = r]
                                     ELSE [req[r].obj EXCEPT !.gen_task = r]
      /\ stage' = stage /\ msgs' = msgs /\ owner' = owner /\ recObj' = recObj
  BY DEF RecordDispatch, WithDispatchId
<1>2. Open(r)
  BY <1>1 DEF Open
<1>3. PICK obj \in Row : obj = req[r].obj
  BY <1>2, OpenIs
<1>4. /\ msgs = {} /\ obj.status = row.status /\ obj.input = row.input /\ obj.output = row.output
      /\ (\A q \in Request : (Open(q) => q = r) /\ ~Saving(q))
  BY <1>1, <1>2, <1>3, OpenIs
<1>5. stage[r] = "start" /\ req[r].op \in StartOp
  BY <1>1, <1>2 DEF WInv, OpenAlone
<1>6. /\ req'[r].pc = "done" /\ req'[r].op = req[r].op
      /\ \A q \in Request \ {r} : req'[q] = req[q]
  BY <1>1, FinishIs
<1>7. row'.status = row.status /\ row'.input = row.input /\ row'.output = row.output
  BY <1>1, <1>3, <1>4 DEF Row
<1>8. OpenAlone' /\ SavingAlone' /\ Messages'
  BY <1>1, <1>4, <1>6 DEF OpenAlone, Open, SavingAlone, Saving, Messages
<1>9. /\ \A q \in Request : req[q].pc # "cancelling" /\ req'[q].pc # "cancelling"
  BY <1>1, <1>4, <1>6 DEF Open
<1>10. ~CancelPending /\ ~CancelPending'
  BY <1>9 DEF CancelPending
<1>11. AtWork(r) /\ AtWork(r)' /\ Pending(r)'
  BY <1>1, <1>5, <1>6 DEF AtWork, Pending, ActiveStage
<1>12. \A q \in Request \ {r} : AtWork(q)' <=> AtWork(q)
  BY <1>1, <1>6 DEF AtWork
<1>13. Waited'
  BY <1>11 DEF Waited
<1>14. \A q \in Request : (UnderWay(q)' <=> UnderWay(q)) /\ req'[q].op = req[q].op
  BY <1>6, <1>10, <1>11, <1>12 DEF UnderWay
<1>15. [Workflow!WNext]_(Workflow!wvars)
  BY <1>7, <1>14, UnseenStep
<1> QED
  BY <1>8, <1>13, <1>15 DEF WInv

\* A request that is refused, by a start method or by a cancel method, leaves no
\* trace in the row; a refused cancel finds an analysis that does not wait.
LEMMA RejectW ==
  ASSUME WInv, IInv, NEW r \in Request, RejectStart(r) \/ RejectCancel(r)
  PROVE  WInv' /\ [Workflow!WNext]_(Workflow!wvars)
<1>1. /\ req' = Finish(r) /\ row' = row
      /\ stage' = stage /\ msgs' = msgs /\ owner' = owner /\ recObj' = recObj
      /\ \/ req[r].pc = "begun"
         \/ req[r].pc = "cancelling" /\ ~CancelValid(req[r].op, req[r].obj)
  BY DEF RejectStart, RejectCancel
<1>2. Open(r)
  BY <1>1 DEF Open
<1>3. /\ req[r].pc = "begun" => msgs = {}
      /\ req[r].obj.status = row.status /\ stage[r] = "none"
      /\ (\A q \in Request : (Open(q) => q = r) /\ ~Saving(q))
  BY <1>1, <1>2, OpenIs
<1>4. /\ req'[r].pc = "done" /\ req'[r].op = req[r].op
      /\ \A q \in Request \ {r} : req'[q] = req[q]
  BY <1>1, FinishIs
<1>5. req[r].pc = "cancelling" => /\ row.status \notin InputsActive \cup RunActive
                                  /\ req[r].op = "cancel"
                                  /\ \A m \in msgs : m.task = "cancel_subtasks"
  <2>1. req[r].pc = "cancelling" => req[r].op = "cancel" /\ \A m \in msgs : m.task = "cancel_subtasks"
    BY <1>2 DEF WInv, OpenAlone
  <2> QED
    BY <1>1, <1>3, <2>1 DEF CancelValid
<1>6. OpenAlone' /\ SavingAlone'
  BY <1>1, <1>3, <1>4 DEF OpenAlone, Open, SavingAlone, Saving
<1>7. Messages'
  <2>1. \A m \in msgs : m.by \in Request /\ Fits(m) /\ \A n \in msgs : Together(m, n)
    BY DEF WInv, Messages, IInv, TypeOK, Msg
  <2>2. \A q \in Request : req'[q].op = req[q].op
    BY <1>4
  <2>3. \A m \in msgs : Fits(m)'
    BY <1>1, <1>3, <1>5, <2>1, <2>2 DEF Fits
  <2> QED
    BY <1>1, <2>1, <2>3 DEF Messages, Together
<1>8. ~CancelPending /\ ~CancelPending'
  BY <1>1, <1>3, <1>4 DEF CancelPending, Open
<1>9. ~AtWork(r) /\ ~AtWork(r)'
  <2>1. req[r].pc = "begun" => ~AtWork(r) /\ ~AtWork(r)'
    BY <1>1, <1>3, <1>4 DEF AtWork, ActiveStage, GenStage, LossStage
  <2>2. req[r].pc = "cancelling" => ~AtWork(r) /\ ~AtWork(r)'
    BY <1>4, <1>5 DEF AtWork, StartOp
  <2> QED
    BY <1>1, <2>1, <2>2
<1>10. \A q \in Request \ {r} : (AtWork(q)' <=> AtWork(q)) /\ (Pending(q) => Pending(q)')
  BY <1>1, <1>4 DEF AtWork, Pending
<1>11. Waited'
  <2> SUFFICES ASSUME row.status \in InputsActive \cup RunActive
               PROVE  \E q \in Request : Pending(q)'
    BY <1>1 DEF Waited
  <2>1. \A q \in Request : req[q].pc # "cancelling"
    BY <1>1, <1>3, <1>5 DEF Open
  <2>2. PICK q \in Request : Pending(q)
    BY <2>1 DEF WInv, Waited
  <2>3. q # r
    BY <1>9, <2>2, PendingWorks
  <2> QED
    BY <1>10, <2>2, <2>3
<1>12. \A q \in Request : (UnderWay(q)' <=> UnderWay(q)) /\ req'[q].op = req[q].op
  BY <1>4, <1>8, <1>9, <1>10 DEF UnderWay
<1>13. [Workflow!WNext]_(Workflow!wvars)
  BY <1>1, <1>12, UnseenStep
<1> QED
  BY <1>6, <1>7, <1>11, <1>13 DEF WInv

\* A cancel request asks for the sub-tasks to be cancelled: if it will be accepted,
\* there is work, so clients see no change.
LEMMA SendCancelSubtasksW ==
  ASSUME WInv, IInv, NEW r \in Request, SendCancelSubtasks(r)
  PROVE  WInv' /\ [Workflow!WNext]_(Workflow!wvars)
<1>1. PICK m : m = Send("cancel_subtasks", r, "NEW")
  OBVIOUS
<1>2. m.task = "cancel_subtasks" /\ m.by = r /\ m.pc = "queued"
  BY <1>1, SentIs
<1>3. /\ req[r].pc = "begun" /\ req[r].op \in CancelOp
      /\ req' = [req EXCEPT ![r].pc = "cancelling"]
      /\ row' = row /\ stage' = stage /\ owner' = owner /\ recObj' = recObj
      /\ msgs' \subseteq msgs \cup {m}
  BY <1>1 DEF SendCancelSubtasks
<1>4. Open(r)
  BY <1>3 DEF Open
<1>5. /\ req[r] \in ReqRec /\ DOMAIN req = Request
      /\ msgs = {} /\ stage[r] = "none" /\ req[r].op \in StartOp \cup {"cancel"}
      /\ req[r].obj.status = row.status /\ req[r].obj.input = row.input
      /\ req[r].obj.output = row.output
      /\ (\A q \in Request : (Open(q) => q = r) /\ ~Saving(q))
  BY <1>3, <1>4, OpenIs
<1>6. req[r].op = "cancel" /\ req[r].op \notin StartOp
  BY <1>3, <1>5 DEF CancelOp, StartOp
<1>7. req' = [req EXCEPT ![r] = [req[r] EXCEPT !.pc = "cancelling"]]
  BY <1>3, <1>5
<1>8. /\ req'[r].pc = "cancelling" /\ req'[r].op = req[r].op /\ req'[r].obj = req[r].obj
      /\ \A q \in Request \ {r} : req'[q] = req[q]
  BY <1>5, <1>7 DEF ReqRec
<1>9. msgs' \subseteq {m}
  BY <1>3, <1>5
<1>10. OpenAlone'
  BY <1>2, <1>3, <1>5, <1>6, <1>8, <1>9 DEF OpenAlone, Open, Saving
<1>11. SavingAlone'
  BY <1>3, <1>5 DEF SavingAlone, Saving
<1>12. Messages'
  <2>1. Fits(m)'
    BY <1>2, <1>3, <1>8 DEF Fits
  <2> QED
    BY <1>9, <2>1 DEF Messages, Together
<1>13. ~AtWork(r) /\ ~AtWork(r)' /\ ~Pending(r)
  BY <1>6, <1>8 DEF AtWork, Pending
<1>14. \A q \in Request \ {r} : (AtWork(q)' <=> AtWork(q)) /\ (Pending(q) => Pending(q)')
  BY <1>2, <1>3, <1>5, <1>8, <1>9 DEF AtWork, Pending
<1>15. \A q \in Request : req[q].pc # "cancelling"
  BY <1>3, <1>5 DEF Open
<1>16. row.status \in InputsActive \cup RunActive => \E q \in Request \ {r} : Pending(q)
  BY <1>13, <1>15 DEF WInv, Waited
<1>17. Waited'
  BY <1>3, <1>14, <1>16 DEF Waited
<1>18. CancelPending' => \E q \in Request : AtWork(q)
  <2>1. CancelPending' => row.status \in InputsActive \cup RunActive
    BY <1>5, <1>6, <1>8, <1>15 DEF CancelPending, CancelValid
  <2> QED
    BY <1>16, <2>1, PendingWorks
<1>19. ~CancelPending
  BY <1>15 DEF CancelPending
<1>20. \A q \in Request : AtWork(q)' <=> AtWork(q)
  BY <1>13, <1>14
<1>21. \A q \in Request : (UnderWay(q)' <=> UnderWay(q)) /\ req'[q].op = req[q].op
  BY <1>8, <1>18, <1>19, <1>20 DEF UnderWay
<1>22. [Workflow!WNext]_(Workflow!wvars)
  BY <1>3, <1>21, UnseenStep
<1> QED
  BY <1>10, <1>11, <1>12, <1>17, <1>22 DEF WInv

\* A cancellation is accepted; it may get hold of the work.
LEMMA CancelSaveW ==
  ASSUME WInv, IInv, NEW r \in Request, CancelSave(r)
  PROVE  WInv' /\ [Workflow!WNext]_(Workflow!wvars)
<1>1. Open(r) /\ req[r].pc = "cancelling"
  BY DEF CancelSave, Open
<1>2. PICK obj \in Row : obj = req[r].obj
  BY <1>1, OpenIs
<1>3. /\ obj.status = row.status /\ obj.input = row.input /\ obj.output = row.output
      /\ (\A q \in Request : (Open(q) => q = r) /\ ~Saving(q))
  BY <1>1, <1>2, OpenIs
<1>4. req[r].op = "cancel" /\ \A m \in msgs : m.task = "cancel_subtasks"
  BY <1>1 DEF WInv, OpenAlone
<1>5. /\ CancelValid(req[r].op, obj) /\ req' = Finish(r) /\ msgs' = msgs /\ owner' = owner
      /\ row' = [obj EXCEPT !.status = CancelledStatus(obj), !.run_mode = "null"]
      /\ \/ stage' = stage
         \/ \E t \in Request : stage[t] = "start" /\ stage' = [stage EXCEPT ![t] = "revoked"]
  BY <1>2 DEF CancelSave
<1>6. /\ req'[r].pc = "done" /\ req'[r].op = req[r].op
      /\ \A q \in Request \ {r} : req'[q] = req[q]
  BY <1>5, FinishIs
<1>7. /\ row'.status = CancelledStatus(obj)
      /\ row'.input = row.input /\ row'.output = row.output
  BY <1>2, <1>3, <1>5 DEF Row
<1>8. \A q \in Request : stage'[q] = stage[q] \/ (stage[q] = "start" /\ stage'[q] = "revoked")
  BY <1>5 DEF IInv, TypeOK
<1>9. row'.status \notin InputsActive \cup RunActive
  BY <1>7 DEF CancelledStatus, InputsActive, RunActive
<1>10. OpenAlone' /\ SavingAlone'
  BY <1>3, <1>6, <1>8 DEF OpenAlone, Open, SavingAlone, Saving
<1>11. Messages'
  <2>1. \A m \in msgs : m.by \in Request /\ Fits(m) /\ MsgOK(m) /\ \A n \in msgs : Together(m, n)
    BY DEF WInv, Messages, IInv, TypeOK, Msg
  <2>2. \A q \in Request : req'[q].op = req[q].op
    BY <1>6
  <2>3. \A m \in msgs : m.pc # "read"
    BY <1>4, <2>1 DEF Fits
  <2>4. \A m \in msgs : Fits(m)'
    BY <1>4, <1>5, <1>8, <1>9, <2>1, <2>2, <2>3 DEF Fits
  <2> QED
    BY <1>5, <2>1, <2>4 DEF Messages, Together
<1>12. Waited'
  BY <1>9 DEF Waited
<1>13. \A q \in Request : (UnderWay(q)' => UnderWay(q)) /\ req'[q].op = req[q].op
  <2>1. ~CancelPending'
    BY <1>3, <1>6 DEF CancelPending, Open
  <2>2. ~AtWork(r)'
    BY <1>4, <1>6 DEF AtWork, StartOp
  <2>3. \A q \in Request \ {r} : AtWork(q)' => AtWork(q)
    BY <1>5, <1>6, <1>8 DEF AtWork, ActiveStage, GenStage, LossStage
  <2> QED
    BY <1>6, <2>1, <2>2, <2>3 DEF UnderWay
<1>14. [Workflow!WNext]_(Workflow!wvars)
  <2>1. row.status \in InputsActive \cup RunActive
    BY <1>3, <1>4, <1>5 DEF CancelValid
  <2>2. row'.status = IF row.status \in InputsActive THEN "INPUTS_GENERATION_CANCELLED"
                                                     ELSE "RUN_CANCELLED"
    BY <1>3, <1>7 DEF CancelledStatus
  <2>3. {f \in {"input", "output"} : row[f] # NoKey}' = {f \in {"input", "output"} : row[f] # NoKey}
    BY <1>7
  <2>4. PICK busy : busy = [q \in Request |-> IF UnderWay(q) THEN KindsOf(req[q].op) ELSE {}]
    OBVIOUS
  <2>5. PICK next : next = [q \in Request |-> IF UnderWay(q) THEN KindsOf(req[q].op) ELSE {}]'
    OBVIOUS
  <2>6. \A q \in Request : next[q] = IF UnderWay(q)' THEN KindsOf(req[q].op) ELSE {}
    BY <1>13, <2>5 DEF KindsOf
  <2>7. \A q \in Request : KindsOf(req[q].op) \in SUBSET {"inputs", "run"}
    BY DEF KindsOf
  <2>8. next \in [Request -> SUBSET {"inputs", "run"}] /\ \A q \in Request : next[q] \subseteq busy[q]
    BY <1>13, <2>4, <2>5, <2>6, <2>7
  <2>9. Workflow!Cancel
    BY <2>1, <2>2, <2>3, <2>4, <2>5, <2>8
       DEF Workflow!Cancel, Workflow!Active, Workflow!Kind, InputsActive, RunActive,
           Workflow!InputsActive, Workflow!RunActive
  <2> QED
    BY <2>9 DEF Workflow!WNext
<1> QED
  BY <1>10, <1>11, <1>12, <1>14 DEF WInv

\* Before the first request.
LEMMA InitW == Init => WInv /\ Workflow!WInit
<1> SUFFICES ASSUME Init PROVE WInv /\ Workflow!WInit
  OBVIOUS
<1>1. /\ msgs = {}
      /\ row = NewRow \/ row = ReadyRow
      /\ \A r \in Request : req[r].pc = "idle" /\ stage[r] = "none"
  BY DEF Init
<1>2. row.status \notin InputsActive \cup RunActive
  <2>1. NewRow.status = "NEW" /\ ReadyRow.status = "READY"
    BY DEF NewRow, ReadyRow
  <2> QED
    BY <1>1, <2>1 DEF InputsActive, RunActive
<1>3. WInv
  BY <1>1, <1>2 DEF Init, WInv, OpenAlone, Open, SavingAlone, Saving, Messages, Waited
<1>4. \A r \in Request : ~UnderWay(r)
  BY <1>1 DEF Init, UnderWay, AtWork, CancelPending, ActiveStage, GenStage, LossStage
<1>5. \/ row.status = "NEW" /\ {f \in {"input", "output"} : row[f] # NoKey} = {}
      \/ row.status = "READY" /\ {f \in {"input", "output"} : row[f] # NoKey} = {"input"}
  <2>1. CASE row = NewRow
    BY <2>1 DEF NewRow
  <2>2. CASE row = ReadyRow
    <3>1. row.status = "READY" /\ row.input = Prior /\ row.output = NoKey
      BY <2>2 DEF ReadyRow, NewRow
    <3> QED
      BY <3>1
  <2> QED
    BY <1>1, <2>1, <2>2
<1>6. Workflow!WInit
  BY <1>4, <1>5 DEF Workflow!WInit
<1> QED
  BY <1>3, <1>6

\* Run mode V2 implements what an analysis promises its clients, for any number of
\* requests, if requests do not overlap, messages are handled before the next step,
\* and clients cancel with `cancel', which no work under way can refuse.
THEOREM ImplementsWorkflow ==
  Prompt /\ Ops \subseteq StartOp \cup {"cancel"} => (Spec => FollowsWorkflow)
<1> SUFFICES ASSUME Prompt, Ops \subseteq StartOp \cup {"cancel"} PROVE Spec => FollowsWorkflow
  OBVIOUS
<1>1. Init => IInv /\ WInv /\ Workflow!WInit
  BY InitW, InitInv
<1>2. IInv /\ WInv /\ [Next]_vars => IInv' /\ WInv' /\ [Workflow!WNext]_(Workflow!wvars)
  <2> SUFFICES ASSUME IInv, WInv, [Next]_vars PROVE WInv' /\ [Workflow!WNext]_(Workflow!wvars)
    BY StepInv
  <2>1. ASSUME NEW r \in Request, NEW op \in Ops, BeginRequest(r, op)
        PROVE  WInv' /\ [Workflow!WNext]_(Workflow!wvars)
    BY <2>1, BeginRequestW
  <2>2. ASSUME NEW r \in Request, Handler(r)
        PROVE  WInv' /\ [Workflow!WNext]_(Workflow!wvars)
    BY <2>2, SaveQueuedW, DispatchW, RecordDispatchW, RejectW, SendCancelSubtasksW, CancelSaveW
       DEF Handler
  <2>3. ASSUME NEW e \in Request, Canvas(e)
        PROVE  WInv' /\ [Workflow!WNext]_(Workflow!wvars)
    BY <2>3, StartChainW, NotifyingStepsW, WorkerStepW, RecordReadW, RecordW, FailStageW DEF Canvas
  <2>4. ASSUME NEW e \in Request, ReportProgress(e)
        PROVE  WInv' /\ [Workflow!WNext]_(Workflow!wvars)
    BY <2>4, ReportProgressW
  <2>5. ASSUME NEW m \in msgs, Monitor(m)
        PROVE  WInv' /\ [Workflow!WNext]_(Workflow!wvars)
    BY <2>5, MonitorW, CancelSubtasksW
  <2>6. CASE UNCHANGED vars
    <3>1. /\ row' = row /\ req' = req /\ stage' = stage /\ recObj' = recObj /\ msgs' = msgs
          /\ owner' = owner
      BY <2>6 DEF vars
    <3>2. \A r \in Request : (AtWork(r)' <=> AtWork(r)) /\ (Pending(r)' <=> Pending(r))
      BY <3>1 DEF AtWork, Pending
    <3>3. \A r \in Request : UnderWay(r)' <=> UnderWay(r)
      BY <3>1, <3>2 DEF UnderWay, CancelPending
    <3>4. OpenAlone' /\ SavingAlone'
      BY <3>1 DEF WInv, OpenAlone, Open, SavingAlone, Saving
    <3>5. Messages'
      BY <3>1 DEF WInv, Messages, Fits, Together
    <3>6. Waited'
      BY <3>1, <3>2 DEF WInv, Waited
    <3>7. [Workflow!WNext]_(Workflow!wvars)
      BY <3>1, <3>3, UnseenStep
    <3> QED
      BY <3>4, <3>5, <3>6, <3>7 DEF WInv
  <2> QED
    BY <2>1, <2>2, <2>3, <2>4, <2>5, <2>6 DEF Next
<1> QED
  BY <1>1, <1>2, PTL DEF Spec, FollowsWorkflow, Workflow!WSpec
=============================================================================
