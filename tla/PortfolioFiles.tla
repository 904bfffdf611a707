--------------------------- MODULE PortfolioFiles ---------------------------
(***************************************************************************)
(* One Portfolio row, its files, and the work done on them by the internal *)
(* worker: OED validation, exposure runs and exposure transformations.     *)
(*                                                                         *)
(* As with analyses, a handler works on the object it read and saves all   *)
(* its columns or some (update_fields).  File columns are foreign keys     *)
(* with on_delete=CASCADE: a file is taken out of its column before it is  *)
(* deleted, or the portfolio, and its analyses, would go with it.          *)
(* Deleting a file row also deletes the stored file (django-cleanup), so a *)
(* task that was given its path cannot fetch it any more, even if a late   *)
(* save inserts the row again.                                             *)
(*                                                                         *)
(* Of the four exposure files the location file stands for all, and the    *)
(* transform file for the mapping file that goes the same way.             *)
(***************************************************************************)
EXTENDS FileConversion, FiniteSets

CONSTANTS
  MaxRequests,   \* bound: how many requests are made to the portfolio
  Ops            \* the operations the clients use

AllOps == {"location_file", "delete_location_file", "validate", "exposure_run",
           "exposure_transform"}

ASSUME PortfolioAssumption ==
  /\ MaxRequests \in Nat
  /\ Ops \subseteq AllOps
  /\ MaxFiles >= 1 + 2 * MaxRequests   \* what the requests can create

VARIABLES
  row,      \* the row of the portfolios table
  exists,   \* whether the row is there
  req,      \* each request: handler, then worker task, then recorder
  takenBy,  \* the stored files: 0, or the request that deleted the file
  checked   \* history: the files that an OED validation found valid

pvars == <<row, exists, req, takenBy, checked>>
vars  == <<files, output, conv, row, exists, req, takenBy, checked>>

Request == 1..MaxRequests

\* The choices of exposure_status, validation_status and exposure_transform_status.
PStatus == {"NONE", "INSUFFICIENT_DATA", "STARTED", "ERROR", "RUN_COMPLETED"}

Row == [location_file : 0..MaxFiles, transform_file : 0..MaxFiles,
        exposure_run_file : 0..MaxFiles, validation : PStatus, exposure : PStatus,
        transform : PStatus]

NewRow == [location_file |-> NoKey, transform_file |-> NoKey,
           exposure_run_file |-> NoKey, validation |-> "NONE", exposure |-> "NONE",
           transform |-> "NONE"]

\* Where a request is: in its handler, at the worker, in its recorder.
InHandler  == {"begun", "cleared", "removed"}
AtWorker   == {"transform", "validate", "exposure"}
ToRecord   == {"transformed", "validated", "exposed"}
InRecorder == {"rec_transform", "rec_cleared", "rec_removed", "rec_validate",
               "rec_file", "rec_marked", "rec_exposure"}
Mid        == InHandler \cup InRecorder
Over       == {"done", "dead"}

\* src: the file whose path the validation task was given; new: the file made by
\* the handler; ok: the outcome; file: the file row that a validation marks; rivals
\* (history): the other requests that were under way meanwhile.
ReqRec == [op : AllOps, pc : {"idle"} \cup Mid \cup AtWorker \cup ToRecord \cup Over,
           obj : Row, src : 0..MaxFiles, new : 0..MaxFiles, ok : BOOLEAN,
           file : FileRow, rivals : SUBSET Request]

NoReq == [op |-> "validate", pc |-> "idle", obj |-> NewRow, src |-> NoKey,
          new |-> NoKey, ok |-> FALSE, file |-> Unused, rivals |-> {}]

\* The restriction named by Atomic.
Idle == Atomic => \A r \in Request : req[r].pc \notin Mid

\* A portfolio with a location file.
Init ==
  /\ files = [f \in File |-> IF f = 1 THEN Fresh ELSE Unused]
  /\ output = [f \in File |-> NoKey]
  /\ conv = [c \in Conv |-> NoConv]
  /\ row = [NewRow EXCEPT !.location_file = 1]
  /\ exists = TRUE
  /\ req = [r \in Request |-> NoReq]
  /\ takenBy = [f \in File |-> 0]
  /\ checked = {}

-----------------------------------------------------------------------------
(* The database.                                                           *)

FileColumns(obj) == {obj.location_file, obj.transform_file, obj.exposure_run_file} \ {NoKey}

\* save(update_fields): the row has to be there.
SaveColumn(column, f) ==
  /\ row' = IF exists THEN [row EXCEPT ![column] = f] ELSE row
  /\ exists' = exists

\* delete() of a file row by request r, the stored files that the row names, and
\* the cascade to a portfolio that points at it.
DeleteFile(r, f) ==
  /\ files' = [files EXCEPT ![f] = [Unused EXCEPT !.at = "deleted"]]
  /\ output' = [output EXCEPT ![f] = IF files[f].converted THEN NoKey ELSE @]
  /\ takenBy' = [takenBy EXCEPT ![f] = r]
  /\ exists' = (exists /\ f \notin FileColumns(row))
  /\ row' = IF f \in FileColumns(row) THEN NewRow ELSE row

-----------------------------------------------------------------------------
(* Handlers.                                                               *)

\* The handler or recorder of r is over; what is over needs no more of its data.
Close(r, pc) ==
  [req EXCEPT ![r] = IF pc \in Over
                     THEN [NoReq EXCEPT !.op = req[r].op, !.pc = pc]
                     ELSE [@ EXCEPT !.pc = pc, !.obj = NewRow]]

\* save(): every column is written, and a row that is gone is inserted again; a
\* file that is gone makes the save, and the handler or recorder, fail.
SaveAll(r, obj, table, next, failed) ==
  IF \A f \in FileColumns(obj) : table[f].at = "live"
  THEN row' = obj /\ exists' = TRUE /\ req' = Close(r, next)
  ELSE row' = row /\ exists' = exists /\ req' = Close(r, failed)

UnderWay(r) == req[r].pc \notin {"idle"} \cup Over

\* get_object(); a request that finds others under way, and those it finds.
BeginRequest(r, op) ==
  /\ req[r].pc = "idle"
  /\ \A q \in 1..(r - 1) : req[q].pc # "idle"
  /\ exists
  /\ Idle /\ ConvIdle
  /\ req' = [q \in Request |->
       IF q = r THEN [NoReq EXCEPT !.op = op, !.pc = "begun", !.obj = row,
                                   !.rivals = {p \in Request : UnderWay(p)}]
       ELSE IF UnderWay(q) THEN [req[q] EXCEPT !.rivals = @ \cup {r}] ELSE req[q]]
  /\ UNCHANGED <<files, output, conv, row, exists, takenBy, checked>>

\* Mutant: the old file is deleted while the column still names it.
ClearOldNot(r) ==
  /\ req[r].pc = "begun"
  /\ req[r].op \in {"location_file", "delete_location_file"}
  /\ LET new == IF req[r].op = "location_file" THEN NewFile ELSE NoKey
         old == req[r].obj.location_file IN
     /\ files' = IF new = NoKey THEN files ELSE [files EXCEPT ![new] = Fresh]
     /\ req' = IF old = NoKey /\ new = NoKey THEN Close(r, "done")
               ELSE [req EXCEPT ![r].new = new,
                                ![r].pc = IF old # NoKey THEN "cleared" ELSE "removed"]
     /\ UNCHANGED <<row, exists>>
  /\ UNCHANGED <<output, conv, takenBy, checked>>

\* _handle_post_related_file stores the upload, and _delete_related_file, which
\* is all there is to a DELETE, clears the column of the old file.
ClearOld(r) ==
  /\ req[r].pc = "begun"
  /\ req[r].op \in {"location_file", "delete_location_file"}
  /\ LET new == IF req[r].op = "location_file" THEN NewFile ELSE NoKey
         old == req[r].obj.location_file IN
     /\ files' = IF new = NoKey THEN files ELSE [files EXCEPT ![new] = Fresh]
     /\ req' = IF old = NoKey /\ new = NoKey THEN Close(r, "done")
               ELSE [req EXCEPT ![r].new = new,
                                ![r].pc = IF old # NoKey THEN "cleared" ELSE "removed"]
     /\ IF old # NoKey THEN SaveColumn("location_file", NoKey) ELSE UNCHANGED <<row, exists>>
  /\ UNCHANGED <<output, conv, takenBy, checked>>

\* current.delete()
RemoveOld(r) ==
  /\ req[r].pc = "cleared"
  /\ DeleteFile(r, req[r].obj.location_file)
  /\ req' = IF req[r].op = "location_file" THEN [req EXCEPT ![r].pc = "removed"]
            ELSE Close(r, "done")
  /\ UNCHANGED <<conv, checked>>

\* setattr(parent, field, instance) and save(update_fields=[field])
AttachNew(r) ==
  /\ req[r].pc = "removed"
  /\ SaveColumn("location_file", req[r].new)
  /\ req' = Close(r, "done")
  /\ UNCHANGED <<files, output, conv, takenBy, checked>>

\* What the three methods that start work save; the transform view has stored its
\* file before.
Started(r, f) ==
  LET obj == req[r].obj IN
  CASE req[r].op = "validate" -> [obj EXCEPT !.validation = "STARTED"]
    [] req[r].op = "exposure_run" ->
         [obj EXCEPT !.exposure = IF obj.location_file = NoKey THEN "INSUFFICIENT_DATA" ELSE "STARTED"]
    [] req[r].op = "exposure_transform" ->
         [obj EXCEPT !.transform_file = f, !.transform = "STARTED", !.validation = "STARTED"]

FirstTask(r) ==
  CASE req[r].op = "validate" -> "validate"
    [] req[r].op = "exposure_run" -> IF req[r].obj.location_file = NoKey THEN "done" ELSE "exposure"
    [] req[r].op = "exposure_transform" -> "transform"

\* A full save, then the task is sent.  All paths go into the signatures now: the
\* validation that follows a transformation is given the location file of today.
SaveAndSend(r) ==
  LET f     == IF req[r].op = "exposure_transform" THEN NewFile ELSE NoKey
      table == IF f = NoKey THEN files ELSE [files EXCEPT ![f] = Fresh]
      obj   == Started(r, f) IN
  /\ req[r].pc = "begun"
  /\ req[r].op \in {"validate", "exposure_run", "exposure_transform"}
  /\ files' = table
  /\ IF \A g \in FileColumns(obj) : table[g].at = "live"
     THEN /\ row' = obj /\ exists' = TRUE
          /\ req' = IF FirstTask(r) = "done" THEN Close(r, "done")
                    ELSE [req EXCEPT ![r].pc = FirstTask(r), ![r].obj = NewRow,
                                     ![r].src = req[r].obj.location_file, ![r].new = f]
     ELSE row' = row /\ exists' = exists /\ req' = Close(r, "done")
  /\ UNCHANGED <<output, conv, takenBy, checked>>

-----------------------------------------------------------------------------
(* The internal worker.                                                    *)

\* The stored file a task has to fetch first.
Fetched(r) == IF req[r].pc = "transform" THEN req[r].new ELSE req[r].src

Answer(r, to, ok) ==
  /\ Fetched(r) # NoKey => takenBy[Fetched(r)] = 0
  /\ req' = [req EXCEPT ![r].pc = to, ![r].ok = ok]
  /\ UNCHANGED <<files, output, conv, row, exists, takenBy>>

RunTransform(r, ok) ==
  req[r].pc = "transform" /\ Answer(r, "transformed", ok) /\ checked' = checked

RunValidation(r, ok) ==
  /\ req[r].pc = "validate"
  /\ Answer(r, "validated", ok)
  /\ checked' = IF ok THEN checked \cup ({req[r].src} \ {NoKey}) ELSE checked

RunExposure(r, ok) ==
  req[r].pc = "exposure" /\ Answer(r, "exposed", ok) /\ checked' = checked

\* The task raises, or its worker dies, and nothing follows: there is no errback.
\* Fetching comes before the try block, and an outcome is stored after it; a file
\* that is gone is the reason of interest here, and the task cannot answer then.
TaskDies(r) ==
  /\ req[r].pc \in AtWorker
  /\ req' = Close(r, "dead")
  /\ UNCHANGED <<files, output, conv, row, exists, takenBy, checked>>

-----------------------------------------------------------------------------
(* Recorders, on the server's v2 monitor.                                  *)

RecorderOf(pc) == CASE pc = "transformed" -> "rec_transform"
                    [] pc = "validated" -> "rec_validate"
                    [] pc = "exposed" -> "rec_exposure"

\* Portfolio.objects.get(): raises when the row is gone.
ReadRow(r) ==
  /\ req[r].pc \in ToRecord
  /\ Idle /\ ConvIdle
  /\ req' = IF exists THEN [req EXCEPT ![r].pc = RecorderOf(@), ![r].obj = row]
            ELSE Close(r, "dead")
  /\ UNCHANGED <<files, output, conv, row, exists, takenBy, checked>>

\* record_transform_output: _delete_related_file takes the file of whoever asked
\* last out of its column ...
ClearTransform(r) ==
  /\ req[r].pc = "rec_transform"
  /\ IF req[r].obj.transform_file = NoKey
     THEN UNCHANGED <<row, exists>> /\ req' = [req EXCEPT ![r].pc = "rec_removed"]
     ELSE /\ SaveColumn("transform_file", NoKey)
          /\ req' = [req EXCEPT ![r].pc = "rec_cleared"]
  /\ UNCHANGED <<files, output, conv, takenBy, checked>>

\* ... and deletes it ...
RemoveTransform(r) ==
  /\ req[r].pc = "rec_cleared"
  /\ DeleteFile(r, req[r].obj.transform_file)
  /\ req' = [req EXCEPT ![r].pc = "rec_removed", ![r].obj.transform_file = NoKey]
  /\ UNCHANGED <<conv, checked>>

\* Mutant: the location file that is replaced is deleted.
RecordTransformReplacing(r) ==
  LET new   == NewFile
      table == IF req[r].ok THEN [files EXCEPT ![new] = Fresh,
                                              ![req[r].obj.location_file].at = "deleted"]
               ELSE files
      obj   == IF req[r].ok
               THEN [req[r].obj EXCEPT !.location_file = new, !.transform = "RUN_COMPLETED"]
               ELSE [req[r].obj EXCEPT !.transform = "ERROR", !.validation = "ERROR"] IN
  /\ req[r].pc = "rec_removed"
  /\ files' = table
  /\ SaveAll(r, obj, table, IF req[r].ok THEN "validate" ELSE "done", "dead")
  /\ takenBy' = IF req[r].ok THEN [takenBy EXCEPT ![req[r].obj.location_file] = r] ELSE takenBy
  /\ UNCHANGED <<output, conv, checked>>

\* ... and a full save stores the new location file, or the error.
RecordTransform(r) ==
  LET new   == NewFile
      table == IF req[r].ok THEN [files EXCEPT ![new] = Fresh] ELSE files
      obj   == IF req[r].ok
               THEN [req[r].obj EXCEPT !.location_file = new, !.transform = "RUN_COMPLETED"]
               ELSE [req[r].obj EXCEPT !.transform = "ERROR", !.validation = "ERROR"] IN
  /\ req[r].pc = "rec_removed"
  /\ files' = table
  /\ SaveAll(r, obj, table, IF req[r].ok THEN "validate" ELSE "done", "dead")
  /\ UNCHANGED <<output, conv, takenBy, checked>>

\* set_portfolio_valid: the file that the portfolio names is read, if it is there ...
FetchAttached(r) ==
  LET f == req[r].obj.location_file IN
  /\ req[r].pc = "rec_validate"
  /\ req[r].ok /\ f # NoKey
  /\ req' = IF Live(f) THEN [req EXCEPT ![r].pc = "rec_file", ![r].file = files[f]]
            ELSE Close(r, "dead")
  /\ UNCHANGED <<files, output, conv, row, exists, takenBy, checked>>

\* ... marked, and saved with all its columns ...
MarkValid(r) ==
  /\ req[r].pc = "rec_file"
  /\ files' = [files EXCEPT ![req[r].obj.location_file] = [req[r].file EXCEPT !.validated = TRUE]]
  /\ req' = [req EXCEPT ![r].pc = "rec_marked", ![r].file = Unused]
  /\ UNCHANGED <<output, conv, row, exists, takenBy, checked>>

\* ... and then, as for an error, the portfolio is saved.
RecordValidation(r) ==
  LET obj == [req[r].obj EXCEPT !.validation = IF req[r].ok THEN "RUN_COMPLETED" ELSE "ERROR"] IN
  /\ \/ req[r].pc = "rec_marked"
     \/ req[r].pc = "rec_validate" /\ (~req[r].ok \/ obj.location_file = NoKey)
  /\ SaveAll(r, obj, files, "done", "dead")
  /\ UNCHANGED <<files, output, conv, takenBy, checked>>

\* Mutants: the file is forgotten; a failed run leaves its status.
ExposedNoFile(obj, ok, f) ==
  [obj EXCEPT !.exposure = IF ok THEN "RUN_COMPLETED" ELSE "ERROR"]
ExposedAsIs(obj, ok, f) ==
  IF ok THEN [obj EXCEPT !.exposure = "RUN_COMPLETED", !.exposure_run_file = f] ELSE obj

Exposed(obj, ok, f) ==
  IF ok THEN [obj EXCEPT !.exposure = "RUN_COMPLETED", !.exposure_run_file = f]
  ELSE [obj EXCEPT !.exposure = "ERROR"]

\* record_exposure_output stores a result file, or an errors file of no interest here.
RecordExposure(r) ==
  LET new   == NewFile
      table == IF req[r].ok THEN [files EXCEPT ![new] = Fresh] ELSE files
      obj   == Exposed(req[r].obj, req[r].ok, new) IN
  /\ req[r].pc = "rec_exposure"
  /\ files' = table
  /\ SaveAll(r, obj, table, "done", "dead")
  /\ UNCHANGED <<output, conv, takenBy, checked>>

-----------------------------------------------------------------------------
Handler(r) == ClearOld(r) \/ RemoveOld(r) \/ AttachNew(r) \/ SaveAndSend(r)

Worker(r) ==
  \/ \E ok \in BOOLEAN : RunTransform(r, ok) \/ RunValidation(r, ok) \/ RunExposure(r, ok)
  \/ TaskDies(r)

Recorder(r) ==
  \/ ReadRow(r) \/ ClearTransform(r) \/ RemoveTransform(r) \/ RecordTransform(r)
  \/ FetchAttached(r) \/ MarkValid(r) \/ RecordValidation(r) \/ RecordExposure(r)

Conversion(c) == Idle /\ Converting(c) /\ UNCHANGED pvars

\* Whatever is done about what clients have asked for.
System ==
  \/ \E r \in Request : Handler(r) \/ Worker(r) \/ Recorder(r)
  \/ \E c \in Conv : Conversion(c)

Next ==
  \/ \E r \in Request, op \in Ops : BeginRequest(r, op)
  \/ \E c \in Conv : /\ Idle
                     /\ BeginConvert(c, row.location_file)
                     /\ UNCHANGED pvars
  \/ System

\* The server and the internal worker do not stop while there is something to do;
\* which of it they do next is left open.
Fairness == WF_vars(System)

Spec     == Init /\ [][Next]_vars
FairSpec == Spec /\ Fairness
-----------------------------------------------------------------------------
(* Properties.                                                             *)

TypeOK ==
  /\ FilesTypeOK
  /\ row \in Row
  /\ exists \in BOOLEAN
  /\ req \in [Request -> ReqRec]
  /\ takenBy \in [File -> 0..MaxRequests]
  /\ checked \subseteq File

\* "Delete an attached RelatedFile model without triggering a cascade delete"
\* (_delete_related_file): no upload, deletion or transformation takes the
\* portfolio with it, whatever validation, exposure run or conversion is under way.
Survives == exists

\* A completed exposure run has its result.
ExposureHasFile == row.exposure = "RUN_COMPLETED" => Live(row.exposure_run_file)

\* A task of the internal worker finds the file it was sent for gone only if another
\* request deleted it, one that was under way together with the task's own; in
\* particular the recorder between a transformation and the validation chained to it
\* does not take the file that the validation was given.
LostToRival ==
  \A r \in Request :
    req[r].pc \in AtWorker /\ Fetched(r) # NoKey /\ takenBy[Fetched(r)] # 0
      => takenBy[Fetched(r)] \in req[r].rivals

\* A file that is DONE has at its output path what the mapping file named in its row
\* made of it, although conversions share the path, a failed one may have written to
\* it, and the task that succeeded may be the retry of an older request.  (The stored
\* files of a row that was deleted are gone, even if a late save brings it back.)
MappingIsUsed ==
  \A f \in File : takenBy[f] = 0 /\ files[f].state = "DONE" => output[f] = files[f].mapping

\* The last request to have set one of the statuses to STARTED.
Starters(ops) == {r \in Request : req[r].op \in ops /\ req[r].pc # "idle"}
LastDead(ops) == \E r \in Starters(ops) : /\ \A q \in Starters(ops) : q <= r
                                          /\ req[r].pc = "dead"

\* Work on a portfolio ends: once the clients have stopped asking (MaxRequests), no
\* status stays STARTED, unless the last request that set it lost its task, which
\* nothing replaces.
WorkEnds ==
  <>[] /\ row.exposure = "STARTED" => LastDead({"exposure_run"})
       /\ row.transform = "STARTED" => LastDead({"exposure_transform"})
       /\ row.validation = "STARTED" => LastDead({"validate", "exposure_transform"})

\* The validation status "for each attached file" that a GET of validate returns
\* is true only of files that a validation has found valid.
ValidatedIsChecked == \A f \in File : files[f].validated => f \in checked
=============================================================================
