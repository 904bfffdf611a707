---------------------------- MODULE AnalysisRow ----------------------------
(***************************************************************************)
(* What the Analysis model class says of its row in both run modes: the    *)
(* statuses, the requests a status allows, and what a request changes in   *)
(* the object it holds before it saves it.                                 *)
(***************************************************************************)

CONSTANT NoKey   \* the null foreign key / empty task id

Status == {"NEW", "INPUTS_GENERATION_ERROR", "INPUTS_GENERATION_NO_KEYS",
           "INPUTS_GENERATION_CANCELLED", "INPUTS_GENERATION_STARTED",
           "INPUTS_GENERATION_QUEUED", "READY", "RUN_QUEUED", "RUN_STARTED",
           "RUN_COMPLETED", "RUN_CANCELLED", "RUN_ERROR"}

INPUTS_GENERATION_VALID_STATUSES ==
  {"NEW", "INPUTS_GENERATION_ERROR", "INPUTS_GENERATION_NO_KEYS",
   "INPUTS_GENERATION_CANCELLED", "READY", "RUN_COMPLETED",
   "RUN_CANCELLED", "RUN_ERROR"}

RUN_VALID_STATUSES == {"READY", "RUN_COMPLETED", "RUN_ERROR", "RUN_CANCELLED"}

InputsActive == {"INPUTS_GENERATION_QUEUED", "INPUTS_GENERATION_STARTED"}
RunActive    == {"RUN_QUEUED", "RUN_STARTED"}
Cancelled    == {"INPUTS_GENERATION_CANCELLED", "RUN_CANCELLED"}

StartOp  == {"run", "generate_inputs", "generate_and_run"}
CancelOp == {"cancel", "cancel_generate_inputs", "cancel_analysis_run"}

NewRow == [status |-> "NEW", run_mode |-> "null", input |-> NoKey,
           output |-> NoKey, gen_task |-> NoKey, run_task |-> NoKey]

-----------------------------------------------------------------------------
\* What the start methods require of the object the request read.
StartValid(op, obj) ==
  IF op = "run" THEN obj.status \in RUN_VALID_STATUSES /\ obj.input # NoKey
                ELSE obj.status \in INPUTS_GENERATION_VALID_STATUSES

CancelValid(op, obj) ==
  obj.status \in CASE op = "cancel" -> InputsActive \cup RunActive
                   [] op = "cancel_generate_inputs" -> InputsActive
                   [] op = "cancel_analysis_run" -> RunActive

\* The object after the resets of run() or of _reset_input_generation().
ResetFor(op, obj) ==
  IF op = "run" THEN [obj EXCEPT !.status = "RUN_QUEUED"]
  ELSE [obj EXCEPT !.status = "INPUTS_GENERATION_QUEUED", !.input = NoKey]

CancelledStatus(obj) ==
  IF obj.status \in InputsActive THEN "INPUTS_GENERATION_CANCELLED"
                                 ELSE "RUN_CANCELLED"

TaskToRevoke(obj) ==
  IF obj.status \in InputsActive THEN obj.gen_task ELSE obj.run_task
=============================================================================
