-------------------------- MODULE AnalysisWorkflow --------------------------
(***************************************************************************)
(* What an analysis promises its clients, whichever run mode executes it:  *)
(* the documented statuses, the files behind them, and the work that is    *)
(* under way.  No rows, tasks or messages: a client's request is one step, *)
(* and everything an execution does to the analysis is a Report of it.     *)
(* Both run modes are shown to implement it, under the timing they count   *)
(* on, by refinement mappings in their own modules.                        *)
(***************************************************************************)
EXTENDS AnalysisRow

CONSTANTS
  Exec,       \* names of executions
  Shielded    \* TRUE: a late report of a start or of a failure does not
              \* replace a cancellation (run mode V2 checks, V1 does not)

VARIABLES
  status,     \* the status clients see
  files,      \* which of the two main files the analysis has
  busy        \* the kinds of work each execution may still report on

wvars == <<status, files, busy>>

Kind   == {"inputs", "run"}
Active == InputsActive \cup RunActive

\* Nobody waits for nothing: a status that says work is queued or started has
\* an execution behind it that has not ended.
NoOrphan == status \in Active => \E e \in Exec : busy[e] # {}

WInit ==
  /\ \/ status = "NEW" /\ files = {}
     \/ status = "READY" /\ files = {"input"}
  /\ busy = [e \in Exec |-> {}]

\* generate_inputs or generate_and_run is accepted: old inputs are dropped.
QueueInputs(e, kinds) ==
  /\ busy[e] = {}
  /\ status \in INPUTS_GENERATION_VALID_STATUSES
  /\ status' = "INPUTS_GENERATION_QUEUED"
  /\ files' = files \ {"input"}
  /\ busy' = [busy EXCEPT ![e] = kinds]

\* run is accepted: there are inputs to run with.
QueueRun(e) ==
  /\ busy[e] = {}
  /\ status \in RUN_VALID_STATUSES
  /\ "input" \in files
  /\ status' = "RUN_QUEUED"
  /\ files' = files
  /\ busy' = [busy EXCEPT ![e] = {"run"}]

\* A cancellation is accepted while work is queued or started; it may or may
\* not get hold of the work.
Cancel ==
  /\ status \in Active
  /\ status' = IF status \in InputsActive THEN "INPUTS_GENERATION_CANCELLED"
                                          ELSE "RUN_CANCELLED"
  /\ files' = files
  /\ busy' \in [Exec -> SUBSET Kind]
  /\ \A e \in Exec : busy'[e] \subseteq busy[e]

\* News that an execution of a kind may bring besides its result.
News(kinds) ==
  (IF "inputs" \in kinds THEN {"INPUTS_GENERATION_STARTED", "INPUTS_GENERATION_ERROR",
                               "INPUTS_GENERATION_NO_KEYS"} ELSE {})
  \cup (IF "run" \in kinds THEN {"RUN_STARTED", "RUN_ERROR"} ELSE {})

\* An execution makes itself felt, or ends.  It changes the status within its own
\* kinds of work only; a run leaves the inputs alone, while an input generation may
\* change both files; a success brings its file, and the last execution does not end
\* in silence while the status waits for it.
Report(e) ==
  /\ busy[e] # {}
  /\ \E left \in SUBSET busy[e] : busy' = [busy EXCEPT ![e] = left]
  /\ files' \in SUBSET {"input", "output"}
  /\ "inputs" \notin busy[e] => ("input" \in files' <=> "input" \in files)
  /\ \/ status' = status
     \/ /\ status' \in News(busy[e])
        /\ ~(Shielded /\ status \in Cancelled)
     \/ "inputs" \in busy[e] /\ status' = "READY" /\ "input" \in files'
     \/ "run" \in busy[e] /\ status' = "RUN_COMPLETED" /\ "output" \in files'
  /\ NoOrphan'

WNext ==
  \/ \E e \in Exec : \/ QueueInputs(e, {"inputs"})
                     \/ QueueInputs(e, {"inputs", "run"})
                     \/ QueueRun(e)
                     \/ Report(e)
  \/ Cancel

WSpec == WInit /\ [][WNext]_wvars
=============================================================================
