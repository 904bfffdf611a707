------------------------------ MODULE SubTasks ------------------------------
(***************************************************************************)
(* The AnalysisTaskStatus rows of one analysis and the celery tasks they   *)
(* stand for.                                                              *)
(*                                                                         *)
(* An execution (a start_* task) replaces the rows, sends its canvas and   *)
(* then writes the task ids into the rows.  Workers report what becomes of *)
(* a sub-task with messages to the monitor; every message names a row by   *)
(* the analysis and the slug, not by the execution, so it applies to       *)
(* whatever row has that slug when it is handled.  Slugs are numbered in   *)
(* the order of the rows, and Level gives their place in the canvas: one   *)
(* level is a task of the chain or the header of a chord, and the next     *)
(* level is sent when all of it has succeeded.                             *)
(***************************************************************************)
EXTENDS Naturals, FiniteSets

CONSTANTS
  N,         \* sub-tasks of one execution
  Level,     \* level of each sub-task in the canvas
  Header,    \* sub-tasks in the header of a chord
  Senders,   \* the first sub-tasks of the two halves, which send on the ids of the rest
  Listed,    \* sub-tasks whose id update_all_tasks_ids finds in such a request
  MaxGen,    \* bound: executions of the analysis
  MaxMsgs,   \* bound: nobody sends while this many messages are unhandled
  Prompt     \* TRUE: all ids are recorded before anybody else does anything

Slug == 1..N
Gen  == 1..MaxGen

ASSUME SubTasksAssumption ==
  /\ N \in Nat \ {0}
  /\ Level \in [Slug -> Nat]
  /\ Header \subseteq Slug
  /\ Senders \subseteq Slug
  /\ Listed \subseteq Slug
  /\ MaxGen \in Nat
  /\ MaxMsgs \in Nat
  /\ Prompt \in BOOLEAN

VARIABLES
  rows,      \* per slug: the execution it was created for, its status, its id
  ctl,       \* the task controller: execution, place, rows as read, next row
  task,      \* per execution and slug: what has become of the celery task
  revoked,   \* tasks whose revocation has been broadcast to the workers
  msgs,      \* messages to the monitor that are not handled yet
  cancels    \* the executions that a client cancelled

vars == <<rows, ctl, task, revoked, msgs, cancels>>

RowStatus  == {"PENDING", "QUEUED", "STARTED", "COMPLETED", "CANCELLED", "ERROR"}
Active     == {"PENDING", "QUEUED", "STARTED"}
TaskState  == {"waiting", "queued", "running", "succeeded", "failed", "revoked"}
Unfinished == {"waiting", "queued", "running"}

\* gen 0: no row yet; id 0: task_id is empty.
Row == [gen : 0..MaxGen, status : RowStatus, id : 0..MaxGen]

Kind == {"record_sub_task_start", "record_sub_task_success",
         "record_sub_task_failure", "update_task_id", "cancel_subtasks",
         "chord_error_callback"}

Msg == [kind : Kind, gen : Gen, slug : Slug, pc : {"queued", "half"}]

Send(kind, g, s) == [kind |-> kind, gen |-> g, slug |-> s, pc |-> "queued"]

\* The bound on messages, and the environment restriction named by Prompt.
Room  == Cardinality(msgs) < MaxMsgs
Ready == Prompt => ctl.pc = "idle"

First == {s \in Slug : \A t \in Slug : Level[s] <= Level[t]}
Following(s) ==
  {t \in Slug : Level[s] < Level[t] /\ \A u \in Slug : Level[s] < Level[u] => Level[t] <= Level[u]}

Init ==
  /\ rows = [s \in Slug |-> [gen |-> 0, status |-> "PENDING", id |-> 0]]
  /\ ctl = [gen |-> 0, pc |-> "idle", copy |-> rows, next |-> 1]
  /\ task = [g \in Gen |-> [s \in Slug |-> "waiting"]]
  /\ revoked = {}
  /\ msgs = {}
  /\ cancels = {}

-----------------------------------------------------------------------------
(* The task controller.                                                    *)

\* The analysis takes a new request: its last execution has failed, was
\* cancelled, or has come to its end.
Startable ==
  ctl.gen \in Gen => \/ ctl.gen \in cancels
                     \/ \E s \in Slug : task[ctl.gen][s] = "failed"
                     \/ \A s \in Slug : task[ctl.gen][s] = "succeeded"

\* _replace_subtask_statuses: delete the rows of the analysis, create new ones.
ReplaceSubtaskStatuses ==
  /\ ctl.pc = "idle"
  /\ ctl.gen < MaxGen
  /\ Startable
  /\ ctl' = [ctl EXCEPT !.gen = @ + 1, !.pc = "replaced"]
  /\ rows' = [s \in Slug |-> [gen |-> ctl.gen + 1, status |-> "PENDING", id |-> 0]]
  /\ UNCHANGED <<task, revoked, msgs, cancels>>

\* c.delay(): the first level goes to the queue.
SendChain ==
  /\ ctl.pc = "replaced"
  /\ ctl' = [ctl EXCEPT !.pc = "sent"]
  /\ task' = [task EXCEPT ![ctl.gen] = [s \in Slug |-> IF s \in First THEN "queued" ELSE @[s]]]
  /\ UNCHANGED <<rows, revoked, msgs, cancels>>

\* _record_subtask_ids: the loop fetches all rows once ...
FetchRows ==
  /\ ctl.pc = "sent"
  /\ ctl' = [ctl EXCEPT !.pc = "saving", !.copy = rows, !.next = 1]
  /\ UNCHANGED <<rows, task, revoked, msgs, cancels>>

\* ... and saves them one by one, every column as it was fetched.
SaveTaskId ==
  /\ ctl.pc = "saving"
  /\ ctl.next <= N
  /\ rows' = [rows EXCEPT ![ctl.next] = [ctl.copy[ctl.next] EXCEPT !.id = ctl.gen]]
  /\ ctl' = [ctl EXCEPT !.next = @ + 1]
  /\ UNCHANGED <<task, revoked, msgs, cancels>>

\* All rows are saved, or the loop breaks on an exception.
EndTaskIds ==
  /\ ctl.pc = "saving"
  /\ ctl.next = N + 1 \/ ~Prompt
  /\ ctl' = [ctl EXCEPT !.pc = "idle"]
  /\ UNCHANGED <<rows, task, revoked, msgs, cancels>>

\* A client cancels the execution: cancel_subtasks goes to the monitor.
CancelRequest ==
  /\ ctl.gen \in Gen \ cancels
  /\ Ready /\ Room
  /\ \E s \in Slug : task[ctl.gen][s] \in Unfinished
  /\ \A s \in Slug : task[ctl.gen][s] # "failed"
  /\ cancels' = cancels \cup {ctl.gen}
  /\ msgs' = msgs \cup {Send("cancel_subtasks", ctl.gen, 1)}
  /\ UNCHANGED <<rows, ctl, task, revoked>>

-----------------------------------------------------------------------------
(* The workers, with celery's handling of chains, chords and revocation.   *)

\* A worker takes a task: log_task_entry announces it, and the first sub-task of
\* each half also sends on the ids of the rest of the canvas.  The retries of a task
\* and the redelivery of its message are part of its running; a message that the
\* monitor fails to handle (a log that cannot be stored) is left out.
StartTask(g, s) ==
  /\ task[g][s] = "queued"
  /\ Ready /\ Room
  /\ task' = [task EXCEPT ![g][s] = "running"]
  /\ msgs' = msgs \cup {Send("record_sub_task_start", g, s)}
                  \cup (IF s \in Senders THEN {Send("update_task_id", g, s)} ELSE {})
  /\ UNCHANGED <<rows, ctl, revoked, cancels>>

\* The task returns: its link callback is sent, and the next level of the
\* canvas when this was the last task of its own.
FinishTask(g, s) ==
  LET done == [task[g] EXCEPT ![s] = "succeeded"] IN
  /\ task[g][s] = "running"
  /\ Room
  /\ task' = [task EXCEPT ![g] =
       IF \A t \in Slug : Level[t] = Level[s] => done[t] = "succeeded"
       THEN [t \in Slug |-> IF t \in Following(s) THEN "queued" ELSE done[t]]
       ELSE done]
  /\ msgs' = msgs \cup {Send("record_sub_task_success", g, s)}
  /\ UNCHANGED <<rows, ctl, revoked, cancels>>

\* The task raises, its retries used up.  Its own errback is sent; when it is
\* part of a chord's header, so are those of the chord's body and of the chord.
FailTask(g, s) ==
  /\ task[g][s] = "running"
  /\ Room
  /\ task' = [task EXCEPT ![g][s] = "failed"]
  /\ msgs' = msgs \cup {Send("record_sub_task_failure", g, s)}
       \cup (IF s \in Header
             THEN {Send("record_sub_task_failure", g, t) : t \in Following(s)}
                  \cup {Send("chord_error_callback", g, s)}
             ELSE {})
  /\ UNCHANGED <<rows, ctl, revoked, cancels>>

\* revoked_handler: a worker drops a revoked task, empties the chain behind it
\* and asks for the other sub-tasks of the analysis to be cancelled.
RevokedHandler(g, s) ==
  /\ <<g, s>> \in revoked
  /\ task[g][s] \in {"queued", "running"}
  /\ Room
  /\ task' = [task EXCEPT ![g][s] = "revoked"]
  /\ msgs' = msgs \cup {Send("cancel_subtasks", g, s)}
  /\ UNCHANGED <<rows, ctl, revoked, cancels>>

-----------------------------------------------------------------------------
(* The monitor.  A queryset update() is one atomic statement.              *)

\* The row's status after a message about it.
StartedStatus(status) == IF status = "QUEUED" THEN "STARTED" ELSE status

RecordSubTaskStart(m) ==
  /\ m.kind = "record_sub_task_start"
  /\ rows' = [rows EXCEPT ![m.slug].id = m.gen, ![m.slug].status = StartedStatus(@)]
  /\ msgs' = msgs \ {m}
  /\ UNCHANGED <<ctl, task, revoked, cancels>>

\* Mutant: only a row that shows STARTED can be completed.
RecordSubTaskSuccessStarted(m) ==
  /\ m.kind = "record_sub_task_success"
  /\ rows' = [rows EXCEPT ![m.slug].id = m.gen,
                         ![m.slug].status = IF @ = "STARTED" THEN "COMPLETED" ELSE @]
  /\ msgs' = msgs \ {m}
  /\ UNCHANGED <<ctl, task, revoked, cancels>>

RecordSubTaskSuccess(m) ==
  /\ m.kind = "record_sub_task_success"
  /\ rows' = [rows EXCEPT ![m.slug].id = m.gen, ![m.slug].status = "COMPLETED"]
  /\ msgs' = msgs \ {m}
  /\ UNCHANGED <<ctl, task, revoked, cancels>>

RecordSubTaskFailure(m) ==
  /\ m.kind = "record_sub_task_failure"
  /\ rows' = [rows EXCEPT ![m.slug].id = m.gen, ![m.slug].status = "ERROR"]
  /\ msgs' = msgs \ {m}
  /\ UNCHANGED <<ctl, task, revoked, cancels>>

\* chord_error_callback is linked without arguments, so celery passes it the
\* failed task's id, and no analysis has that id.
ChordErrorCallback(m) ==
  /\ m.kind = "chord_error_callback"
  /\ msgs' = msgs \ {m}
  /\ UNCHANGED <<rows, ctl, task, revoked, cancels>>

\* Mutants: pending rows are started, not queued; all rows are queued.
QueuePendingStarts(m) ==
  /\ m.kind = "update_task_id"
  /\ m.pc = "queued"
  /\ rows' = [s \in Slug |-> IF rows[s].status = "PENDING"
                             THEN [rows[s] EXCEPT !.status = "STARTED"] ELSE rows[s]]
  /\ msgs' = (msgs \ {m}) \cup {[m EXCEPT !.pc = "half"]}
  /\ UNCHANGED <<ctl, task, revoked, cancels>>
QueuePendingAll(m) ==
  /\ m.kind = "update_task_id"
  /\ m.pc = "queued"
  /\ rows' = [s \in Slug |-> [rows[s] EXCEPT !.status = "QUEUED"]]
  /\ msgs' = (msgs \ {m}) \cup {[m EXCEPT !.pc = "half"]}
  /\ UNCHANGED <<ctl, task, revoked, cancels>>

\* update_task_id: first every pending row is queued, then the ids are stored.
QueuePending(m) ==
  /\ m.kind = "update_task_id"
  /\ m.pc = "queued"
  /\ rows' = [s \in Slug |-> IF rows[s].status = "PENDING"
                             THEN [rows[s] EXCEPT !.status = "QUEUED"] ELSE rows[s]]
  /\ msgs' = (msgs \ {m}) \cup {[m EXCEPT !.pc = "half"]}
  /\ UNCHANGED <<ctl, task, revoked, cancels>>

UpdateTaskId(m) ==
  /\ m.kind = "update_task_id"
  /\ m.pc = "half"
  /\ rows' = [s \in Slug |-> IF s \in Listed /\ Level[m.slug] < Level[s]
                             THEN [rows[s] EXCEPT !.id = m.gen] ELSE rows[s]]
  /\ msgs' = msgs \ {m}
  /\ UNCHANGED <<ctl, task, revoked, cancels>>

\* Mutants: rows without an id are revoked too; only started rows are revoked.
RevokeActiveNoId(m) ==
  /\ m.kind = "cancel_subtasks"
  /\ m.pc = "queued"
  /\ revoked' = revoked \cup {<<rows[s].id, s>> : s \in {t \in Slug : rows[t].status \in Active}}
  /\ msgs' = (msgs \ {m}) \cup {[m EXCEPT !.pc = "half"]}
  /\ UNCHANGED <<rows, ctl, task, cancels>>
RevokeActiveStarted(m) ==
  /\ m.kind = "cancel_subtasks"
  /\ m.pc = "queued"
  /\ revoked' = revoked \cup
       {<<rows[s].id, s>> : s \in {t \in Slug : rows[t].status = "STARTED" /\ rows[t].id # 0}}
  /\ msgs' = (msgs \ {m}) \cup {[m EXCEPT !.pc = "half"]}
  /\ UNCHANGED <<rows, ctl, task, cancels>>

\* cancel_subtasks: revoke every active row that has an id; the rows are then
\* marked by a second statement, which selects the active rows anew.
RevokeActive(m) ==
  /\ m.kind = "cancel_subtasks"
  /\ m.pc = "queued"
  /\ revoked' = revoked \cup
       {<<rows[s].id, s>> : s \in {t \in Slug : rows[t].status \in Active /\ rows[t].id # 0}}
  /\ msgs' = (msgs \ {m}) \cup {[m EXCEPT !.pc = "half"]}
  /\ UNCHANGED <<rows, ctl, task, cancels>>

MarkCancelled(m) ==
  /\ m.kind = "cancel_subtasks"
  /\ m.pc = "half"
  /\ rows' = [s \in Slug |-> IF rows[s].status \in Active
                             THEN [rows[s] EXCEPT !.status = "CANCELLED"] ELSE rows[s]]
  /\ msgs' = msgs \ {m}
  /\ UNCHANGED <<ctl, task, revoked, cancels>>

-----------------------------------------------------------------------------
Controller == ReplaceSubtaskStatuses \/ SendChain \/ FetchRows \/ SaveTaskId \/ EndTaskIds

Worker(g, s) == StartTask(g, s) \/ FinishTask(g, s) \/ FailTask(g, s) \/ RevokedHandler(g, s)

Monitor(m) ==
  \/ RecordSubTaskStart(m) \/ RecordSubTaskSuccess(m) \/ RecordSubTaskFailure(m)
  \/ ChordErrorCallback(m) \/ QueuePending(m) \/ UpdateTaskId(m)
  \/ RevokeActive(m) \/ MarkCancelled(m)

Next ==
  \/ Controller
  \/ CancelRequest
  \/ \E g \in Gen, s \in Slug : Worker(g, s)
  \/ \E m \in msgs : Monitor(m)

\* The controller finishes what it began, workers finish their tasks and the
\* monitor handles its messages; nobody has to start or to cancel anything.
\* Workers are strongly fair because they never wait for the monitor: Room
\* only bounds how far ahead of it they get.
Fairness ==
  /\ WF_vars(SendChain \/ FetchRows \/ SaveTaskId \/ EndTaskIds)
  /\ \A g \in Gen, s \in Slug : SF_vars(Worker(g, s))
  /\ WF_vars(\E m \in msgs : Monitor(m))

Spec     == Init /\ [][Next]_vars
FairSpec == Spec /\ Fairness
-----------------------------------------------------------------------------
(* Properties.                                                             *)

\* Types of the state variables.
TypeOK ==
  /\ rows \in [Slug -> Row]
  /\ ctl \in [gen : 0..MaxGen, pc : {"idle", "replaced", "sent", "saving"},
             copy : [Slug -> Row], next : 1..(N + 1)]
  /\ task \in [Gen -> [Slug -> TaskState]]
  /\ revoked \subseteq Gen \X Slug
  /\ msgs \subseteq Msg
  /\ cancels \subseteq Gen

\* What must have happened for a row to show a status.
Justified(s, status) ==
  CASE status = "PENDING"   -> TRUE
    [] status = "QUEUED"    -> \E g \in Gen, t \in Senders : task[g][t] \notin {"waiting", "queued"}
    [] status = "STARTED"   -> \E g \in Gen : task[g][s] \notin {"waiting", "queued"}
    [] status = "COMPLETED" -> \E g \in Gen : task[g][s] = "succeeded"
    [] status = "CANCELLED" -> cancels # {}
    [] status = "ERROR"     -> \E g \in Gen, t \in Slug :
                                 task[g][t] = "failed" /\ (t = s \/ s \in Following(t))

\* A sub-task never shows a status that nothing has caused: it is COMPLETED only
\* if the task of that slug has succeeded (in this or an earlier execution),
\* ERROR only if it or a chunk before it failed, CANCELLED only if a client
\* cancelled, however late _record_subtask_ids saves what it fetched and in
\* whatever order the monitor handles its messages.
StatusJustified == \A s \in Slug : Justified(s, rows[s].status)

\* A row that shows CANCELLED stands for a task that is over or whose
\* revocation has reached the workers: "the task was halted".
CancelledIsHalted ==
  \A s \in Slug : rows[s].status = "CANCELLED" /\ rows[s].gen # 0 =>
    \/ task[rows[s].gen][s] \notin Unfinished
    \/ <<rows[s].gen, s>> \in revoked

\* update_task_id queues only what is PENDING "to avoid overwriting valid
\* 'STARTED' or 'COMPLETE'": a row does not lose such a status within its
\* execution to one that comes before it.
NotOverwritten ==
  [][\A s \in Slug :
       rows'[s].gen = rows[s].gen =>
         /\ rows[s].status \in {"STARTED", "COMPLETED"} => rows'[s].status \notin {"PENDING", "QUEUED"}
         /\ rows[s].status = "COMPLETED" => rows'[s].status # "STARTED"]_vars

\* Every success is shown in the end: the row of a sub-task that succeeded
\* becomes COMPLETED, also when its start, its cancellation and the ids of the
\* canvas are handled in another order than they were sent.
SuccessShows ==
  \A s \in Slug : task[1][s] = "succeeded" ~> rows[s].status = "COMPLETED"

\* The errback of the chord in which chunk s failed is not handled yet.
ChordErrorAwaited(s) == Send("chord_error_callback", 1, s) \in msgs

\* When a chunk fails for good, the other chunks of its chord that were in progress or
\* queued transition to CANCELLED, unless their end is recorded before the chord's
\* errback is handled.
OthersCancelled ==
  \A s, t \in Header :
    s # t /\ ChordErrorAwaited(s) /\ rows[t].status \in {"QUEUED", "STARTED"}
      ~> \/ rows[t].status = "CANCELLED"
         \/ ChordErrorAwaited(s) /\ rows[t].status \notin {"QUEUED", "STARTED"}
=============================================================================
