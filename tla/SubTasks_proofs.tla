--------------------------- MODULE SubTasks_proofs ---------------------------
(***************************************************************************)
(* The safety properties of SubTasks, for any canvas, any number of        *)
(* executions and any bound on the messages.                               *)
(*                                                                         *)
(* JInv explains the statuses: what a row, the rows that the controller    *)
(* fetched, or an unhandled message says has happened to a task.  It needs *)
(* that what has happened stays so, and that is a property of the canvas:  *)
(* a level is sent once, after the levels before it have succeeded.        *)
(* HInv is about the first execution of an analysis, with the ids recorded *)
(* promptly.                                                               *)
(***************************************************************************)
EXTENDS SubTasks, TLAPS

USE SubTasksAssumption

-----------------------------------------------------------------------------
(* The invariants.                                                         *)

\* A level of the canvas is sent when the ones before it have succeeded.
InOrder ==
  \A g \in Gen, s, t \in Slug :
    Level[s] < Level[t] /\ task[g][t] # "waiting" => task[g][s] = "succeeded"

\* Nothing is sent before the rows of its execution are there.
NotSent ==
  /\ ctl.pc # "idle" => ctl.gen \in Gen
  /\ \A g \in Gen, s \in Slug :
       ctl.gen < g \/ (ctl.gen = g /\ ctl.pc = "replaced") => task[g][s] = "waiting"

Begun(g, s) == task[g][s] \notin {"waiting", "queued"}

\* What must have happened for a message to be under way.
Caused(m) ==
  /\ m.kind = "record_sub_task_start" => Begun(m.gen, m.slug)
  /\ m.kind = "update_task_id" => m.slug \in Senders /\ Begun(m.gen, m.slug)
  /\ m.kind = "record_sub_task_success" => task[m.gen][m.slug] = "succeeded"
  /\ m.kind = "record_sub_task_failure" =>
       \E t \in Slug : task[m.gen][t] = "failed" /\ (t = m.slug \/ m.slug \in Following(t))
  /\ m.kind = "cancel_subtasks" => cancels # {}

CopyJustified == \A s \in Slug : Justified(s, ctl.copy[s].status)

JInv ==
  /\ TypeOK /\ InOrder /\ NotSent
  /\ \A m \in msgs : Caused(m)
  /\ revoked # {} => cancels # {}
  /\ StatusJustified /\ CopyJustified

\* The first execution, its ids recorded promptly: while the controller works
\* nobody else has done anything, and afterwards every row has the id of its task,
\* so that all that is still active is revoked before it is marked.
HInv ==
  /\ \A s \in Slug : rows[s].gen = ctl.gen
  /\ ctl.gen = 0 => /\ ctl.pc = "idle" /\ msgs = {} /\ revoked = {}
                    /\ \A s \in Slug : rows[s].status = "PENDING"
  /\ ctl.pc # "idle" =>
       /\ msgs = {} /\ revoked = {}
       /\ \A s \in Slug : rows[s].status = "PENDING"
       /\ \A g \in Gen, s \in Slug : task[g][s] \in {"waiting", "queued"}
       /\ ctl.pc = "saving" =>
            \A s \in Slug : /\ ctl.copy[s].gen = ctl.gen /\ ctl.copy[s].status = "PENDING"
                            /\ s < ctl.next => rows[s].id = ctl.gen
  /\ ctl.pc = "idle" => \A s \in Slug : rows[s].id = ctl.gen
  /\ \A m \in msgs : m.kind = "cancel_subtasks" /\ m.pc = "half" =>
       \A s \in Slug : rows[s].status \in Active => <<ctl.gen, s>> \in revoked
  /\ CancelledIsHalted

-----------------------------------------------------------------------------
(* What has happened stays so.                                             *)

Forward ==
  /\ \A g \in Gen, s \in Slug : /\ Begun(g, s) => Begun(g, s)'
                                /\ task[g][s] \notin Unfinished => task'[g][s] = task[g][s]
  /\ cancels \subseteq cancels'

\* The reason for a status does not go away.
LEMMA JustifiedStays ==
  ASSUME Forward, NEW s \in Slug, NEW status \in RowStatus, Justified(s, status)
  PROVE  Justified(s, status)'
<1>1. CASE status = "PENDING"
  BY <1>1 DEF Justified
<1>2. CASE status = "QUEUED"
  <2>1. \E g \in Gen, t \in Senders : task[g][t] \notin {"waiting", "queued"}
    BY <1>2 DEF Justified
  <2>2. \E g \in Gen, t \in Senders : task'[g][t] \notin {"waiting", "queued"}
    BY <2>1 DEF Forward, Begun
  <2> QED
    BY <1>2, <2>2 DEF Justified
<1>3. CASE status = "STARTED"
  BY <1>3 DEF Justified, Forward, Begun
<1>4. CASE status = "COMPLETED"
  BY <1>4 DEF Justified, Forward, Unfinished
<1>5. CASE status = "CANCELLED"
  BY <1>5 DEF Justified, Forward, Unfinished
<1>6. CASE status = "ERROR"
  <2>1. \E g \in Gen, t \in Slug : task[g][t] = "failed" /\ (t = s \/ s \in Following(t))
    BY <1>6 DEF Justified
  <2>2. \E g \in Gen, t \in Slug : task'[g][t] = "failed" /\ (t = s \/ s \in Following(t))
    BY <2>1 DEF Forward, Unfinished
  <2> QED
    BY <1>6, <2>2 DEF Justified, Following
<1> QED
  BY <1>1, <1>2, <1>3, <1>4, <1>5, <1>6 DEF RowStatus

\* Nor the reason for a message.
LEMMA CausedStays ==
  ASSUME Forward, NEW m \in Msg, Caused(m)
  PROVE  Caused(m)'
<1>1. m.gen \in Gen /\ m.slug \in Slug
  BY DEF Msg
<1> QED
  BY <1>1 DEF Caused, Forward, Unfinished, Following

\* The statuses that a row of slug s may show.
Reasons(s) == {status \in RowStatus : Justified(s, status)}

\* What is left to show of a step.
LEMMA JStep ==
  ASSUME JInv, TypeOK', InOrder', NotSent', Forward,
         \A m \in msgs' : m \in msgs \/ Caused(m)',
         revoked' # {} => revoked # {} \/ cancels' # {},
         \A s \in Slug : \/ rows'[s].status \in {rows[s].status, ctl.copy[s].status}
                         \/ rows'[s].status \in Reasons(s)',
         \A s \in Slug : ctl'.copy[s].status \in {rows[s].status, ctl.copy[s].status}
  PROVE  JInv' /\ Forward
<1>1. \A s \in Slug : rows[s].status \in Reasons(s) /\ ctl.copy[s].status \in Reasons(s)
  BY DEF JInv, TypeOK, Row, StatusJustified, CopyJustified, Reasons
<1>2. \A s \in Slug : Reasons(s) \subseteq Reasons(s)'
  BY JustifiedStays DEF Reasons
<1>3. \A s \in Slug : rows'[s].status \in Reasons(s)' /\ ctl'.copy[s].status \in Reasons(s)'
  BY <1>1, <1>2
<1>4. (StatusJustified /\ CopyJustified)'
  BY <1>3 DEF StatusJustified, CopyJustified, Reasons
<1>5. \A m \in msgs' : Caused(m)'
  BY CausedStays DEF JInv, TypeOK
<1>6. (revoked # {} => cancels # {})'
  BY DEF JInv, Forward
<1> QED
  BY <1>4, <1>5, <1>6 DEF JInv

-----------------------------------------------------------------------------
(* Steps.                                                                  *)

Ctl == [gen : 0..MaxGen, pc : {"idle", "replaced", "sent", "saving"},
        copy : [Slug -> Row], next : 1..(N + 1)]

\* Types, with the fields of the records at hand.
LEMMA Types ==
  ASSUME TypeOK
  PROVE  /\ rows \in [Slug -> Row] /\ task \in [Gen -> [Slug -> TaskState]]
         /\ ctl \in Ctl /\ ctl.gen \in 0..MaxGen /\ ctl.copy \in [Slug -> Row]
         /\ ctl.next \in 1..(N + 1)
         /\ \A s \in Slug : rows[s] \in Row /\ ctl.copy[s] \in Row
         /\ \A g \in Gen, s \in Slug : task[g][s] \in TaskState
         /\ \A g \in Gen : task[g] \in [Slug -> TaskState]
  BY DEF TypeOK, Ctl

\* What a message makes of a row is a row.
LEMMA RowUpdates ==
  ASSUME NEW r \in Row
  PROVE  /\ \A status \in RowStatus : /\ [r EXCEPT !.status = status] \in Row
                                      /\ [r EXCEPT !.status = status].status = status
         /\ \A id \in 0..MaxGen : /\ [r EXCEPT !.id = id] \in Row
                                  /\ [r EXCEPT !.id = id].status = r.status
         /\ \A id \in 0..MaxGen, status \in RowStatus :
              /\ [r EXCEPT !.id = id, !.status = status] \in Row
              /\ [r EXCEPT !.id = id, !.status = status].status = status
  BY DEF Row

\* The controller replaces the rows, sends the first level and saves the ids.
LEMMA ControllerJ == ASSUME JInv, Controller PROVE JInv' /\ Forward
<1>0. TypeOK /\ InOrder /\ NotSent
  BY DEF JInv
<1>1. CASE ReplaceSubtaskStatuses
  <2>1. /\ ctl.gen + 1 \in Gen /\ ctl.gen + 1 \in 0..MaxGen /\ ctl.pc = "idle"
        /\ ctl' = [ctl EXCEPT !.gen = ctl.gen + 1, !.pc = "replaced"]
        /\ UNCHANGED <<task, revoked, msgs, cancels>>
    BY <1>0, <1>1, Types DEF ReplaceSubtaskStatuses, Gen, Ctl
  <2>2. PICK g \in Gen : g = ctl.gen + 1
    BY <2>1
  <2>3. ctl' \in Ctl /\ ctl'.gen = g /\ ctl'.pc = "replaced" /\ ctl'.copy = ctl.copy
    BY <1>0, <2>1, <2>2, Types DEF Ctl
  <2>4. rows' = [s \in Slug |-> [gen |-> g, status |-> "PENDING", id |-> 0]]
    BY <1>1, <2>2 DEF ReplaceSubtaskStatuses
  <2>5. rows' \in [Slug -> Row] /\ \A s \in Slug : rows'[s].status = "PENDING"
    BY <2>1, <2>2, <2>4 DEF Row, RowStatus
  <2>6. TypeOK'
    BY <1>0, <2>1, <2>3, <2>5 DEF TypeOK, Ctl
  <2>7. InOrder' /\ Forward
    BY <1>0, <2>1 DEF InOrder, Forward, Begun
  <2>8. NotSent'
    <3>1. \A h \in Gen : g < h \/ g = h => ctl.gen < h
      BY <1>0, <2>2, Types DEF Gen
    <3> QED
      BY <1>0, <2>1, <2>3, <3>1 DEF NotSent
  <2>9. \A s \in Slug : rows'[s].status \in Reasons(s)'
    BY <2>5 DEF Reasons, Justified, RowStatus
  <2> QED
    BY <2>1, <2>3, <2>6, <2>7, <2>8, <2>9, JStep
<1>2. CASE SendChain
  <2>1. /\ ctl.pc = "replaced" /\ ctl.gen \in Gen /\ ctl' = [ctl EXCEPT !.pc = "sent"]
        /\ UNCHANGED <<rows, revoked, msgs, cancels>>
    BY <1>0, <1>2 DEF SendChain, NotSent
  <2>2. PICK g \in Gen : g = ctl.gen
    BY <2>1
  <2>3. ctl' \in Ctl /\ ctl'.gen = g /\ ctl'.pc = "sent" /\ ctl'.copy = ctl.copy
    BY <1>0, <2>1, <2>2, Types DEF Ctl
  <2>4. \A s \in Slug : task[g][s] = "waiting"
    BY <1>0, <2>1, <2>2 DEF NotSent
  <2> DEFINE first == [s \in Slug |-> IF s \in First THEN "queued" ELSE "waiting"]
  <2>5. task' = [task EXCEPT ![g] = first]
    <3>1. task' = [task EXCEPT ![g] = [s \in Slug |-> IF s \in First THEN "queued" ELSE task[g][s]]]
      BY <1>0, <1>2, <2>2, Types DEF SendChain
    <3> QED
      BY <2>4, <3>1
  <2>6. /\ task' \in [Gen -> [Slug -> TaskState]]
        /\ \A h \in Gen : h # g => task'[h] = task[h]
        /\ \A s \in Slug : task'[g][s] = IF s \in First THEN "queued" ELSE "waiting"
    BY <1>0, <2>5, Types DEF TaskState
  <2> HIDE DEF first
  <2>7. TypeOK'
    BY <1>0, <2>1, <2>3, <2>6 DEF TypeOK, Ctl
  <2>8. InOrder'
    <3> SUFFICES ASSUME NEW h \in Gen, NEW s \in Slug, NEW t \in Slug, Level[s] < Level[t],
                        task'[h][t] # "waiting"
                 PROVE  task'[h][s] = "succeeded"
      BY DEF InOrder
    <3>1. CASE h # g
      BY <1>0, <2>6, <3>1 DEF InOrder
    <3>2. CASE h = g
      BY <2>6, <3>2 DEF First
    <3> QED
      BY <3>1, <3>2
  <2>9. Forward
    BY <2>1, <2>4, <2>6 DEF Forward, Begun, Unfinished
  <2>10. NotSent'
    <3>1. g \in Nat
      BY DEF Gen
    <3> QED
      BY <1>0, <2>2, <2>3, <2>6, <3>1 DEF NotSent
  <2> QED
    BY <2>1, <2>3, <2>7, <2>8, <2>9, <2>10, JStep
<1>3. CASE FetchRows
  <2>1. /\ ctl.pc = "sent" /\ ctl' = [ctl EXCEPT !.pc = "saving", !.copy = rows, !.next = 1]
        /\ UNCHANGED <<rows, task, revoked, msgs, cancels>>
    BY <1>3 DEF FetchRows
  <2>2. ctl' \in Ctl /\ ctl'.gen = ctl.gen /\ ctl'.pc = "saving" /\ ctl'.copy = rows
    <3>1. 1 \in 1..(N + 1)
      OBVIOUS
    <3> QED
      BY <1>0, <2>1, <3>1, Types DEF Ctl
  <2>3. TypeOK' /\ InOrder' /\ Forward
    BY <1>0, <2>1, <2>2 DEF TypeOK, InOrder, Forward, Begun, Ctl
  <2>4. NotSent'
    BY <1>0, <2>1, <2>2 DEF NotSent
  <2> QED
    BY <2>1, <2>2, <2>3, <2>4, JStep
<1>4. CASE SaveTaskId
  <2> DEFINE n == ctl.next
             saved == [ctl.copy[n] EXCEPT !.id = ctl.gen]
  <2>1. /\ ctl.pc = "saving" /\ n \in Slug /\ n + 1 \in 1..(N + 1)
        /\ ctl' = [ctl EXCEPT !.next = n + 1] /\ rows' = [rows EXCEPT ![n] = saved]
        /\ UNCHANGED <<task, revoked, msgs, cancels>>
    BY <1>0, <1>4, Types DEF SaveTaskId, Slug, Ctl
  <2>2. ctl' \in Ctl /\ ctl'.gen = ctl.gen /\ ctl'.pc = "saving" /\ ctl'.copy = ctl.copy
    BY <1>0, <2>1, Types DEF Ctl
  <2>3. saved \in Row /\ saved.status = ctl.copy[n].status
    BY <1>0, <2>1, Types, RowUpdates
  <2> HIDE DEF saved
  <2>4. rows' \in [Slug -> Row] /\ \A s \in Slug : rows'[s] = IF s = n THEN saved ELSE rows[s]
    BY <1>0, <2>1, <2>3, Types
  <2> HIDE DEF n
  <2>5. TypeOK' /\ InOrder' /\ Forward
    BY <1>0, <2>1, <2>2, <2>4 DEF TypeOK, InOrder, Forward, Begun, Ctl
  <2>6. NotSent'
    BY <1>0, <2>1, <2>2 DEF NotSent
  <2>7. \A s \in Slug : rows'[s].status \in {rows[s].status, ctl.copy[s].status}
    BY <2>3, <2>4
  <2> QED
    BY <2>1, <2>2, <2>5, <2>6, <2>7, JStep
<1>5. CASE EndTaskIds
  <2>1. /\ ctl.pc = "saving" /\ ctl' = [ctl EXCEPT !.pc = "idle"]
        /\ UNCHANGED <<rows, task, revoked, msgs, cancels>>
    BY <1>5 DEF EndTaskIds
  <2>2. ctl' \in Ctl /\ ctl'.gen = ctl.gen /\ ctl'.pc = "idle" /\ ctl'.copy = ctl.copy
    BY <1>0, <2>1, Types DEF Ctl
  <2>3. TypeOK' /\ InOrder' /\ Forward
    BY <1>0, <2>1, <2>2 DEF TypeOK, InOrder, Forward, Begun, Ctl
  <2>4. NotSent'
    BY <1>0, <2>1, <2>2 DEF NotSent
  <2> QED
    BY <2>1, <2>2, <2>3, <2>4, JStep
<1> QED
  BY <1>1, <1>2, <1>3, <1>4, <1>5 DEF Controller

\* A client cancels.
LEMMA CancelRequestJ == ASSUME JInv, CancelRequest PROVE JInv' /\ Forward
<1>0. TypeOK /\ InOrder /\ NotSent
  BY DEF JInv
<1>1. /\ ctl.gen \in Gen /\ UNCHANGED <<rows, ctl, task, revoked>>
      /\ cancels' = cancels \cup {ctl.gen}
      /\ msgs' = msgs \cup {Send("cancel_subtasks", ctl.gen, 1)}
  BY DEF CancelRequest
<1>2. 1 \in Slug
  BY DEF Slug
<1>3. Send("cancel_subtasks", ctl.gen, 1) \in Msg
  BY <1>1, <1>2 DEF Send, Msg, Kind
<1>4. TypeOK' /\ InOrder' /\ NotSent' /\ Forward
  BY <1>0, <1>1, <1>3 DEF TypeOK, InOrder, NotSent, Forward, Begun
<1>5. \A m \in msgs' : m \in msgs \/ Caused(m)'
  BY <1>1 DEF Caused, Send
<1> QED
  BY <1>1, <1>4, <1>5, JStep

\* A worker takes task s, or gives up on it: task s goes on to a state that is not
\* before the queue.
LEMMA TaskStep ==
  ASSUME JInv, NEW g \in Gen, NEW s \in Slug, NEW st \in {"running", "failed", "revoked"},
         task[g][s] \in {"queued", "running"}, task' = [task EXCEPT ![g][s] = st],
         UNCHANGED <<rows, ctl, revoked, cancels>>,
         msgs' \subseteq Msg, \A m \in msgs' : m \in msgs \/ Caused(m)'
  PROVE  JInv' /\ Forward
<1>0. TypeOK /\ InOrder /\ NotSent
  BY DEF JInv
<1>1. /\ task' \in [Gen -> [Slug -> TaskState]]
      /\ task'[g][s] = st
      /\ \A h \in Gen, t \in Slug : h # g \/ t # s => task'[h][t] = task[h][t]
  BY <1>0, Types DEF TaskState
<1>2. TypeOK'
  BY <1>0, <1>1 DEF TypeOK
<1>3. InOrder'
  <2> SUFFICES ASSUME NEW h \in Gen, NEW u \in Slug, NEW t \in Slug, Level[u] < Level[t],
                      task'[h][t] # "waiting"
               PROVE  task'[h][u] = "succeeded"
    BY DEF InOrder
  <2>1. task[h][t] # "waiting"
    BY <1>1
  <2>2. task[h][u] = "succeeded"
    BY <1>0, <2>1 DEF InOrder
  <2> QED
    BY <1>1, <2>2
<1>4. NotSent'
  BY <1>0, <1>1 DEF NotSent
<1>5. Forward
  BY <1>1 DEF Forward, Begun, Unfinished
<1> QED
  BY <1>2, <1>3, <1>4, <1>5, JStep

\* The next level of the canvas is sent when the last task of a level returns.
LEMMA FinishTaskJ ==
  ASSUME JInv, NEW g \in Gen, NEW s \in Slug, FinishTask(g, s)
  PROVE  JInv' /\ Forward
<1>0. TypeOK /\ InOrder /\ NotSent /\ task[g][s] = "running"
      /\ UNCHANGED <<rows, ctl, revoked, cancels>>
      /\ msgs' = msgs \cup {Send("record_sub_task_success", g, s)}
  BY DEF JInv, FinishTask
<1> DEFINE done == [task[g] EXCEPT ![s] = "succeeded"]
           all  == \A t \in Slug : Level[t] = Level[s] => done[t] = "succeeded"
           next == IF all THEN [t \in Slug |-> IF t \in Following(s) THEN "queued" ELSE done[t]]
                   ELSE done
<1>1. /\ done \in [Slug -> TaskState] /\ done[s] = "succeeded"
      /\ \A t \in Slug : t # s => done[t] = task[g][t]
  BY <1>0, Types DEF TaskState
<1>2. task' = [task EXCEPT ![g] = next]
  BY <1>0 DEF FinishTask
<1> HIDE DEF done
<1>3. next \in [Slug -> TaskState]
  BY <1>1 DEF TaskState
<1>4. s \notin Following(s)
  BY DEF Following
<1>5. /\ \A t \in Slug : next[t] = done[t] \/ (all /\ t \in Following(s) /\ next[t] = "queued")
      /\ next[s] = "succeeded"
  BY <1>1, <1>4
<1> HIDE DEF next
<1>6. /\ task' \in [Gen -> [Slug -> TaskState]] /\ task'[g] = next
      /\ \A h \in Gen : h # g => task'[h] = task[h]
  BY <1>0, <1>2, <1>3, Types
<1>7. \A t \in Following(s) : t \in Slug /\ Level[s] < Level[t] /\ task[g][t] = "waiting"
  BY <1>0 DEF Following, InOrder
<1>8. TypeOK'
  <2>1. Send("record_sub_task_success", g, s) \in Msg
    BY DEF Send, Msg, Kind
  <2> QED
    BY <1>0, <1>6, <2>1 DEF TypeOK
<1>9. ASSUME NEW t \in Slug, task[g][t] \notin {"waiting", "queued"}
      PROVE  next[t] = task[g][t] \/ t = s
  BY <1>1, <1>5, <1>7, <1>9
<1>10. InOrder'
  <2> SUFFICES ASSUME NEW h \in Gen, NEW u \in Slug, NEW t \in Slug, Level[u] < Level[t],
                      task'[h][t] # "waiting"
               PROVE  task'[h][u] = "succeeded"
    BY DEF InOrder
  <2>1. CASE h # g
    BY <1>0, <1>6, <2>1 DEF InOrder
  <2>2. CASE h = g /\ task[g][t] # "waiting"
    <3>1. task[g][u] = "succeeded"
      BY <1>0, <2>2 DEF InOrder
    <3> QED
      BY <1>5, <1>6, <1>9, <2>2, <3>1
  <2>3. CASE h = g /\ task[g][t] = "waiting"
    <3>1. all /\ t \in Following(s)
      BY <1>0, <1>1, <1>5, <1>6, <2>3
    <3>2. Level[u] \in Nat /\ Level[s] \in Nat /\ Level[t] \in Nat
      OBVIOUS
    <3>3. ~(Level[s] < Level[u])
      BY <3>1, <3>2 DEF Following
    <3>4. CASE Level[u] = Level[s]
      <4>1. done[u] = "succeeded" /\ u \notin Following(s)
        BY <3>1, <3>3, <3>4 DEF Following
      <4> QED
        BY <1>5, <1>6, <2>3, <4>1
    <3>5. CASE Level[u] < Level[s]
      <4>1. task[g][u] = "succeeded"
        BY <1>0, <3>5 DEF InOrder
      <4> QED
        BY <1>5, <1>6, <1>9, <2>3, <4>1
    <3> QED
      BY <3>2, <3>3, <3>4, <3>5
  <2> QED
    BY <2>1, <2>2, <2>3
<1>11. NotSent'
  <2>1. ASSUME NEW h \in Gen, ctl.gen < h \/ (ctl.gen = h /\ ctl.pc = "replaced") PROVE h # g
    BY <1>0, <2>1 DEF NotSent
  <2> QED
    BY <1>0, <1>6, <2>1 DEF NotSent
<1>12. Forward
  <2>1. \A h \in Gen, t \in Slug : Begun(h, t) => task'[h][t] = task[h][t] \/ (h = g /\ t = s)
    BY <1>6, <1>9 DEF Begun
  <2> QED
    BY <1>0, <1>5, <1>6, <2>1 DEF Forward, Begun, Unfinished
<1>13. \A m \in msgs' : m \in msgs \/ Caused(m)'
  BY <1>0, <1>5, <1>6 DEF Caused, Send
<1> QED
  BY <1>0, <1>8, <1>10, <1>11, <1>12, <1>13, JStep

\* All that workers do.
LEMMA WorkerJ ==
  ASSUME JInv, NEW g \in Gen, NEW s \in Slug, Worker(g, s)
  PROVE  JInv' /\ Forward
<1>0. task \in [Gen -> [Slug -> TaskState]] /\ msgs \subseteq Msg
  BY DEF JInv, TypeOK
<1>1. CASE StartTask(g, s)
  <2>1. /\ task[g][s] = "queued" /\ task' = [task EXCEPT ![g][s] = "running"]
        /\ UNCHANGED <<rows, ctl, revoked, cancels>>
        /\ msgs' = msgs \cup {Send("record_sub_task_start", g, s)}
                        \cup (IF s \in Senders THEN {Send("update_task_id", g, s)} ELSE {})
    BY <1>1 DEF StartTask
  <2>2. task'[g][s] = "running"
    BY <1>0, <2>1
  <2>3. /\ Send("record_sub_task_start", g, s) \in Msg /\ Send("update_task_id", g, s) \in Msg
    BY DEF Send, Msg, Kind
  <2>4. msgs' \subseteq Msg
    BY <1>0, <2>1, <2>3
  <2>5. \A m \in msgs' : m \in msgs \/ Caused(m)'
    BY <2>1, <2>2 DEF Caused, Send, Begun
  <2> QED
    BY <2>1, <2>4, <2>5, TaskStep
<1>2. CASE FinishTask(g, s)
  BY <1>2, FinishTaskJ
<1>3. CASE FailTask(g, s)
  <2> DEFINE own  == Send("record_sub_task_failure", g, s)
             next == {Send("record_sub_task_failure", g, t) : t \in Following(s)}
             call == Send("chord_error_callback", g, s)
  <2>1. /\ task[g][s] = "running" /\ task' = [task EXCEPT ![g][s] = "failed"]
        /\ UNCHANGED <<rows, ctl, revoked, cancels>>
        /\ msgs' \subseteq msgs \cup {own} \cup next \cup {call}
    BY <1>3 DEF FailTask
  <2>2. task'[g][s] = "failed"
    BY <1>0, <2>1
  <2>3. own \in Msg /\ call \in Msg /\ \A t \in Slug : Send("record_sub_task_failure", g, t) \in Msg
    BY DEF Send, Msg, Kind
  <2>4. Following(s) \subseteq Slug /\ next \subseteq Msg
    BY <2>3 DEF Following
  <2>5. msgs' \subseteq Msg
    BY <1>0, <2>1, <2>3, <2>4
  <2>6. ASSUME NEW m \in msgs' PROVE m \in msgs \/ Caused(m)'
    <3>1. m = own => m.kind = "record_sub_task_failure" /\ m.gen = g /\ m.slug = s
      BY DEF Send
    <3>2. m \in next => /\ m.kind = "record_sub_task_failure" /\ m.gen = g
                        /\ m.slug \in Following(s)
      BY DEF Send
    <3>3. m = call => m.kind = "chord_error_callback"
      BY DEF Send
    <3> HIDE DEF own, next, call
    <3>4. m.kind = "record_sub_task_failure" /\ m.gen = g /\ (m.slug = s \/ m.slug \in Following(s))
            => Caused(m)'
      BY <2>2 DEF Caused, Following
    <3>5. m.kind = "chord_error_callback" => Caused(m)'
      BY DEF Caused
    <3> QED
      BY <2>1, <3>1, <3>2, <3>3, <3>4, <3>5
  <2> QED
    BY <2>1, <2>5, <2>6, TaskStep
<1>4. CASE RevokedHandler(g, s)
  <2>1. /\ task[g][s] \in {"queued", "running"} /\ task' = [task EXCEPT ![g][s] = "revoked"]
        /\ UNCHANGED <<rows, ctl, revoked, cancels>>
        /\ msgs' = msgs \cup {Send("cancel_subtasks", g, s)}
        /\ cancels # {}
    BY <1>4 DEF RevokedHandler, JInv
  <2>2. Send("cancel_subtasks", g, s) \in Msg
    BY DEF Send, Msg, Kind
  <2>3. \A m \in msgs' : m \in msgs \/ Caused(m)'
    BY <2>1 DEF Caused, Send
  <2> QED
    BY <1>0, <2>1, <2>2, <2>3, TaskStep
<1> QED
  BY <1>1, <1>2, <1>3, <1>4 DEF Worker

\* What is left to show of a step of the monitor: what it writes into the rows has
\* its reason.
LEMMA MonitorStep ==
  ASSUME JInv, UNCHANGED <<ctl, task, cancels>>, rows' \in [Slug -> Row],
         revoked' \subseteq Gen \X Slug, msgs' \subseteq Msg,
         \A m \in msgs' : Caused(m),
         revoked' = revoked \/ cancels # {},
         \A s \in Slug : rows'[s].status = rows[s].status \/ rows'[s].status \in Reasons(s)
  PROVE  JInv' /\ Forward
<1>1. TypeOK' /\ InOrder' /\ NotSent' /\ Forward
  BY DEF JInv, TypeOK, InOrder, NotSent, Forward, Begun
<1>2. \A s \in Slug : Reasons(s)' = Reasons(s)
  BY DEF Reasons, Justified
<1>3. \A m \in msgs' : Caused(m)'
  BY DEF Caused, Begun
<1>4. revoked' # {} => revoked # {} \/ cancels' # {}
  OBVIOUS
<1> QED
  BY <1>1, <1>2, <1>3, <1>4, JStep

\* A message is handled, or half of it: nobody's reasons change.
LEMMA Handled ==
  ASSUME JInv, NEW m \in msgs, NEW half, half = [m EXCEPT !.pc = "half"],
         msgs' = msgs \ {m} \/ msgs' = (msgs \ {m}) \cup {half}
  PROVE  msgs' \subseteq Msg /\ \A n \in msgs' : Caused(n)
<1>1. /\ half \in Msg /\ half.kind = m.kind /\ half.gen = m.gen /\ half.slug = m.slug
      /\ m \in Msg /\ msgs \subseteq Msg
  BY DEF JInv, TypeOK, Msg
<1>2. Caused(half)
  BY <1>1 DEF JInv, Caused
<1> QED
  BY <1>1, <1>2 DEF JInv

\* A record_sub_task_* message sets the id of one row, and its status.
LEMMA RecordStep ==
  ASSUME JInv, NEW m \in msgs, UNCHANGED <<ctl, task, revoked, cancels>>, msgs' = msgs \ {m},
         NEW status \in RowStatus,
         rows' = [rows EXCEPT ![m.slug] = [rows[m.slug] EXCEPT !.id = m.gen, !.status = status]],
         status = rows[m.slug].status \/ status \in Reasons(m.slug)
  PROVE  JInv' /\ Forward
<1>0. TypeOK /\ m.slug \in Slug /\ m.gen \in 0..MaxGen /\ rows[m.slug] \in Row
  BY DEF JInv, TypeOK, Msg, Gen
<1> DEFINE r == [rows[m.slug] EXCEPT !.id = m.gen, !.status = status]
<1>1. r \in Row /\ r.status = status
  BY <1>0, RowUpdates
<1> HIDE DEF r
<1>2. rows' \in [Slug -> Row] /\ \A s \in Slug : rows'[s] = IF s = m.slug THEN r ELSE rows[s]
  BY <1>0, <1>1, Types DEF r
<1>3. msgs' \subseteq Msg /\ \A n \in msgs' : Caused(n)
  BY Handled
<1>4. revoked' \subseteq Gen \X Slug
  BY <1>0 DEF TypeOK
<1> QED
  BY <1>1, <1>2, <1>3, <1>4, MonitorStep

\* All that the monitor does.
LEMMA MonitorJ == ASSUME JInv, NEW m \in msgs, Monitor(m) PROVE JInv' /\ Forward
<1>0. /\ TypeOK /\ Caused(m) /\ m \in Msg /\ m.slug \in Slug /\ m.gen \in Gen
      /\ rows \in [Slug -> Row] /\ rows[m.slug] \in Row /\ m.gen \in 0..MaxGen
      /\ revoked \subseteq Gen \X Slug
  BY DEF JInv, TypeOK, Msg, Gen
<1>1. CASE RecordSubTaskStart(m)
  <2> DEFINE status == StartedStatus(rows[m.slug].status)
  <2>1. /\ UNCHANGED <<ctl, task, revoked, cancels>> /\ msgs' = msgs \ {m}
        /\ rows' = [rows EXCEPT ![m.slug] = [rows[m.slug] EXCEPT !.id = m.gen, !.status = status]]
    BY <1>0, <1>1 DEF RecordSubTaskStart, Row
  <2>2. "STARTED" \in Reasons(m.slug)
    BY <1>0, <1>1 DEF RecordSubTaskStart, Caused, Begun, Reasons, Justified, RowStatus
  <2>3. status \in RowStatus /\ (status = rows[m.slug].status \/ status \in Reasons(m.slug))
    BY <1>0, <2>2 DEF StartedStatus, Row, RowStatus
  <2> HIDE DEF status
  <2> QED
    BY <2>1, <2>3, RecordStep
<1>2. CASE RecordSubTaskSuccess(m)
  <2>1. /\ UNCHANGED <<ctl, task, revoked, cancels>> /\ msgs' = msgs \ {m}
        /\ rows' = [rows EXCEPT ![m.slug] =
                      [rows[m.slug] EXCEPT !.id = m.gen, !.status = "COMPLETED"]]
    BY <1>0, <1>2 DEF RecordSubTaskSuccess, Row
  <2>2. "COMPLETED" \in Reasons(m.slug) /\ "COMPLETED" \in RowStatus
    BY <1>0, <1>2 DEF RecordSubTaskSuccess, Caused, Reasons, Justified, RowStatus
  <2> QED
    BY <2>1, <2>2, RecordStep
<1>3. CASE RecordSubTaskFailure(m)
  <2>1. /\ UNCHANGED <<ctl, task, revoked, cancels>> /\ msgs' = msgs \ {m}
        /\ rows' = [rows EXCEPT ![m.slug] =
                      [rows[m.slug] EXCEPT !.id = m.gen, !.status = "ERROR"]]
    BY <1>0, <1>3 DEF RecordSubTaskFailure, Row
  <2>2. "ERROR" \in Reasons(m.slug) /\ "ERROR" \in RowStatus
    BY <1>0, <1>3 DEF RecordSubTaskFailure, Caused, Reasons, Justified, RowStatus
  <2> QED
    BY <2>1, <2>2, RecordStep
<1>4. CASE ChordErrorCallback(m)
  BY <1>0, <1>4, Handled, MonitorStep DEF ChordErrorCallback
<1>5. CASE QueuePending(m)
  <2>1. "QUEUED" \in RowStatus /\ \A s \in Slug : "QUEUED" \in Reasons(s)
    BY <1>0, <1>5 DEF QueuePending, Caused, Begun, Reasons, Justified, RowStatus
  <2>2. \A s \in Slug : /\ [rows[s] EXCEPT !.status = "QUEUED"] \in Row
                        /\ [rows[s] EXCEPT !.status = "QUEUED"].status = "QUEUED"
    BY <1>0, <2>1, RowUpdates
  <2>3. rows' = [s \in Slug |-> IF rows[s].status = "PENDING"
                               THEN [rows[s] EXCEPT !.status = "QUEUED"] ELSE rows[s]]
    BY <1>5 DEF QueuePending
  <2>4. /\ rows' \in [Slug -> Row]
        /\ \A s \in Slug : rows'[s].status = rows[s].status \/ rows'[s].status = "QUEUED"
    BY <1>0, <2>2, <2>3
  <2>5. /\ UNCHANGED <<ctl, task, revoked, cancels>>
        /\ msgs' = (msgs \ {m}) \cup {[m EXCEPT !.pc = "half"]}
    BY <1>5 DEF QueuePending
  <2>6. msgs' \subseteq Msg /\ \A n \in msgs' : Caused(n)
    BY <2>5, Handled
  <2> QED
    BY <1>0, <2>1, <2>4, <2>5, <2>6, MonitorStep
<1>6. CASE UpdateTaskId(m)
  <2>1. \A s \in Slug : /\ [rows[s] EXCEPT !.id = m.gen] \in Row
                        /\ [rows[s] EXCEPT !.id = m.gen].status = rows[s].status
    BY <1>0, RowUpdates
  <2>2. rows' = [s \in Slug |-> IF s \in Listed /\ Level[m.slug] < Level[s]
                                THEN [rows[s] EXCEPT !.id = m.gen] ELSE rows[s]]
    BY <1>6 DEF UpdateTaskId
  <2>3. rows' \in [Slug -> Row] /\ \A s \in Slug : rows'[s].status = rows[s].status
    BY <1>0, <2>1, <2>2
  <2>4. UNCHANGED <<ctl, task, revoked, cancels>> /\ msgs' = msgs \ {m}
    BY <1>6 DEF UpdateTaskId
  <2>5. msgs' \subseteq Msg /\ \A n \in msgs' : Caused(n)
    BY <2>4, Handled
  <2> QED
    BY <1>0, <2>3, <2>4, <2>5, MonitorStep
<1>7. CASE RevokeActive(m)
  <2>1. /\ UNCHANGED <<rows, ctl, task, cancels>> /\ cancels # {}
        /\ msgs' = (msgs \ {m}) \cup {[m EXCEPT !.pc = "half"]}
        /\ revoked' = revoked \cup
             {<<rows[s].id, s>> : s \in {t \in Slug : rows[t].status \in Active /\ rows[t].id # 0}}
    BY <1>0, <1>7 DEF RevokeActive, Caused
  <2>2. \A s \in Slug : rows[s].id # 0 => <<rows[s].id, s>> \in Gen \X Slug
    BY <1>0 DEF Row, Gen
  <2>3. revoked' \subseteq Gen \X Slug
    BY <1>0, <2>1, <2>2
  <2>4. msgs' \subseteq Msg /\ \A n \in msgs' : Caused(n)
    BY <2>1, Handled
  <2> QED
    BY <1>0, <2>1, <2>3, <2>4, MonitorStep
<1>8. CASE MarkCancelled(m)
  <2>1. "CANCELLED" \in RowStatus /\ \A s \in Slug : "CANCELLED" \in Reasons(s)
    BY <1>0, <1>8 DEF MarkCancelled, Caused, Reasons, Justified, RowStatus
  <2>2. \A s \in Slug : /\ [rows[s] EXCEPT !.status = "CANCELLED"] \in Row
                        /\ [rows[s] EXCEPT !.status = "CANCELLED"].status = "CANCELLED"
    BY <1>0, <2>1, RowUpdates
  <2>3. rows' = [s \in Slug |-> IF rows[s].status \in Active
                               THEN [rows[s] EXCEPT !.status = "CANCELLED"] ELSE rows[s]]
    BY <1>8 DEF MarkCancelled
  <2>4. /\ rows' \in [Slug -> Row]
        /\ \A s \in Slug : rows'[s].status = rows[s].status \/ rows'[s].status = "CANCELLED"
    BY <1>0, <2>2, <2>3
  <2>5. UNCHANGED <<ctl, task, revoked, cancels>> /\ msgs' = msgs \ {m}
    BY <1>8 DEF MarkCancelled
  <2>6. msgs' \subseteq Msg /\ \A n \in msgs' : Caused(n)
    BY <2>5, Handled
  <2> QED
    BY <1>0, <2>1, <2>4, <2>5, <2>6, MonitorStep
<1> QED
  BY <1>1, <1>2, <1>3, <1>4, <1>5, <1>6, <1>7, <1>8 DEF Monitor

-----------------------------------------------------------------------------
(* Any number of executions.                                               *)

\* No execution yet.
LEMMA InitJ == ASSUME Init PROVE JInv
<1>1. TypeOK
  <2>1. 1 \in 1..(N + 1) /\ 0 \in 0..MaxGen
    OBVIOUS
  <2>2. rows \in [Slug -> Row]
    BY <2>1 DEF Init, Row, RowStatus
  <2> QED
    BY <2>1, <2>2 DEF Init, TypeOK, TaskState
<1>2. InOrder /\ NotSent
  BY DEF Init, InOrder, NotSent
<1>3. \A s \in Slug : rows[s].status = "PENDING" /\ ctl.copy[s].status = "PENDING"
  BY DEF Init
<1>4. StatusJustified /\ CopyJustified
  BY <1>3 DEF StatusJustified, CopyJustified, Justified
<1> QED
  BY <1>1, <1>2, <1>4 DEF Init, JInv

\* Each step, of the controller, a client, a worker or the monitor.
LEMMA StepJ == ASSUME JInv, [Next]_vars PROVE JInv' /\ Forward
<1>1. CASE UNCHANGED vars
  <2>1. TypeOK' /\ InOrder' /\ NotSent' /\ Forward
    BY <1>1 DEF vars, JInv, TypeOK, InOrder, NotSent, Forward, Begun
  <2> QED
    BY <1>1, <2>1, JStep DEF vars
<1> QED
  BY <1>1, ControllerJ, CancelRequestJ, WorkerJ, MonitorJ DEF Next

\* However executions, workers, cancellations and the monitor interleave.
THEOREM JInvariant == Spec => []JInv
<1>1. Init => JInv
  BY InitJ
<1>2. JInv /\ [Next]_vars => JInv'
  BY StepJ
<1> QED
  BY <1>1, <1>2, PTL DEF Spec

\* The AnalysisTaskStatus rows, the tasks and the messages keep their types, and
\* cancel_subtasks revokes only tasks that some execution has.
THEOREM TypeCorrect == Spec => []TypeOK
<1>1. JInv => TypeOK
  BY DEF JInv
<1> QED
  BY <1>1, JInvariant, PTL

\* No row shows a status that nothing has caused, whatever _record_subtask_ids
\* saves late and in whatever order the monitor handles its messages.
THEOREM StatusesJustified == Spec => []StatusJustified
<1>1. JInv => StatusJustified
  BY DEF JInv
<1> QED
  BY <1>1, JInvariant, PTL

-----------------------------------------------------------------------------
(* The first execution, with the ids recorded promptly.                    *)

\* How the status of a row changes.
Onward(old, new) ==
  \/ new \in {old, "COMPLETED", "ERROR", "CANCELLED"}
  \/ old = "PENDING" /\ new = "QUEUED"
  \/ old = "QUEUED" /\ new = "STARTED"
Kept == \A s \in Slug : Onward(rows[s].status, rows'[s].status)

\* There is one execution.
LEMMA OneGen == ASSUME MaxGen = 1 PROVE Gen = {1} /\ 0..MaxGen = {0, 1}
  BY DEF Gen

\* When somebody else than the controller does something, the ids are recorded.
LEMMA ControllerIsDone ==
  ASSUME Prompt, MaxGen = 1, JInv, HInv,
         \/ CancelRequest
         \/ \E g \in Gen, s \in Slug : Worker(g, s)
         \/ msgs # {}
  PROVE  ctl.pc = "idle" /\ ctl.gen = 1 /\ \A s \in Slug : rows[s].id = 1 /\ rows[s].gen = 1
<1>0. ctl.gen \in {0, 1}
  BY OneGen, Types DEF JInv
<1>1. ctl.pc = "idle"
  <2> SUFFICES ASSUME ctl.pc # "idle" PROVE FALSE
    OBVIOUS
  <2>1. /\ msgs = {} /\ revoked = {}
        /\ \A g \in Gen, s \in Slug : task[g][s] \in {"waiting", "queued"}
    BY DEF HInv
  <2>2. ~CancelRequest
    BY DEF CancelRequest, Ready
  <2>3. \A g \in Gen, s \in Slug : ~Worker(g, s)
    BY <2>1 DEF Worker, StartTask, FinishTask, FailTask, RevokedHandler, Ready
  <2> QED
    BY <2>1, <2>2, <2>3
<1>2. ctl.gen # 0
  <2> SUFFICES ASSUME ctl.gen = 0 PROVE FALSE
    OBVIOUS
  <2>1. msgs = {}
    BY DEF HInv
  <2>2. \A g \in Gen, s \in Slug : task[g][s] = "waiting"
    BY OneGen DEF JInv, NotSent
  <2>3. \A g \in Gen, s \in Slug : ~Worker(g, s)
    BY <2>2 DEF Worker, StartTask, FinishTask, FailTask, RevokedHandler
  <2>4. ~CancelRequest
    BY OneGen DEF CancelRequest
  <2> QED
    BY <2>1, <2>3, <2>4
<1> QED
  BY <1>0, <1>1, <1>2 DEF HInv

\* What is left to show of a step of somebody else than the controller.
LEMMA HStep ==
  ASSUME Prompt, MaxGen = 1, JInv, JInv', Forward, HInv, ctl' = ctl,
         ctl.pc = "idle", ctl.gen = 1,
         \A s \in Slug : /\ rows'[s].gen = rows[s].gen /\ rows'[s].id \in {rows[s].id, 1}
                         /\ Onward(rows[s].status, rows'[s].status)
                         /\ rows'[s].status = "CANCELLED" =>
                              rows[s].status = "CANCELLED" \/ <<1, s>> \in revoked,
         revoked \subseteq revoked',
         \A m \in msgs' : m.kind = "cancel_subtasks" /\ m.pc = "half" =>
           \/ m \in msgs
           \/ \A s \in Slug : rows'[s].status \in Active => <<1, s>> \in revoked'
  PROVE  HInv' /\ Kept
<1>0. \A s \in Slug : rows[s].gen = 1 /\ rows[s].id = 1
  BY DEF HInv
<1>1. \A s \in Slug : rows'[s].status \in Active => rows[s].status \in Active
  BY DEF Onward, Active
<1>2. \A m \in msgs' : m.kind = "cancel_subtasks" /\ m.pc = "half" =>
        \A s \in Slug : rows'[s].status \in Active => <<ctl'.gen, s>> \in revoked'
  BY <1>1 DEF HInv
<1>3. CancelledIsHalted'
  <2> SUFFICES ASSUME NEW s \in Slug, rows'[s].status = "CANCELLED", rows'[s].gen = 1
               PROVE  task'[1][s] \notin Unfinished \/ <<1, s>> \in revoked'
    BY <1>0 DEF CancelledIsHalted
  <2>1. CASE rows[s].status = "CANCELLED"
    <3>1. task[1][s] \notin Unfinished \/ <<1, s>> \in revoked
      BY <1>0, <2>1 DEF HInv, CancelledIsHalted
    <3>2. 1 \in Gen
      BY OneGen
    <3> QED
      BY <3>1, <3>2 DEF Forward
  <2>2. CASE rows[s].status # "CANCELLED"
    BY <2>2
  <2> QED
    BY <2>1, <2>2
<1>4. \A s \in Slug : rows'[s].gen = 1 /\ rows'[s].id = 1
  BY <1>0
<1>5. HInv'
  BY <1>2, <1>3, <1>4 DEF HInv
<1> QED
  BY <1>5 DEF Kept

\* Clients and workers leave the rows to the monitor.
LEMMA OthersH ==
  ASSUME Prompt, MaxGen = 1, JInv, JInv', Forward, HInv,
         CancelRequest \/ \E g \in Gen, s \in Slug : Worker(g, s)
  PROVE  HInv' /\ Kept
<1>1. ctl.pc = "idle" /\ ctl.gen = 1
  BY ControllerIsDone
<1>2. UNCHANGED <<rows, ctl, revoked>>
  BY DEF CancelRequest, Worker, StartTask, FinishTask, FailTask, RevokedHandler
<1>3. \A m \in msgs' : m.kind = "cancel_subtasks" /\ m.pc = "half" => m \in msgs
  <2>1. ASSUME CancelRequest, NEW m \in msgs', m.pc = "half" PROVE m \in msgs
    BY <2>1 DEF CancelRequest, Send
  <2>2. ASSUME NEW g \in Gen, NEW s \in Slug, Worker(g, s), NEW m \in msgs', m.pc = "half"
        PROVE  m \in msgs
    <3>1. CASE StartTask(g, s)
      BY <2>2, <3>1 DEF StartTask, Send
    <3>2. CASE FinishTask(g, s)
      BY <2>2, <3>2 DEF FinishTask, Send
    <3>3. CASE FailTask(g, s)
      BY <2>2, <3>3 DEF FailTask, Send
    <3>4. CASE RevokedHandler(g, s)
      BY <2>2, <3>4 DEF RevokedHandler, Send
    <3> QED
      BY <2>2, <3>1, <3>2, <3>3, <3>4 DEF Worker
  <2> QED
    BY <2>1, <2>2
<1>4. \A s \in Slug : Onward(rows[s].status, rows'[s].status)
  BY <1>2 DEF Onward
<1> QED
  BY <1>1, <1>2, <1>3, <1>4, HStep

\* The monitor marks what it has revoked.
LEMMA MonitorH ==
  ASSUME Prompt, MaxGen = 1, JInv, JInv', Forward, HInv, NEW m \in msgs, Monitor(m)
  PROVE  HInv' /\ Kept
<1>0. /\ ctl.pc = "idle" /\ ctl.gen = 1 /\ m \in Msg /\ m.gen = 1 /\ m.slug \in Slug
      /\ rows \in [Slug -> Row] /\ \A s \in Slug : rows[s] \in Row /\ rows[s].id = 1
      /\ rows' \in [Slug -> Row]
  BY ControllerIsDone, OneGen DEF JInv, TypeOK, Msg
<1>1. ctl' = ctl /\ revoked \subseteq revoked'
  BY DEF Monitor, RecordSubTaskStart, RecordSubTaskSuccess, RecordSubTaskFailure,
         ChordErrorCallback, QueuePending, UpdateTaskId, RevokeActive, MarkCancelled
<1>2. ASSUME NEW s \in Slug
      PROVE  /\ rows'[s].gen = rows[s].gen /\ rows'[s].id \in {rows[s].id, 1}
             /\ Onward(rows[s].status, rows'[s].status)
             /\ rows'[s].status = "CANCELLED" =>
                  rows[s].status = "CANCELLED" \/ <<1, s>> \in revoked
  <2>0. rows[s] \in Row
    BY <1>0
  <2>1. CASE RecordSubTaskStart(m)
    BY <1>0, <2>0, <2>1 DEF RecordSubTaskStart, StartedStatus, Onward, Row
  <2>2. CASE RecordSubTaskSuccess(m)
    BY <1>0, <2>0, <2>2 DEF RecordSubTaskSuccess, Onward, Row
  <2>3. CASE RecordSubTaskFailure(m)
    BY <1>0, <2>0, <2>3 DEF RecordSubTaskFailure, Onward, Row
  <2>4. CASE ChordErrorCallback(m) \/ RevokeActive(m)
    BY <2>4 DEF ChordErrorCallback, RevokeActive, Onward
  <2>5. CASE QueuePending(m)
    BY <2>0, <2>5 DEF QueuePending, Onward, Row
  <2>6. CASE UpdateTaskId(m)
    BY <1>0, <2>0, <2>6 DEF UpdateTaskId, Onward, Row
  <2>7. CASE MarkCancelled(m)
    <3>1. rows[s].status \in Active => <<1, s>> \in revoked
      BY <1>0, <2>7 DEF MarkCancelled, HInv
    <3> QED
      BY <2>0, <2>7, <3>1 DEF MarkCancelled, Onward, Row
  <2> QED
    BY <2>1, <2>2, <2>3, <2>4, <2>5, <2>6, <2>7 DEF Monitor
<1>3. ASSUME NEW n \in msgs', n.kind = "cancel_subtasks", n.pc = "half"
      PROVE  \/ n \in msgs
             \/ \A s \in Slug : rows'[s].status \in Active => <<1, s>> \in revoked'
  <2>1. CASE RevokeActive(m)
    BY <1>0, <2>1 DEF RevokeActive
  <2>2. CASE QueuePending(m)
    <3>1. [m EXCEPT !.pc = "half"].kind = "update_task_id"
      BY <1>0, <2>2 DEF QueuePending, Msg
    <3> QED
      BY <1>3, <2>2, <3>1 DEF QueuePending
  <2>3. CASE msgs' = msgs \ {m}
    BY <2>3
  <2> QED
    BY <2>1, <2>2, <2>3 DEF Monitor, RecordSubTaskStart, RecordSubTaskSuccess,
       RecordSubTaskFailure, ChordErrorCallback, UpdateTaskId, MarkCancelled
<1> QED
  BY <1>0, <1>1, <1>2, <1>3, HStep

\* The controller is alone while it works.
LEMMA ControllerH ==
  ASSUME Prompt, MaxGen = 1, JInv, JInv', HInv, Controller
  PROVE  HInv' /\ Kept
<1>0. /\ TypeOK /\ NotSent /\ TypeOK' /\ NotSent' /\ ctl \in Ctl /\ ctl.gen \in {0, 1}
      /\ ctl.next \in 1..(N + 1) /\ \A s \in Slug : rows[s] \in Row /\ ctl.copy[s] \in Row
      /\ rows \in [Slug -> Row]
  BY Types, OneGen DEF JInv
<1>1. CASE ReplaceSubtaskStatuses
  <2>1. ctl.gen = 0 /\ UNCHANGED <<task, revoked, msgs, cancels>>
    BY <1>0, <1>1 DEF ReplaceSubtaskStatuses
  <2>2. ctl'.gen = 1 /\ ctl'.pc = "replaced"
    BY <1>0, <1>1, <2>1 DEF ReplaceSubtaskStatuses, Ctl
  <2>3. \A s \in Slug : /\ rows'[s].gen = 1 /\ rows'[s].status = "PENDING"
                        /\ rows[s].status = "PENDING"
    BY <1>1, <2>1 DEF ReplaceSubtaskStatuses, HInv
  <2>4. \A g \in Gen, s \in Slug : task'[g][s] = "waiting"
    BY <1>0, <2>2, OneGen DEF NotSent
  <2>5. msgs' = {} /\ revoked' = {}
    BY <2>1 DEF HInv
  <2>6. CancelledIsHalted'
    BY <2>3 DEF CancelledIsHalted
  <2> QED
    BY <2>2, <2>3, <2>4, <2>5, <2>6 DEF HInv, Kept, Onward
<1>2. CASE ~ReplaceSubtaskStatuses
  <2>1. /\ ctl.pc # "idle" /\ UNCHANGED <<revoked, msgs, cancels>>
        /\ ctl.gen = 1
    BY <1>0, <1>2 DEF Controller, SendChain, FetchRows, SaveTaskId, EndTaskIds, HInv
  <2>2. /\ msgs' = {} /\ revoked' = {}
        /\ \A s \in Slug : rows[s].status = "PENDING" /\ rows[s].gen = 1
        /\ \A g \in Gen, s \in Slug : task[g][s] \in {"waiting", "queued"}
    BY <2>1 DEF HInv
  <2>3. ASSUME rows' = rows PROVE CancelledIsHalted' /\ Kept
    BY <2>2, <2>3 DEF CancelledIsHalted, Kept, Onward
  <2>4. CASE SendChain
    <3>1. rows' = rows /\ ctl'.gen = 1 /\ ctl'.pc = "sent"
      BY <1>0, <2>1, <2>4 DEF SendChain, Ctl
    <3>2. \A g \in Gen, s \in Slug : task'[g][s] \in {"waiting", "queued"}
      <4>1. 1 \in Gen /\ task \in [Gen -> [Slug -> TaskState]]
        BY <1>0, OneGen DEF TypeOK
      <4>2. \A s \in Slug : task'[1][s] = IF s \in First THEN "queued" ELSE task[1][s]
        BY <2>1, <2>4, <4>1 DEF SendChain
      <4> QED
        BY <2>2, <4>1, <4>2, OneGen
    <3> QED
      BY <2>2, <2>3, <3>1, <3>2 DEF HInv
  <2>5. CASE FetchRows
    <3>1. /\ rows' = rows /\ task' = task /\ ctl'.gen = 1 /\ ctl'.pc = "saving"
          /\ ctl'.copy = rows /\ ctl'.next = 1
      BY <1>0, <2>1, <2>5 DEF FetchRows, Ctl
    <3>2. \A s \in Slug : ~(s < 1)
      BY DEF Slug
    <3> QED
      BY <2>2, <2>3, <3>1, <3>2 DEF HInv
  <2>6. CASE SaveTaskId
    <3>1. PICK n \in Slug : n = ctl.next
      BY <1>0, <2>6 DEF SaveTaskId, Slug
    <3>2. /\ task' = task /\ ctl'.gen = 1 /\ ctl'.pc = "saving" /\ ctl.pc = "saving"
          /\ ctl'.copy = ctl.copy /\ ctl'.next = n + 1
          /\ rows' = [rows EXCEPT ![n] = [ctl.copy[n] EXCEPT !.id = 1]]
      BY <1>0, <2>1, <2>6, <3>1 DEF SaveTaskId, Ctl
    <3>3. \A s \in Slug : /\ ctl.copy[s].gen = 1 /\ ctl.copy[s].status = "PENDING"
                          /\ s < n => rows[s].id = 1
      BY <2>1, <3>1, <3>2 DEF HInv
    <3>4. /\ rows'[n].gen = 1 /\ rows'[n].status = "PENDING" /\ rows'[n].id = 1
          /\ \A s \in Slug : s # n => rows'[s] = rows[s]
      BY <1>0, <3>2, <3>3 DEF Row
    <3>5. \A s \in Slug : s < n + 1 => s = n \/ s < n
      BY DEF Slug
    <3>6. \A s \in Slug : /\ rows'[s].gen = 1 /\ rows'[s].status = "PENDING"
                          /\ s < n + 1 => rows'[s].id = 1
      BY <2>2, <3>3, <3>4, <3>5
    <3>7. CancelledIsHalted' /\ Kept
      BY <2>2, <3>6 DEF CancelledIsHalted, Kept, Onward
    <3> QED
      BY <2>2, <3>2, <3>3, <3>6, <3>7 DEF HInv
  <2>7. CASE EndTaskIds
    <3>1. /\ rows' = rows /\ task' = task /\ ctl'.gen = 1 /\ ctl'.pc = "idle"
          /\ ctl.pc = "saving" /\ ctl.next = N + 1
      BY <1>0, <2>1, <2>7 DEF EndTaskIds, Ctl
    <3>2. \A s \in Slug : s < N + 1
      BY DEF Slug
    <3>3. \A s \in Slug : rows[s].id = 1
      BY <2>1, <3>1, <3>2 DEF HInv
    <3> QED
      BY <2>2, <2>3, <3>1, <3>3 DEF HInv
  <2> QED
    BY <1>2, <2>4, <2>5, <2>6, <2>7 DEF Controller
<1> QED
  BY <1>1, <1>2

\* Before the execution.
LEMMA InitH == ASSUME Init PROVE HInv
  BY DEF Init, HInv, CancelledIsHalted

\* Each step of the first execution.
LEMMA StepH ==
  ASSUME Prompt, MaxGen = 1, JInv, HInv, [Next]_vars
  PROVE  HInv' /\ Kept
<1>1. JInv' /\ Forward
  BY StepJ
<1>2. CASE UNCHANGED vars
  BY <1>2 DEF vars, HInv, CancelledIsHalted, Kept, Onward
<1> QED
  BY <1>1, <1>2, OthersH, MonitorH, ControllerH DEF Next

\* The first execution of an analysis, its ids recorded promptly.
THEOREM HInvariant == Prompt /\ MaxGen = 1 => (Spec => [](JInv /\ HInv))
<1> SUFFICES ASSUME Prompt, MaxGen = 1 PROVE Spec => [](JInv /\ HInv)
  OBVIOUS
<1>1. Init => JInv /\ HInv
  BY InitJ, InitH
<1>2. (JInv /\ HInv) /\ [Next]_vars => (JInv /\ HInv)'
  BY StepJ, StepH
<1> QED
  BY <1>1, <1>2, PTL DEF Spec

\* cancel_subtasks marks a row only when its task is over or its revocation has been
\* broadcast, although the rows it marks are not the ones it revoked: a second
\* statement selects them anew, while workers go on and messages arrive.
THEOREM CancelledAreHalted == Prompt /\ MaxGen = 1 => (Spec => []CancelledIsHalted)
<1>1. HInv => CancelledIsHalted
  BY DEF HInv
<1> QED
  BY <1>1, HInvariant, PTL

\* update_task_id and record_sub_task_start never take a row back, in whatever order
\* they and the other messages are handled.
THEOREM StatusesKept == Prompt /\ MaxGen = 1 => (Spec => NotOverwritten)
<1> SUFFICES ASSUME Prompt, MaxGen = 1 PROVE Spec => NotOverwritten
  OBVIOUS
<1>1. JInv /\ HInv /\ [Next]_vars =>
        [\A s \in Slug :
           rows'[s].gen = rows[s].gen =>
             /\ rows[s].status \in {"STARTED", "COMPLETED"} =>
                  rows'[s].status \notin {"PENDING", "QUEUED"}
             /\ rows[s].status = "COMPLETED" => rows'[s].status # "STARTED"]_vars
  BY StepH DEF Kept, Onward
<1> QED
  BY <1>1, HInvariant, PTL DEF Spec, NotOverwritten
=============================================================================
