------------------------- MODULE V1Execution_proofs -------------------------
(***************************************************************************)
(* RunsBounded of V1Execution, for any number of requests, any max_retries *)
(* and any number of deaths, whether or not requests overlap; and, under   *)
(* Prompt, that V1Execution implements AnalysisWorkflow.                   *)
(*                                                                         *)
(* For the first, an account of the runs that are still possible.  Each    *)
(* message has its own share of them: a fresh one what is left of          *)
(* max_retries + 1, one that runs or is redelivered one run less.  No step *)
(* of a worker increases a share, beginning the work takes one run out of  *)
(* it, and only a lost acknowledgement opens a new one, of at most         *)
(* max_retries.                                                            *)
(*                                                                         *)
(* For the second, WInv says who can be in the middle of something at a    *)
(* time (a request, or a message), that copies of the row are then still   *)
(* equal to it, and that an active status has work under way to end it.    *)
(***************************************************************************)
EXTENDS V1Execution, TLAPS

USE V1Assumption

Req == [op : V1Ops, pc : {"idle", "begun", "saved", "dispatched", "done"}, obj : Row]

-----------------------------------------------------------------------------
(* Types.                                                                  *)

\* A new Analysis object is a row.
LEMMA NewRowType == NewRow \in Row
  BY DEF NewRow, Row, Status, File

\* The columns that are assigned take values of their types.
LEMMA RowUpdates ==
  ASSUME NEW r \in Row, NEW s \in Status, NEW f \in File
  PROVE  /\ [r EXCEPT !.status = s] \in Row
         /\ [r EXCEPT !.status = s, !.input = f] \in Row
         /\ [r EXCEPT !.status = s, !.output = f] \in Row
         /\ [r EXCEPT !.status = s, !.run_mode = "null"] \in Row
<1>1. r.status \in Status /\ r.input \in File /\ r.output \in File
  BY DEF Row
<1> QED
  BY <1>1 DEF Row

\* delete_prev_output empties file columns only.
LEMMA ClearedType ==
  ASSUME NEW op, NEW r \in Row
  PROVE  Cleared(op, r) \in Row
  BY DEF Cleared, Row, File

\* A finished request keeps its operation and holds no copy of the row.
LEMMA FinishType ==
  ASSUME TypeOK, NEW r \in Request
  PROVE  Finish(r) \in [Request -> Req]
<1> DEFINE done == [req[r] EXCEPT !.pc = "done", !.obj = NewRow]
<1>1. Finish(r) = [req EXCEPT ![r] = done]
  BY DEF Finish, TypeOK
<1>2. done \in Req
  BY NewRowType DEF TypeOK, Req
<1> HIDE DEF done
<1> QED
  BY <1>1, <1>2 DEF TypeOK, Req

\* A message to the monitor that has just been sent.
LEMMA SendType ==
  ASSUME NEW task \in Task, NEW r \in Request, NEW arg \in Status, NEW ok \in BOOLEAN
  PROVE  Send(task, r, arg, ok) \in Msg
  BY NewRowType DEF Send, Msg

\* So is the report of the errback.
LEMMA FailureType ==
  ASSUME NEW j \in Job
  PROVE  Failure(j) \in Msg
<1>1. "record_failure" \in Task /\ "NEW" \in Status /\ j.id \in Request
  BY DEF Task, Status, Job
<1> QED
  BY <1>1, SendType DEF Failure

\* What workers and the broker make of a message is a message.
LEMMA JobUpdates ==
  ASSUME NEW j \in Job
  PROVE  /\ j.retries < MaxRetries => Retry(j) \in Job
         /\ [j EXCEPT !.at = "running"] \in Job
         /\ [j EXCEPT !.at = "no_keys"] \in Job
         /\ HandedBack(j) \in Job
         /\ \A c \in 0..MaxFaults : [HandedBack(j) EXCEPT !.copy = c] \in Job
<1>1. [j EXCEPT !.at = "running"] \in Job /\ [j EXCEPT !.at = "no_keys"] \in Job
  BY DEF Job
<1>2. HandedBack(j) \in Job
  BY DEF Job, HandedBack
<1>3. \A c \in 0..MaxFaults : [HandedBack(j) EXCEPT !.copy = c] \in Job
  BY <1>2 DEF Job
<1>4. ASSUME j.retries < MaxRetries PROVE Retry(j) \in Job
  <2> DEFINE n == j.retries + 1
  <2>1. n \in 0..MaxRetries
    BY <1>4 DEF Job
  <2>2. Retry(j) = [j EXCEPT !.retries = n, !.redelivered = FALSE, !.at = "queued"]
    BY DEF Retry, Job
  <2> HIDE DEF n
  <2> QED
    BY <2>1, <2>2 DEF Job
<1> QED
  BY <1>1, <1>2, <1>3, <1>4

-----------------------------------------------------------------------------
\* Handlers save objects of the right shape, and dispatch one message.
LEMMA HandlerTypes ==
  ASSUME TypeOK, NEW r \in Request, Handler(r)
  PROVE  TypeOK'
<1>0. req[r] \in Req /\ req[r].obj \in Row /\ req \in [Request -> Req]
  BY DEF TypeOK, Req
<1>1. CASE SaveQueued(r)
  <2> DEFINE obj == ResetFor(req[r].op, req[r].obj)
  <2> DEFINE new == [req[r] EXCEPT !.pc = "saved", !.obj = obj]
  <2>1. {"RUN_QUEUED", "INPUTS_GENERATION_QUEUED"} \subseteq Status /\ NoKey \in File
    BY DEF Status, File
  <2>2. obj \in Row
    BY <1>0, <2>1, RowUpdates DEF ResetFor
  <2>3. req' = [req EXCEPT ![r] = new] /\ row' = obj
    BY <1>1 DEF SaveQueued, TypeOK
  <2> HIDE DEF obj
  <2>4. new \in Req
    BY <1>0, <2>2 DEF Req
  <2> HIDE DEF new
  <2>5. req' \in [Request -> Req]
    BY <1>0, <2>3, <2>4
  <2> QED
    BY <1>1, <2>2, <2>3, <2>5 DEF SaveQueued, TypeOK, Req
<1>2. CASE Dispatch(r)
  <2> DEFINE obj == [req[r].obj EXCEPT !.run_mode = "V1"]
  <2> DEFINE new == [req[r] EXCEPT !.pc = "dispatched", !.obj = obj]
  <2>1. obj \in Row
    BY <1>0 DEF Row
  <2>2. req' = [req EXCEPT ![r] = new]
    BY <1>2 DEF Dispatch, TypeOK
  <2> HIDE DEF obj
  <2>3. new \in Req
    BY <1>0, <2>1 DEF Req
  <2> HIDE DEF new
  <2>4. req' \in [Request -> Req]
    BY <1>0, <2>2, <2>3
  <2>5. [id |-> r, retries |-> 0, redelivered |-> FALSE, at |-> "queued", copy |-> 0] \in Job
    BY DEF Job
  <2>6. jobs' \subseteq Job
    BY <1>2, <2>5 DEF Dispatch, TypeOK
  <2> QED
    BY <1>2, <2>4, <2>6 DEF Dispatch, TypeOK, Req
<1>3. CASE RecordDispatch(r)
  <2>1. row' \in Row
    BY <1>0, <1>3 DEF RecordDispatch, Row
  <2> QED
    BY <1>3, <2>1, FinishType DEF RecordDispatch, TypeOK, Req
<1>4. CASE CancelSave(r)
  <2>1. CancelledStatus(req[r].obj) \in Status
    BY DEF CancelledStatus, Status
  <2>2. row' \in Row
    BY <1>0, <1>4, <2>1, RowUpdates DEF CancelSave, File
  <2>3. jobs' \subseteq jobs /\ known' \subseteq Request
    BY <1>4 DEF CancelSave, TypeOK
  <2> QED
    BY <1>4, <2>2, <2>3, FinishType DEF CancelSave, TypeOK, Req
<1>5. CASE Reject(r)
  BY <1>5, FinishType DEF Reject, TypeOK, Req
<1> QED
  BY <1>1, <1>2, <1>3, <1>4, <1>5 DEF Handler

\* The shape of a step in which an exception or the guard ends an attempt.
LEMMA GiveUpTypes ==
  ASSUME TypeOK, NEW j \in jobs, GiveUpOrRetry(j)
  PROVE  jobs' \subseteq Job /\ msgs' \subseteq Msg
<1>1. j \in Job
  BY DEF TypeOK
<1> QED
  BY <1>1, JobUpdates, FailureType DEF GiveUpOrRetry, TypeOK

\* Workers keep messages within max_retries and copies within the lost
\* acknowledgements.
LEMMA WorkTypes ==
  ASSUME TypeOK, NEW j \in jobs, Work(j) \/ ContainerDies(j)
  PROVE  TypeOK'
<1>0. j \in Job /\ j.id \in Request
  BY DEF TypeOK, Job
<1>a. MayDie => /\ faults.lost + 1 \in 0..MaxFaults
                /\ faults.died + 1 \in 0..MaxFaults
  BY DEF MayDie, TypeOK
<1>1. CASE DropRevoked(j)
  BY <1>1 DEF DropRevoked, TypeOK
<1>2. CASE Guard(j)
  BY <1>2, GiveUpTypes DEF Guard, TypeOK
<1>3. CASE RetryDies(j)
  <2>1. jobs' \subseteq Job
    BY <1>0, <1>3, <1>a, JobUpdates DEF RetryDies, TypeOK
  <2>2. faults' \in [died : 0..MaxFaults, lost : 0..MaxFaults]
    BY <1>3, <1>a DEF RetryDies, TypeOK
  <2> QED
    BY <1>3, <2>1, <2>2 DEF RetryDies, TypeOK
<1>10. CASE FailureDies(j)
  <2>1. jobs' \subseteq Job /\ msgs' \subseteq Msg
    BY <1>0, <1>10, JobUpdates, FailureType DEF FailureDies, TypeOK
  <2>2. faults' \in [died : 0..MaxFaults, lost : 0..MaxFaults]
    BY <1>10, <1>a DEF FailureDies, TypeOK
  <2> QED
    BY <1>10, <2>1, <2>2 DEF FailureDies, TypeOK
<1>4. CASE StartWork(j)
  <2>1. \A s \in {"RUN_STARTED", "INPUTS_GENERATION_STARTED"} :
          Send("set_task_status", j.id, s, FALSE) \in Msg
    BY <1>0, SendType DEF Task, Status
  <2>2. msgs' \subseteq Msg
    BY <1>4, <2>1 DEF StartWork, TypeOK
  <2>3. jobs' \subseteq Job
    BY <1>0, <1>4, JobUpdates DEF StartWork, TypeOK
  <2>4. runs' \in [Request -> Nat]
    BY <1>0, <1>4 DEF StartWork, TypeOK
  <2> QED
    BY <1>4, <2>2, <2>3, <2>4 DEF StartWork, TypeOK
<1>5. CASE NoKeys(j)
  <2>1. Send("set_task_status", j.id, "INPUTS_GENERATION_NO_KEYS", FALSE) \in Msg
    BY <1>0, SendType DEF Task, Status
  <2> QED
    BY <1>0, <1>5, <2>1, JobUpdates DEF NoKeys, TypeOK
<1>6. ASSUME NEW ok \in BOOLEAN, Return(j, ok) PROVE TypeOK'
  <2>1. Send("record_result", j.id, "NEW", ok) \in Msg
    BY <1>0, SendType DEF Task, Status
  <2>2. jobs' \subseteq Job
    <3>1. HandedBack(j) \in Job
      BY <1>0, JobUpdates
    <3>2. jobs' \subseteq jobs \cup {HandedBack(j)}
      BY <1>6 DEF Return
    <3> QED
      BY <3>1, <3>2 DEF TypeOK
  <2>3. faults' \in [died : 0..MaxFaults, lost : 0..MaxFaults]
    BY <1>6, <1>a DEF Return, TypeOK
  <2> QED
    BY <1>6, <2>1, <2>2, <2>3 DEF Return, TypeOK
<1>7. CASE Raise(j)
  BY <1>7, GiveUpTypes DEF Raise, TypeOK
<1>8. CASE ChildDies(j)
  BY <1>0, <1>8, FailureType DEF ChildDies, TypeOK
<1>9. CASE ContainerDies(j)
  <2>1. jobs' \subseteq Job
    BY <1>0, <1>9, JobUpdates DEF ContainerDies, TypeOK
  <2>2. faults' \in [died : 0..MaxFaults, lost : 0..MaxFaults]
    BY <1>9, <1>a DEF ContainerDies, TypeOK
  <2>3. known' \subseteq Request
    BY <1>9 DEF ContainerDies, TypeOK
  <2> QED
    BY <1>9, <2>1, <2>2, <2>3 DEF ContainerDies, TypeOK
<1> QED
  BY <1>1, <1>2, <1>3, <1>4, <1>5, <1>6, <1>7, <1>8, <1>9, <1>10 DEF Work

\* The monitor saves rows of the right shape.
LEMMA MonitorTypes ==
  ASSUME TypeOK, NEW m \in msgs, Monitor(m)
  PROVE  TypeOK'
<1>0. /\ m \in Msg /\ m.obj \in Row /\ m.arg \in Status /\ m.by \in Request
      /\ row \in Row /\ m.by \in File
  BY DEF TypeOK, Msg, File
<1>1. CASE SetTaskStatus(m)
  <2>1. row' \in Row
    BY <1>0, <1>1, RowUpdates DEF SetTaskStatus, File
  <2> QED
    BY <1>1, <2>1 DEF SetTaskStatus, TypeOK
<1>2. CASE ReadRow(m)
  <2>1. [m EXCEPT !.pc = "read", !.obj = row] \in Msg
    BY <1>0 DEF Msg
  <2> QED
    BY <1>2, <2>1 DEF ReadRow, TypeOK
<1>3. CASE ClearPrevious(m)
  <2> DEFINE obj == Cleared(req[m.by].op, m.obj)
  <2>1. row' \in Row /\ obj \in Row
    BY <1>0, <1>3, ClearedType DEF ClearPrevious
  <2>2. [m EXCEPT !.pc = "cleared", !.obj = Cleared(req[m.by].op, @)]
          = [m EXCEPT !.pc = "cleared", !.obj = obj]
    BY <1>0 DEF Msg
  <2> HIDE DEF obj
  <2>3. [m EXCEPT !.pc = "cleared", !.obj = obj] \in Msg
    BY <1>0, <2>1 DEF Msg
  <2> QED
    BY <1>3, <2>1, <2>2, <2>3 DEF ClearPrevious, TypeOK
<1>4. CASE RecordResult(m)
  <2>1. RunRecorded(m.by, m.ok, m.obj) \in Row
    BY <1>0, RowUpdates DEF RunRecorded, Status, File
  <2>2. InputsRecorded(m.by, m.ok, m.obj) \in Row
    <3> DEFINE s == IF m.ok THEN "READY"
                    ELSE IF m.obj.status = "INPUTS_GENERATION_NO_KEYS" THEN m.obj.status
                    ELSE "INPUTS_GENERATION_ERROR"
    <3>1. s \in Status
      BY DEF Status
    <3>2. InputsRecorded(m.by, m.ok, m.obj) = [m.obj EXCEPT !.status = s, !.input = m.by]
      BY <1>0 DEF InputsRecorded, Row
    <3> HIDE DEF s
    <3>3. [m.obj EXCEPT !.status = s, !.input = m.by] \in Row
      BY <1>0, <3>1, RowUpdates
    <3> QED
      BY <3>2, <3>3, Zenon
  <2> QED
    BY <1>4, <2>1, <2>2 DEF RecordResult, TypeOK
<1>5. CASE RecorderFails(m)
  <2>1. Send("record_failure", m.by, "NEW", FALSE) \in Msg
    BY <1>0, SendType DEF Task, Status
  <2> QED
    BY <1>5, <2>1 DEF RecorderFails, TypeOK
<1>6. CASE RecordFailure(m)
  <2>1. ErrorStatus(req[m.by].op) \in Status
    BY DEF ErrorStatus, Status
  <2>2. row' \in Row
    BY <1>0, <1>6, <2>1, RowUpdates DEF RecordFailure
  <2> QED
    BY <1>6, <2>2 DEF RecordFailure, TypeOK
<1> QED
  BY <1>1, <1>2, <1>3, <1>4, <1>5, <1>6 DEF Monitor

\* TypeOK is inductive.
LEMMA StepTypes == TypeOK /\ [Next]_vars => TypeOK'
<1> SUFFICES ASSUME TypeOK, [Next]_vars PROVE TypeOK'
  OBVIOUS
<1>1. ASSUME NEW r \in Request, NEW op \in Ops, BeginRequest(r, op) PROVE TypeOK'
  <2>1. [op |-> op, pc |-> "begun", obj |-> row] \in Req
    BY DEF TypeOK, Req
  <2>2. req' \in [Request -> Req]
    BY <1>1, <2>1 DEF BeginRequest, TypeOK, Req
  <2> QED
    BY <1>1, <2>2 DEF BeginRequest, TypeOK, Req
<1>2. CASE UNCHANGED vars
  BY <1>2 DEF vars, TypeOK
<1> QED
  BY <1>1, <1>2, HandlerTypes, WorkTypes, MonitorTypes DEF Next

\* A fresh or an already READY analysis has its types.
LEMMA InitTypes == Init => TypeOK
<1> SUFFICES ASSUME Init PROVE TypeOK
  OBVIOUS
<1>1. NewRow \in Row /\ ReadyRow \in Row
  BY NewRowType DEF NewRow, ReadyRow, Row, Status, File
<1>2. [op |-> "run", pc |-> "idle", obj |-> NewRow] \in Req
  BY <1>1 DEF Req, V1Ops, StartOp
<1>3. req \in [Request -> Req]
  BY <1>2 DEF Init
<1>4. faults \in [died : 0..MaxFaults, lost : 0..MaxFaults]
  BY DEF Init
<1> QED
  BY <1>1, <1>3, <1>4 DEF Init, TypeOK, Req

-----------------------------------------------------------------------------
(* The account of runs.                                                    *)

\* How often the work behind a message may still begin.
Left(j) == IF j.at = "queued" /\ ~j.redelivered THEN (MaxRetries + 1) - j.retries
                                                ELSE MaxRetries - j.retries

\* The shares of the copies 0, 1, ... of a message, summed up: the share of
\* copy c is S[c + 1] - S[c].
Mark   == 0..(MaxFaults + 1)
Ledger == [Mark -> Nat]

Grows(S) == \A k, l \in Mark : k <= l => S[k] <= S[l]

Fits(S, r) ==
  /\ Grows(S)
  /\ \A j \in jobs : j.id = r => S[j.copy] + Left(j) <= S[j.copy + 1]
  /\ runs[r] + S[faults.lost + 1] <= MaxRetries + 1 + faults.lost * MaxRetries

\* What is not dispatched yet has no message and no run.
Unsent ==
  \A r \in Request : req[r].pc \in {"idle", "begun", "saved"} =>
    runs[r] = 0 /\ \A j \in jobs : j.id # r

\* The copies of a message are told apart.
Distinct ==
  /\ \A i, j \in jobs : i.id = j.id /\ i.copy = j.copy => i = j
  /\ \A j \in jobs : j.copy <= faults.lost

Accounted == \A r \in Request : \E S \in Ledger : Fits(S, r)

RInv == TypeOK /\ Unsent /\ Distinct /\ Accounted

\* A share is a number of runs.
LEMMA LeftType ==
  ASSUME NEW j \in Job
  PROVE  /\ Left(j) \in Nat
         /\ j.copy \in Mark /\ j.copy + 1 \in Mark /\ j.copy \in Nat
         /\ j.at = "queued" /\ ~j.redelivered => Left(j) >= 1
<1>1. j.retries \in 0..MaxRetries /\ j.copy \in 0..MaxFaults
  BY DEF Job
<1> QED
  BY <1>1 DEF Left, Mark

\* Requests that are not dispatched were not dispatched before.
Onward == \A r \in Request : req'[r].pc \in {"idle", "begun", "saved"} =>
                             req[r].pc \in {"idle", "begun", "saved"}

\* A step that takes nothing out of the account, and in which every message takes
\* the place of one with no smaller share.
LEMMA AccountKept ==
  ASSUME RInv, TypeOK', runs' = runs, faults'.lost = faults.lost, Onward,
         \A i \in jobs' : \E h \in jobs : h.id = i.id /\ h.copy = i.copy /\ Left(i) <= Left(h),
         \A h, i \in jobs' : h.id = i.id /\ h.copy = i.copy => h = i
  PROVE  RInv'
<1>0. jobs \subseteq Job /\ jobs' \subseteq Job
  BY DEF RInv, TypeOK
<1>1. \A i \in jobs' : \E h \in jobs : h.id = i.id /\ h.copy = i.copy /\ Left(i) <= Left(h)
  OBVIOUS
<1>2. Unsent'
  BY <1>1 DEF RInv, Unsent, Onward
<1>3. Distinct'
  BY <1>0, <1>1 DEF RInv, Distinct
<1>4. Accounted'
  <2> SUFFICES ASSUME NEW r \in Request PROVE \E S \in Ledger : Fits(S, r)'
    BY DEF Accounted
  <2>1. PICK S \in Ledger : Fits(S, r)
    BY DEF RInv, Accounted
  <2>2. ASSUME NEW i \in jobs', i.id = r PROVE S[i.copy] + Left(i) <= S[i.copy + 1]
    <3>1. PICK h \in jobs : h.id = i.id /\ h.copy = i.copy /\ Left(i) <= Left(h)
      BY <1>1
    <3>2. S[h.copy] + Left(h) <= S[h.copy + 1]
      BY <2>1, <2>2, <3>1 DEF Fits
    <3>3. /\ Left(i) \in Nat /\ Left(h) \in Nat
          /\ S[h.copy] \in Nat /\ S[h.copy + 1] \in Nat
      BY <1>0, LeftType DEF Ledger
    <3> QED
      BY <3>1, <3>2, <3>3
  <2>3. Fits(S, r)'
    BY <2>1, <2>2 DEF Fits, Left
  <2> QED
    BY <2>3
<1> QED
  BY <1>2, <1>3, <1>4 DEF RInv

\* Messages that go away.
LEMMA AccountShrinks ==
  ASSUME RInv, TypeOK', runs' = runs, faults'.lost = faults.lost, Onward, jobs' \subseteq jobs
  PROVE  RInv'
<1>1. \A i \in jobs : Left(i) <= Left(i)
  BY LeftType DEF RInv, TypeOK
<1> QED
  BY <1>1, AccountKept DEF RInv, Distinct

\* A message that another takes the place of.
LEMMA AccountReplaces ==
  ASSUME RInv, TypeOK', runs' = runs, faults'.lost = faults.lost, Onward,
         NEW j \in jobs, NEW k,
         jobs' = (jobs \ {j}) \cup {k},
         k.id = j.id /\ k.copy = j.copy /\ Left(k) <= Left(j)
  PROVE  RInv'
<1>1. \A i \in jobs : Left(i) <= Left(i)
  BY LeftType DEF RInv, TypeOK
<1>2. \A i \in jobs' : \E h \in jobs : h.id = i.id /\ h.copy = i.copy /\ Left(i) <= Left(h)
  BY <1>1
<1>3. \A h, i \in jobs' : h.id = i.id /\ h.copy = i.copy => h = i
  BY DEF RInv, Distinct
<1> QED
  BY <1>2, <1>3, AccountKept

\* _dispatch_v1 opens the account with max_retries + 1 runs.
LEMMA DispatchAccount ==
  ASSUME RInv, NEW r \in Request, Dispatch(r)
  PROVE  RInv'
<1> DEFINE j == [id |-> r, retries |-> 0, redelivered |-> FALSE, at |-> "queued", copy |-> 0]
<1>0. TypeOK'
  BY HandlerTypes DEF RInv, Handler
<1>1. /\ jobs' = jobs \cup {j} /\ runs' = runs /\ faults' = faults
      /\ runs[r] = 0 /\ \A i \in jobs : i.id # r
      /\ j.id = r /\ j.copy = 0
  BY DEF Dispatch, RInv, Unsent
<1>a. Left(j) = MaxRetries + 1
  BY DEF Left
<1> HIDE DEF j
<1>2. faults.lost \in 0..MaxFaults
  BY DEF RInv, TypeOK
<1>3. Unsent'
  <2>1. req'[r].pc = "dispatched" /\ \A q \in Request : q # r => req'[q] = req[q]
    BY DEF Dispatch, RInv, TypeOK
  <2> QED
    BY <1>1, <2>1 DEF RInv, Unsent
<1>4. Distinct'
  BY <1>1, <1>2 DEF RInv, Distinct
<1>5. ASSUME NEW q \in Request, q # r PROVE \E S \in Ledger : Fits(S, q)'
  <2>1. PICK S \in Ledger : Fits(S, q)
    BY DEF RInv, Accounted
  <2>2. Fits(S, q)'
    BY <1>1, <1>5, <2>1 DEF Fits
  <2> QED
    BY <2>2
<1>6. \E S \in Ledger : Fits(S, r)'
  <2> DEFINE S == [k \in Mark |-> IF k = 0 THEN 0 ELSE MaxRetries + 1]
  <2>1. S \in Ledger /\ Grows(S)
    BY DEF Ledger, Grows, Mark
  <2>3. S[0] = 0 /\ S[1] = MaxRetries + 1 /\ S[faults.lost + 1] = MaxRetries + 1
    BY <1>2 DEF Mark
  <2>4. \A i \in jobs' : i.id = r => S[i.copy] + Left(i) <= S[i.copy + 1]
    BY <1>1, <1>a, <2>3
  <2>5. faults.lost * MaxRetries \in Nat
    BY <1>2
  <2> HIDE DEF S
  <2>6. runs'[r] + S[faults'.lost + 1] <= MaxRetries + 1 + faults'.lost * MaxRetries
    BY <1>1, <2>3, <2>5
  <2>7. Fits(S, r)'
    BY <2>1, <2>4, <2>6 DEF Fits, Left
  <2> QED
    BY <2>1, <2>7
<1>7. Accounted'
  BY <1>5, <1>6 DEF Accounted
<1> QED
  BY <1>0, <1>3, <1>4, <1>7 DEF RInv

\* A lost acknowledgement doubles a message: the published retry
\* takes over its share, the double gets one of at most max_retries.
LEMMA RetryDiesAccount ==
  ASSUME RInv, NEW j \in jobs, RetryDies(j)
  PROVE  RInv'
<1> DEFINE d == [HandedBack(j) EXCEPT !.copy = faults.lost + 1]
<1>0. TypeOK' /\ j \in Job /\ Retry(j) \in Job
  <2>1. TypeOK'
    BY WorkTypes DEF RInv, Work
  <2> QED
    BY <2>1, JobUpdates DEF RetryDies, RInv, TypeOK
<1>1. /\ jobs' = (jobs \ {j}) \cup {Retry(j), d}
      /\ runs' = runs /\ req' = req /\ faults'.lost = faults.lost + 1
  BY DEF RetryDies, RInv, TypeOK
<1>2. faults.lost \in Nat /\ faults.lost < MaxFaults /\ faults.lost + 2 \in Mark
      /\ faults.lost + 1 \in Mark
  BY DEF RetryDies, MayDie, RInv, TypeOK, Mark
<1>3. /\ Retry(j).id = j.id /\ Retry(j).copy = j.copy /\ Left(Retry(j)) = Left(j)
      /\ d.id = j.id /\ d.copy = faults.lost + 1 /\ Left(d) <= MaxRetries
  <2>1. (j.at # "queued" \/ j.redelivered) /\ j.retries \in Nat
    BY <1>0 DEF RetryDies, Ending, Job
  <2>2. Retry(j).id = j.id /\ Retry(j).copy = j.copy /\ Left(Retry(j)) = Left(j)
    BY <1>0, <2>1 DEF Retry, Left, Job
  <2>3. d.id = j.id /\ d.copy = faults.lost + 1 /\ d.redelivered /\ d.retries = j.retries
    BY <1>0 DEF HandedBack, Job
  <2>4. Left(d) = MaxRetries - j.retries
    BY <2>3 DEF Left
  <2> QED
    BY <2>1, <2>2, <2>3, <2>4
<1>4. \A i \in jobs : i \in Job /\ i.copy <= faults.lost
  BY DEF RInv, TypeOK, Distinct
<1> HIDE DEF d
<1>5. Unsent'
  BY <1>1, <1>3 DEF RInv, Unsent
<1>6. Distinct'
  <2>1. \A i \in jobs' : i.copy <= faults.lost + 1 /\ (i.copy = faults.lost + 1 => i = d)
    BY <1>1, <1>2, <1>3, <1>4, LeftType
  <2>2. \A i \in jobs' : i # d => \E h \in jobs : /\ h.id = i.id /\ h.copy = i.copy
                                                  /\ i = IF h = j THEN Retry(j) ELSE h
    BY <1>1, <1>3
  <2>3. \A i, h \in jobs' : i.id = h.id /\ i.copy = h.copy => i = h
    BY <2>1, <2>2, <1>3 DEF RInv, Distinct
  <2> QED
    BY <1>1, <2>1, <2>3 DEF Distinct
<1>7. ASSUME NEW r \in Request PROVE \E S \in Ledger : Fits(S, r)'
  <2>1. PICK S \in Ledger : Fits(S, r)
    BY DEF RInv, Accounted
  <2>0. PICK n \in Nat : n = faults.lost
    BY <1>2
  <2> DEFINE T == [k \in Mark |-> IF k > n + 1 THEN S[n + 1] + MaxRetries ELSE S[k]]
  <2>2. \A k \in Mark : S[k] \in Nat
    BY DEF Ledger
  <2>3. T \in Ledger
    BY <1>2, <2>0, <2>2 DEF Ledger
  <2>4. Grows(T)
    BY <1>2, <2>0, <2>1, <2>2 DEF Grows, Fits, Mark
  <2>5. /\ T[faults.lost + 1] = S[faults.lost + 1]
        /\ T[faults.lost + 2] = S[faults.lost + 1] + MaxRetries
        /\ \A c \in 0..(faults.lost) : T[c] = S[c] /\ T[c + 1] = S[c + 1]
    BY <1>2, <2>0 DEF Mark
  <2> HIDE DEF T
  <2>6. ASSUME NEW i \in jobs', i.id = r PROVE T[i.copy] + Left(i) <= T[i.copy + 1]
    <3>1. CASE i = d
      <4>1. i.copy + 1 = faults.lost + 2
        BY <1>2, <1>3, <3>1
      <4>2. S[faults.lost + 1] \in Nat /\ Left(d) \in Nat
        BY <1>2, <2>2, <3>1, <1>0, LeftType DEF TypeOK
      <4> QED
        BY <1>3, <2>5, <3>1, <4>1, <4>2
    <3>2. CASE i # d
      <4>1. PICK h \in jobs : h.id = i.id /\ h.copy = i.copy /\ Left(i) = Left(h)
        BY <1>1, <1>3, <3>2
      <4>2. S[h.copy] + Left(h) <= S[h.copy + 1]
        BY <2>1, <2>6, <4>1 DEF Fits
      <4>3. h.copy \in 0..(faults.lost)
        BY <1>2, <1>4, LeftType
      <4> QED
        BY <2>5, <4>1, <4>2, <4>3
    <3> QED
      BY <3>1, <3>2
  <2>7. runs'[r] + T[faults'.lost + 1] <= MaxRetries + 1 + faults'.lost * MaxRetries
    <3>1. (faults.lost + 1) * MaxRetries = faults.lost * MaxRetries + MaxRetries
          /\ faults.lost * MaxRetries \in Nat
      BY <1>2
    <3>2. runs[r] + S[faults.lost + 1] <= MaxRetries + 1 + faults.lost * MaxRetries
      BY <2>1 DEF Fits
    <3>3. runs[r] \in Nat /\ S[faults.lost + 1] \in Nat
      BY <1>2, <2>2 DEF RInv, TypeOK
    <3>4. (faults.lost + 1) + 1 = faults.lost + 2
      BY <1>2
    <3> DEFINE p == faults.lost * MaxRetries
    <3>5. runs[r] + T[faults.lost + 2] <= MaxRetries + 1 + (p + MaxRetries)
      <4> HIDE DEF p
      <4> QED
        BY <2>5, <3>1, <3>2, <3>3 DEF p
    <3> QED
      BY <1>1, <3>1, <3>4, <3>5
  <2>8. Fits(T, r)'
    BY <2>4, <2>6, <2>7 DEF Fits, Left
  <2> QED
    BY <2>3, <2>8
<1>8. Accounted'
  BY <1>7 DEF Accounted
<1> QED
  BY <1>0, <1>5, <1>6, <1>8 DEF RInv

\* Beginning the work takes one run out of the share of its message.
LEMMA StartWorkAccount ==
  ASSUME RInv, NEW j \in jobs, StartWork(j)
  PROVE  RInv'
<1> DEFINE k == [j EXCEPT !.at = "running"]
<1>0. TypeOK' /\ j \in Job /\ k \in Job /\ j.id \in Request
  <2>1. TypeOK'
    BY WorkTypes DEF RInv, Work
  <2> QED
    BY <2>1, JobUpdates DEF RInv, TypeOK, Job
<1>1. /\ jobs' = (jobs \ {j}) \cup {k} /\ req' = req /\ faults' = faults
      /\ runs'[j.id] = runs[j.id] + 1 /\ \A r \in Request : r # j.id => runs'[r] = runs[r]
  BY <1>0 DEF StartWork, RInv, TypeOK
<1>2. k.id = j.id /\ k.copy = j.copy /\ Left(j) = Left(k) + 1
  BY <1>0 DEF StartWork, Left, Job
<1> HIDE DEF k
<1>3. Unsent'
  BY <1>0, <1>1, <1>2 DEF RInv, Unsent
<1>4. Distinct'
  BY <1>1, <1>2 DEF RInv, Distinct
<1>5. ASSUME NEW r \in Request, r # j.id PROVE \E S \in Ledger : Fits(S, r)'
  <2>1. PICK S \in Ledger : Fits(S, r)
    BY DEF RInv, Accounted
  <2>2. Fits(S, r)'
    BY <1>1, <1>2, <1>5, <2>1 DEF Fits
  <2> QED
    BY <2>2
<1>6. \E S \in Ledger : Fits(S, j.id)'
  <2>1. PICK S \in Ledger : Fits(S, j.id)
    BY <1>0 DEF RInv, Accounted
  <2> DEFINE c == j.copy
  <2>2. /\ c \in Mark /\ c + 1 \in Mark /\ c \in Nat /\ c <= faults.lost
        /\ faults.lost + 1 \in Mark /\ faults.lost \in Nat
        /\ \A l \in Mark : S[l] \in Nat /\ l \in Nat
    <3>1. c \in Mark /\ c + 1 \in Mark /\ c \in Nat
      BY <1>0, LeftType
    <3>2. c <= faults.lost /\ faults.lost + 1 \in Mark /\ faults.lost \in Nat
      BY DEF RInv, Distinct, TypeOK, Mark
    <3> QED
      BY <3>1, <3>2 DEF Ledger, Mark
  <2>3. Left(k) \in Nat /\ S[c] + Left(k) + 1 <= S[c + 1]
    <3>1. Left(k) \in Nat
      BY <1>0, LeftType
    <3>2. S[j.copy] + Left(j) <= S[j.copy + 1]
      BY <2>1 DEF Fits
    <3> QED
      BY <1>2, <2>2, <3>1, <3>2
  <2>4. \A l \in Mark : l > c => S[l] >= S[c] + Left(k) + 1
    BY <2>1, <2>2, <2>3 DEF Fits, Grows
  <2> DEFINE T == [l \in Mark |-> IF l > c THEN S[l] - 1 ELSE S[l]]
  <2>5. T \in Ledger
    BY <2>2, <2>3, <2>4 DEF Ledger
  <2>6. Grows(T)
    <3> SUFFICES ASSUME NEW l \in Mark, NEW h \in Mark, l <= h PROVE T[l] <= T[h]
      BY DEF Grows
    <3>1. S[l] <= S[h] /\ (l <= c => S[l] <= S[c])
      BY <2>1, <2>2 DEF Fits, Grows
    <3> QED
      BY <2>2, <2>3, <2>4, <3>1
  <2>7. ASSUME NEW i \in jobs', i.id = j.id PROVE T[i.copy] + Left(i) <= T[i.copy + 1]
    <3>0. i \in Job
      BY <1>0 DEF TypeOK
    <3>1. i.copy \in Mark /\ i.copy + 1 \in Mark /\ i.copy \in Nat /\ Left(i) \in Nat
      BY <3>0, LeftType
    <3>2. CASE i = k
      BY <1>2, <2>2, <2>3, <3>1, <3>2
    <3>3. CASE i # k
      <4>1. i \in jobs /\ i # j
        BY <1>1, <3>3
      <4>2. i.copy # c /\ S[i.copy] + Left(i) <= S[i.copy + 1]
        BY <2>1, <2>7, <4>1 DEF Fits, RInv, Distinct
      <4>3. CASE i.copy < c
        <5>1. ~(i.copy > c) /\ ~(i.copy + 1 > c)
          BY <2>2, <3>1, <4>3
        <5> QED
          BY <3>1, <4>2, <5>1
      <4>4. CASE i.copy > c
        <5>1. i.copy + 1 > c
          BY <2>2, <3>1, <4>4
        <5>2. S[i.copy] \in Nat /\ S[i.copy + 1] \in Nat
          BY <2>2, <3>1
        <5>3. T[i.copy] = S[i.copy] - 1 /\ T[i.copy + 1] = S[i.copy + 1] - 1
          BY <3>1, <4>4, <5>1
        <5> QED
          BY <3>1, <4>2, <5>2, <5>3
      <4> QED
        BY <2>2, <3>1, <4>2, <4>3, <4>4
    <3> QED
      BY <3>2, <3>3
  <2>8. runs'[j.id] + T[faults'.lost + 1] <= MaxRetries + 1 + faults'.lost * MaxRetries
    <3>1. runs[j.id] + S[faults.lost + 1] <= MaxRetries + 1 + faults.lost * MaxRetries
      BY <2>1 DEF Fits
    <3>2. T[faults.lost + 1] = S[faults.lost + 1] - 1
      BY <2>2
    <3>3. runs[j.id] \in Nat /\ S[faults.lost + 1] \in Nat
      BY <1>0, <2>2 DEF RInv, TypeOK
    <3>4. runs'[j.id] + T[faults.lost + 1] = runs[j.id] + S[faults.lost + 1]
      BY <1>1, <3>2, <3>3
    <3> QED
      BY <1>1, <3>1, <3>4
  <2> HIDE DEF T
  <2>9. Fits(T, j.id)'
    BY <2>6, <2>7, <2>8 DEF Fits, Left
  <2> QED
    BY <2>5, <2>9
<1>7. Accounted'
  BY <1>0, <1>5, <1>6 DEF Accounted
<1> QED
  BY <1>0, <1>3, <1>4, <1>7 DEF RInv

\* No other step of a worker adds to a share: a retry costs what it gives, and
\* the run of a redelivered message is not made again.
LEMMA OtherWorkAccount ==
  ASSUME RInv, NEW j \in jobs, Work(j) \/ ContainerDies(j), ~RetryDies(j), ~StartWork(j)
  PROVE  RInv'
<1> DEFINE back == HandedBack(j)
<1>0. /\ TypeOK' /\ j \in Job /\ back \in Job /\ [j EXCEPT !.at = "no_keys"] \in Job
      /\ j.retries < MaxRetries => Retry(j) \in Job
  <2>1. TypeOK'
    BY WorkTypes DEF RInv
  <2>2. j \in Job
    BY DEF RInv, TypeOK
  <2> QED
    BY <2>1, <2>2, JobUpdates
<1>1. j.retries \in Nat /\ j.copy \in Nat /\ j.retries <= MaxRetries
  BY <1>0 DEF Job
<1>2. req' = req /\ runs' = runs /\ faults'.lost = faults.lost
  BY DEF RInv, TypeOK, Work, ContainerDies, DropRevoked, Guard, NoKeys, Return, Raise, ChildDies,
         FailureDies
<1>a. Onward
  BY <1>2 DEF Onward
<1>3. CASE jobs' \subseteq jobs
  BY <1>0, <1>2, <1>a, <1>3, AccountShrinks
<1>4. ASSUME jobs' = (jobs \ {j}) \cup {Retry(j)}, j.retries < MaxRetries,
             j.redelivered \/ j.at # "queued"
      PROVE  RInv'
  <2>1. Retry(j).id = j.id /\ Retry(j).copy = j.copy /\ Left(Retry(j)) <= Left(j)
    BY <1>0, <1>1, <1>4 DEF Retry, Left, Job
  <2> QED
    BY <1>0, <1>2, <1>a, <1>4, <2>1, AccountReplaces
<1>5. ASSUME jobs' = (jobs \ {j}) \cup {back}, j.redelivered \/ j.at # "queued"
      PROVE  RInv'
  <2>1. back.id = j.id /\ back.copy = j.copy /\ Left(back) <= Left(j)
    BY <1>0, <1>1, <1>5 DEF Left, Job, HandedBack
  <2> QED
    BY <1>0, <1>2, <1>a, <1>5, <2>1, AccountReplaces
<1>6. CASE NoKeys(j)
  <2> DEFINE k == [j EXCEPT !.at = "no_keys"]
  <2>1. k.id = j.id /\ k.copy = j.copy /\ Left(k) <= Left(j)
    BY <1>0, <1>1, <1>6 DEF Left, Job, NoKeys
  <2>2. jobs' = (jobs \ {j}) \cup {k}
    BY <1>6 DEF NoKeys
  <2> QED
    BY <1>0, <1>2, <1>a, <2>1, <2>2, AccountReplaces
<1>7. CASE DropRevoked(j) \/ ChildDies(j)
  BY <1>3, <1>7 DEF DropRevoked, ChildDies
<1>8. CASE Guard(j)
  BY <1>3, <1>4, <1>8 DEF Guard, GiveUpOrRetry
<1>9. CASE Raise(j)
  BY <1>3, <1>4, <1>9 DEF Raise, GiveUpOrRetry
<1>10. CASE Return(j, TRUE) \/ Return(j, FALSE)
  BY <1>3, <1>5, <1>10 DEF Return
<1>11. CASE ContainerDies(j)
  BY <1>5, <1>11 DEF ContainerDies
<1>12. CASE FailureDies(j)
  BY <1>5, <1>12 DEF FailureDies, Ending
<1> QED
  BY <1>6, <1>7, <1>8, <1>9, <1>10, <1>11, <1>12 DEF Work

\* Handlers other than _dispatch_v1, and the monitor, do not touch the account; a
\* revocation only takes messages away.
LEMMA RestAccount ==
  ASSUME RInv, TypeOK', runs' = runs, faults' = faults, jobs' \subseteq jobs,
         \/ req' = req
         \/ \E r \in Request, op \in Ops : BeginRequest(r, op)
         \/ \E r \in Request : req' = Finish(r) \/ SaveQueued(r)
  PROVE  RInv'
<1>1. ASSUME NEW r \in Request, NEW op \in Ops, BeginRequest(r, op) PROVE Onward
  BY <1>1 DEF RInv, TypeOK, BeginRequest, Onward
<1>2. ASSUME NEW r \in Request, SaveQueued(r) PROVE Onward
  BY <1>2 DEF RInv, TypeOK, SaveQueued, Onward
<1>3. ASSUME NEW r \in Request, req' = Finish(r) PROVE Onward
  BY <1>3 DEF RInv, TypeOK, Finish, Onward
<1>4. ASSUME req' = req PROVE Onward
  BY <1>4 DEF Onward
<1>5. Onward
  BY <1>1, <1>2, <1>3, <1>4
<1> QED
  BY <1>5, AccountShrinks

\* The account is kept by every step.
LEMMA StepAccount == RInv /\ [Next]_vars => RInv'
<1> SUFFICES ASSUME RInv, [Next]_vars PROVE RInv'
  OBVIOUS
<1>0. TypeOK'
  BY StepTypes DEF RInv
<1>1. ASSUME NEW r \in Request, NEW op \in Ops, BeginRequest(r, op) PROVE RInv'
  BY <1>0, <1>1, RestAccount DEF BeginRequest
<1>2. ASSUME NEW r \in Request, Handler(r) PROVE RInv'
  <2>1. CASE Dispatch(r)
    BY <2>1, DispatchAccount
  <2>2. CASE SaveQueued(r)
    BY <1>0, <2>2, RestAccount DEF SaveQueued
  <2>3. CASE RecordDispatch(r) \/ CancelSave(r) \/ Reject(r)
    <3>1. /\ req' = Finish(r) /\ runs' = runs /\ faults' = faults /\ jobs' \subseteq jobs
      BY <2>3 DEF RecordDispatch, CancelSave, Reject
    <3> QED
      BY <1>0, <3>1, RestAccount
  <2> QED
    BY <1>2, <2>1, <2>2, <2>3 DEF Handler
<1>3. ASSUME NEW j \in jobs, Work(j) \/ ContainerDies(j) PROVE RInv'
  BY <1>3, RetryDiesAccount, StartWorkAccount, OtherWorkAccount
<1>4. ASSUME NEW m \in msgs, Monitor(m) PROVE RInv'
  <2>1. UNCHANGED <<req, jobs, runs, faults>>
    BY <1>4 DEF Monitor, SetTaskStatus, ReadRow, ClearPrevious, RecordResult, RecorderFails,
                RecordFailure
  <2> QED
    BY <1>0, <2>1, RestAccount
<1>5. CASE UNCHANGED vars
  BY <1>0, <1>5, RestAccount DEF vars
<1> QED
  BY <1>1, <1>2, <1>3, <1>4, <1>5 DEF Next

\* An account with nothing in it.
LEMMA InitAccount == Init => RInv
<1> SUFFICES ASSUME Init PROVE RInv
  OBVIOUS
<1> DEFINE S == [k \in Mark |-> 0]
<1>1. S \in Ledger /\ Grows(S)
  BY DEF Ledger, Grows
<1>2. \A r \in Request : Fits(S, r)
  <2>1. faults.lost = 0 /\ jobs = {} /\ \A r \in Request : runs[r] = 0
    BY DEF Init
  <2>2. S[faults.lost + 1] = 0
    BY <2>1 DEF Mark
  <2> HIDE DEF S
  <2> QED
    BY <1>1, <2>1, <2>2 DEF Fits
<1> QED
  BY <1>1, <1>2, InitTypes DEF Init, RInv, Unsent, Distinct, Accounted

-----------------------------------------------------------------------------
(* What follows.                                                           *)

\* Every variable keeps its type: messages stay within max_retries, and no
\* death of a container and no stale save puts a malformed object in the row.
THEOREM TypeCorrect == Spec => []TypeOK
<1>1. Init => TypeOK
  BY InitTypes
<1>2. TypeOK /\ [Next]_vars => TypeOK'
  BY StepTypes
<1> QED
  BY <1>1, <1>2, PTL DEF Spec

\* A task of run mode V1 is run at most max_retries + 1 times, plus max_retries
\* for each acknowledgement that a dying container lost, for every number of
\* requests, retries and deaths.
THEOREM RunsAreBounded == Spec => []RunsBounded
<1>1. Init => RInv
  BY InitAccount
<1>2. RInv /\ [Next]_vars => RInv'
  BY StepAccount
<1>3. RInv => RunsBounded
  <2> SUFFICES ASSUME RInv, NEW r \in Request
               PROVE  runs[r] <= MaxRetries + 1 + faults.lost * MaxRetries
    BY DEF RunsBounded
  <2>1. PICK S \in Ledger : Fits(S, r)
    BY DEF RInv, Accounted
  <2>2. faults.lost \in Nat /\ faults.lost + 1 \in Mark /\ runs[r] \in Nat
    BY DEF RInv, TypeOK, Mark
  <2>3. S[faults.lost + 1] \in Nat /\ faults.lost * MaxRetries \in Nat
    BY <2>2 DEF Ledger
  <2>4. runs[r] + S[faults.lost + 1] <= MaxRetries + 1 + faults.lost * MaxRetries
    BY <2>1 DEF Fits
  <2> DEFINE p == faults.lost * MaxRetries
  <2> HIDE DEF p
  <2> QED
    BY <2>2, <2>3, <2>4 DEF p
<1> QED
  BY <1>1, <1>2, <1>3, PTL DEF Spec

-----------------------------------------------------------------------------
(* The refinement: with requests that do not overlap and messages that are *)
(* handled before the next step, as Prompt has it, V1 implements           *)
(* AnalysisWorkflow.                                                       *)

\* The request has been read and is not finished.
Open(r) == req[r].pc \in {"begun", "saved", "dispatched"}

\* The object agrees with the row, but for the run mode, which no client sees.
Agrees(obj) ==
  /\ obj.status = row.status /\ obj.input = row.input /\ obj.output = row.output
  /\ obj.gen_task = row.gen_task /\ obj.run_task = row.run_task

\* An open request is alone: no other is open and the monitor has nothing to do,
\* so what it read is still what is stored.
OpenAlone ==
  \A r \in Request : Open(r) =>
    /\ \A q \in Request : Open(q) => q = r
    /\ msgs = {}
    /\ Agrees(req[r].obj)
    /\ req[r].pc # "begun" => req[r].op \in StartOp
    /\ req[r].pc = "dispatched" => \E j \in jobs : j.id = r

\* Jobs come from requests that start something, and none that runs is revoked.
JobsStarted ==
  \A j \in jobs : /\ req[j.id].pc \in {"dispatched", "done"}
                  /\ req[j.id].op \in StartOp
                  /\ j.at # "queued" => j.id \notin known

\* The statuses that the work for an operation reports.
Reported(op) == IF op = "run" THEN {"RUN_STARTED"}
                ELSE {"INPUTS_GENERATION_STARTED", "INPUTS_GENERATION_NO_KEYS"}

\* One message at a time: what it has read is what is stored, and the work that
\* reports a status goes on after it.
MessageAlone ==
  \A m \in msgs :
    /\ \A n \in msgs : n = m
    /\ req[m.by].pc = "done"
    /\ req[m.by].op \in StartOp
    /\ m.pc # "queued" => m.obj = row
    /\ m.task = "set_task_status" => /\ m.arg \in Reported(req[m.by].op)
                                     /\ m.by \notin known
                                     /\ \E j \in jobs : j.id = m.by

\* Only requests that are over are named by the row or revoked.
Past ==
  LET over == {r \in Request : req[r].pc = "done"} IN
  known \subseteq over /\ {row.gen_task, row.run_task} \subseteq over \cup {NoKey}

\* A status that waits for work has work behind it that was not revoked.
Waited ==
  row.status \in InputsActive \cup RunActive =>
    \E r \in Request : r \notin known /\ UnderWay(r)

WInv == TypeOK /\ OpenAlone /\ JobsStarted /\ MessageAlone /\ Past /\ Waited

\* What clients can see of a step that changes neither the status nor the files,
\* and neither begins nor ends work: nothing.
LEMMA UnseenStep ==
  ASSUME row'.status = row.status, row'.input = row.input, row'.output = row.output,
         \A r \in Request : /\ UnderWay(r)' <=> UnderWay(r)
                            /\ UnderWay(r) => req'[r].op = req[r].op
  PROVE  [Workflow!WNext]_(Workflow!wvars)
<1>1. {f \in {"input", "output"} : row[f] # NoKey}' = {f \in {"input", "output"} : row[f] # NoKey}
  OBVIOUS
<1>2. [e \in Request |-> IF ~UnderWay(e) THEN {}
                         ELSE IF req[e].op = "run" THEN {"run"} ELSE {"inputs"}]'
      = [e \in Request |-> IF ~UnderWay(e) THEN {}
                           ELSE IF req[e].op = "run" THEN {"run"} ELSE {"inputs"}]
  OBVIOUS
<1> QED
  BY <1>1, <1>2 DEF Workflow!wvars

\* A step of the work for a request, or of the monitor on its behalf, which stays
\* within what work of its kind may report.
LEMMA ReportStep ==
  ASSUME Waited', NEW e \in Request, UnderWay(e), req' = req,
         \A r \in Request \ {e} : UnderWay(r)' <=> UnderWay(r),
         req[e].op = "run" => row'.input = row.input,
         \/ row'.status = row.status
         \/ req[e].op = "run" /\ row'.status \in {"RUN_STARTED", "RUN_ERROR"}
         \/ /\ req[e].op # "run"
            /\ row'.status \in {"INPUTS_GENERATION_STARTED", "INPUTS_GENERATION_ERROR",
                                "INPUTS_GENERATION_NO_KEYS"}
         \/ req[e].op # "run" /\ row'.status = "READY" /\ row'.input # NoKey
         \/ req[e].op = "run" /\ row'.status = "RUN_COMPLETED" /\ row'.output # NoKey
  PROVE  [Workflow!WNext]_(Workflow!wvars)
<1>1. PICK busy : busy = [r \in Request |-> IF ~UnderWay(r) THEN {}
                                ELSE IF req[r].op = "run" THEN {"run"} ELSE {"inputs"}]
  OBVIOUS
<1>2. PICK next : next = [r \in Request |-> IF ~UnderWay(r) THEN {}
                                ELSE IF req[r].op = "run" THEN {"run"} ELSE {"inputs"}]'
  OBVIOUS
<1>3. PICK files : files = {f \in {"input", "output"} : row[f] # NoKey}
  OBVIOUS
<1>4. PICK later : later = {f \in {"input", "output"} : row[f] # NoKey}'
  OBVIOUS
<1>5. busy[e] = (IF req[e].op = "run" THEN {"run"} ELSE {"inputs"}) /\ busy[e] # {}
  BY <1>1
<1>6. \E left \in SUBSET busy[e] : next = [busy EXCEPT ![e] = left]
  <2>1. next[e] \in SUBSET busy[e]
    BY <1>2, <1>5
  <2>2. next = [busy EXCEPT ![e] = next[e]]
    <3>1. \A r \in Request \ {e} : next[r] = busy[r]
      BY <1>1, <1>2
    <3> QED
      BY <1>1, <1>2, <3>1
  <2> QED
    BY <2>1, <2>2
<1>7. later \in SUBSET {"input", "output"}
  BY <1>4
<1>8. "inputs" \notin busy[e] => ("input" \in later <=> "input" \in files)
  BY <1>3, <1>4, <1>5
<1>9. \/ row'.status = row.status
      \/ row'.status \in Workflow!News(busy[e])
      \/ "inputs" \in busy[e] /\ row'.status = "READY" /\ "input" \in later
      \/ "run" \in busy[e] /\ row'.status = "RUN_COMPLETED" /\ "output" \in later
  BY <1>4, <1>5 DEF Workflow!News
<1>10. row'.status \in Workflow!Active => \E r \in Request : next[r] # {}
  <2>1. row'.status \in InputsActive \cup RunActive => \E r \in Request : UnderWay(r)'
    BY DEF Waited
  <2>2. Workflow!Active = InputsActive \cup RunActive
    BY DEF Workflow!Active, InputsActive, RunActive, Workflow!InputsActive, Workflow!RunActive
  <2> QED
    BY <1>2, <2>1, <2>2
<1>11. Workflow!NoOrphan'
  BY <1>2, <1>10 DEF Workflow!NoOrphan, Workflow!Active
<1>12. Workflow!Report(e)
  BY <1>1, <1>2, <1>3, <1>4, <1>5, <1>6, <1>7, <1>8, <1>9, <1>11 DEF Workflow!Report
<1> QED
  BY <1>12 DEF Workflow!WNext

\* Between requests and messages, only a worker's step can happen.
LEMMA CalmIs ==
  ASSUME Prompt, Calm
  PROVE  msgs = {} /\ \A r \in Request : ~Open(r)
  BY DEF Calm, Open

\* A step of a worker that replaces a job, by others for the same request or by a
\* message about it, unless the request was revoked.
LEMMA WorkerStep ==
  ASSUME Prompt, WInv, TypeOK', NEW j \in jobs, Calm,
         req' = req, row' = row, known' = known,
         \A k \in jobs' : k \in jobs \/ (k.id = j.id /\ (k.at # "queued" => j.id \notin known)),
         \A k \in jobs : k = j \/ k \in jobs',
         \A m \in msgs' : /\ \A n \in msgs' : n = m
                          /\ m.by = j.id
                          /\ m.pc = "queued"
                          /\ m.task = "set_task_status" =>
                               /\ m.arg \in Reported(req[j.id].op)
                               /\ j.id \notin known
                               /\ \E k \in jobs' : k.id = j.id,
         \/ j.id \in known
         \/ \E k \in jobs' : k.id = j.id
         \/ \E m \in msgs' : m.by = j.id
  PROVE  WInv' /\ [Workflow!WNext]_(Workflow!wvars)
<1>1. msgs = {} /\ \A r \in Request : ~Open(r)
  BY CalmIs
<1>2. j.id \in Request /\ req[j.id].op \in StartOp /\ req[j.id].pc = "done"
  <2>1. j \in Job
    BY DEF WInv, TypeOK
  <2>2. j.id \in Request
    BY <2>1 DEF Job
  <2> QED
    BY <1>1, <2>2 DEF WInv, JobsStarted, Open
<1>3. OpenAlone'
  BY <1>1 DEF OpenAlone, Open
<1>4. JobsStarted'
  BY <1>2 DEF WInv, JobsStarted
<1>5. MessageAlone'
  BY <1>2 DEF MessageAlone, Reported
<1>6. Past'
  BY DEF WInv, Past
<1>7. \A r \in Request : r # j.id => (UnderWay(r)' <=> UnderWay(r))
  BY <1>1 DEF UnderWay
<1>8. UnderWay(j.id)
  BY <1>2 DEF UnderWay
<1>9. j.id \notin known => UnderWay(j.id)'
  BY <1>2 DEF UnderWay
<1>10. Waited'
  <2>1. ASSUME row.status \in InputsActive \cup RunActive
        PROVE  \E r \in Request : r \notin known' /\ UnderWay(r)'
    <3>1. PICK r \in Request : r \notin known /\ UnderWay(r)
      BY <2>1 DEF WInv, Waited
    <3> QED
      BY <1>7, <1>9, <3>1
  <2> QED
    BY <2>1 DEF Waited
<1>11. [Workflow!WNext]_(Workflow!wvars)
  BY <1>2, <1>7, <1>8, <1>10, ReportStep
<1> QED
  BY <1>3, <1>4, <1>5, <1>6, <1>10, <1>11 DEF WInv

\* A job that becomes another one keeps its request.
LEMMA JobIds ==
  ASSUME NEW j \in Job
  PROVE  /\ Retry(j).id = j.id /\ Retry(j).at = "queued"
         /\ Failure(j).by = j.id /\ Failure(j).pc = "queued" /\ Failure(j).task = "record_failure"
         /\ [j EXCEPT !.at = "running"].id = j.id
         /\ [j EXCEPT !.at = "no_keys"].id = j.id
         /\ HandedBack(j).id = j.id
         /\ HandedBack(j).at = "queued"
         /\ \A c : /\ [HandedBack(j) EXCEPT !.copy = c].id = j.id
                    /\ [HandedBack(j) EXCEPT !.copy = c].at = "queued"
  BY DEF Job, Retry, HandedBack, Failure, Send

\* The end of a task by an exception.
LEMMA GiveUpW ==
  ASSUME Prompt, WInv, TypeOK', NEW j \in jobs, Calm,
         req' = req, row' = row, known' = known, GiveUpOrRetry(j)
  PROVE  WInv' /\ [Workflow!WNext]_(Workflow!wvars)
<1>1. j \in Job /\ msgs = {}
  BY CalmIs DEF WInv, TypeOK
<1>2. CASE jobs' = (jobs \ {j}) \cup {Retry(j)} /\ msgs' = msgs
  <2>1. PICK k : k = Retry(j)
    OBVIOUS
  <2>2. k.id = j.id /\ k.at = "queued"
    BY <1>1, <2>1, JobIds
  <2> QED
    BY <1>1, <1>2, <2>1, <2>2, WorkerStep
<1>3. CASE jobs' = jobs \ {j} /\ msgs' = msgs \cup {Failure(j)}
  <2>1. PICK m : m = Failure(j)
    OBVIOUS
  <2>2. m.by = j.id /\ m.pc = "queued" /\ m.task = "record_failure"
    BY <1>1, <2>1, JobIds
  <2> QED
    BY <1>1, <1>3, <2>1, <2>2, WorkerStep
<1> QED
  BY <1>2, <1>3 DEF GiveUpOrRetry

\* Every step of a worker is one of these.
LEMMA WorkW ==
  ASSUME Prompt, WInv, NEW j \in jobs, Work(j)
  PROVE  WInv' /\ [Workflow!WNext]_(Workflow!wvars)
<1>0. TypeOK'
  BY StepTypes DEF WInv, Next
<1>1. j \in Job /\ (j.at # "queued" => j.id \notin known)
  BY DEF WInv, TypeOK, JobsStarted
<1>2. CASE DropRevoked(j)
  <2>1. /\ Calm /\ j.id \in known /\ jobs' = jobs \ {j}
        /\ req' = req /\ row' = row /\ known' = known /\ msgs' = msgs
    BY <1>2 DEF DropRevoked
  <2>2. msgs' = {}
    BY <2>1, CalmIs
  <2> QED
    BY <1>0, <2>1, <2>2, WorkerStep
<1>3. CASE Guard(j) \/ Raise(j)
  <2>1. /\ Calm /\ GiveUpOrRetry(j) /\ req' = req /\ row' = row /\ known' = known
    BY <1>3 DEF Guard, Raise
  <2> QED
    BY <1>0, <2>1, GiveUpW
<1>4. CASE RetryDies(j)
  <2>1. PICK k, l : k = Retry(j) /\ l = [HandedBack(j) EXCEPT !.copy = faults.lost + 1]
    OBVIOUS
  <2>2. k.id = j.id /\ k.at = "queued" /\ l.id = j.id /\ l.at = "queued"
    BY <1>1, <2>1, JobIds
  <2>3. /\ Calm /\ jobs' = (jobs \ {j}) \cup {k, l} /\ msgs' = {}
        /\ req' = req /\ row' = row /\ known' = known
    BY <1>4, <2>1, CalmIs DEF RetryDies
  <2> QED
    BY <1>0, <1>1, <2>2, <2>3, WorkerStep
<1>9. CASE FailureDies(j)
  <2>1. PICK k : k = HandedBack(j)
    OBVIOUS
  <2>2. k.id = j.id /\ k.at = "queued"
    BY <1>1, <2>1, JobIds
  <2>3. PICK m : m = Failure(j)
    OBVIOUS
  <2>4. m.by = j.id /\ m.pc = "queued" /\ m.task = "record_failure"
    BY <1>1, <2>3, JobIds
  <2>5. /\ Calm /\ msgs' = {m} /\ req' = req /\ row' = row /\ known' = known
        /\ jobs' = (jobs \ {j}) \cup {k}
    BY <1>9, <2>1, <2>3, CalmIs DEF FailureDies
  <2> QED
    BY <1>0, <2>2, <2>4, <2>5, WorkerStep
<1>5. CASE StartWork(j)
  <2>1. PICK k : k = [j EXCEPT !.at = "running"]
    OBVIOUS
  <2>2. k.id = j.id
    BY <1>1, <2>1, JobIds
  <2>3. PICK m : m = Send("set_task_status", j.id,
          IF OpOf(j) = "run" THEN "RUN_STARTED" ELSE "INPUTS_GENERATION_STARTED", FALSE)
    OBVIOUS
  <2>4. m.by = j.id /\ m.pc = "queued" /\ m.arg \in Reported(req[j.id].op)
    BY <2>3 DEF Send, Reported, OpOf
  <2>5. /\ Calm /\ j.id \notin known /\ jobs' = (jobs \ {j}) \cup {k} /\ msgs' = {m}
        /\ req' = req /\ row' = row /\ known' = known
    BY <1>5, <2>1, <2>3, CalmIs DEF StartWork
  <2> QED
    BY <1>0, <2>2, <2>4, <2>5, WorkerStep
<1>6. CASE NoKeys(j)
  <2>1. PICK k : k = [j EXCEPT !.at = "no_keys"]
    OBVIOUS
  <2>2. k.id = j.id
    BY <1>1, <2>1, JobIds
  <2>3. PICK m : m = Send("set_task_status", j.id, "INPUTS_GENERATION_NO_KEYS", FALSE)
    OBVIOUS
  <2>4. m.by = j.id /\ m.pc = "queued" /\ m.arg \in Reported(req[j.id].op)
    BY <1>6, <2>3 DEF Send, Reported, OpOf, NoKeys
  <2>5. /\ Calm /\ j.id \notin known /\ jobs' = (jobs \ {j}) \cup {k} /\ msgs' = {m}
        /\ req' = req /\ row' = row /\ known' = known
    BY <1>1, <1>6, <2>1, <2>3, CalmIs DEF NoKeys
  <2> QED
    BY <1>0, <2>2, <2>4, <2>5, WorkerStep
<1>7. ASSUME NEW ok \in BOOLEAN, Return(j, ok) PROVE WInv' /\ [Workflow!WNext]_(Workflow!wvars)
  <2>1. PICK k : k = HandedBack(j)
    OBVIOUS
  <2>2. k.id = j.id /\ k.at = "queued"
    BY <1>1, <2>1, JobIds
  <2>3. PICK m : m = Send("record_result", j.id, "NEW", ok)
    OBVIOUS
  <2>4. m.by = j.id /\ m.pc = "queued" /\ m.task = "record_result"
    BY <2>3 DEF Send
  <2>5. /\ Calm /\ msgs' = {m} /\ req' = req /\ row' = row /\ known' = known
        /\ jobs' = jobs \ {j} \/ jobs' = (jobs \ {j}) \cup {k}
    BY <1>7, <2>1, <2>3, CalmIs DEF Return
  <2> QED
    BY <1>0, <2>2, <2>4, <2>5, WorkerStep
<1>8. CASE ChildDies(j)
  <2>1. PICK m : m = Failure(j)
    OBVIOUS
  <2>2. m.by = j.id /\ m.pc = "queued" /\ m.task = "record_failure"
    BY <1>1, <2>1, JobIds
  <2>3. /\ Calm /\ msgs' = {m} /\ req' = req /\ row' = row /\ known' = known
        /\ jobs' = jobs \ {j}
    BY <1>8, <2>1, CalmIs DEF ChildDies
  <2> QED
    BY <1>0, <2>2, <2>3, WorkerStep
<1> QED
  BY <1>2, <1>3, <1>4, <1>5, <1>6, <1>7, <1>8, <1>9 DEF Work

\* The death of a container, which waits for nobody: the job stays, and what is
\* forgotten is that jobs were revoked.
LEMMA ContainerDiesW ==
  ASSUME WInv, NEW j \in jobs, ContainerDies(j)
  PROVE  WInv' /\ [Workflow!WNext]_(Workflow!wvars)
<1>0. TypeOK'
  BY StepTypes DEF WInv, Next
<1>1. j \in Job /\ j.id \in Request
  BY DEF WInv, TypeOK, Job
<1>2. PICK k : k = HandedBack(j)
  OBVIOUS
<1>3. k.id = j.id /\ k.at = "queued"
  BY <1>1, <1>2, JobIds
<1>4. /\ jobs' = (jobs \ {j}) \cup {k} /\ known' \in {known, {}}
      /\ req' = req /\ row' = row /\ msgs' = msgs
  BY <1>2 DEF ContainerDies
<1>5. \A r \in Request : (\E i \in jobs' : i.id = r) <=> (\E i \in jobs : i.id = r)
  BY <1>3, <1>4
<1>6. OpenAlone'
  BY <1>4, <1>5 DEF WInv, OpenAlone, Open, Agrees
<1>7. JobsStarted'
  BY <1>3, <1>4 DEF WInv, JobsStarted
<1>8. MessageAlone'
  <2>1. \A m \in msgs : m.by \in Request
    BY DEF WInv, TypeOK, Msg
  <2> QED
    BY <1>4, <1>5, <2>1 DEF WInv, MessageAlone, Reported
<1>9. Past'
  BY <1>4 DEF WInv, Past
<1>10. \A r \in Request : UnderWay(r)' <=> UnderWay(r)
  BY <1>4, <1>5 DEF UnderWay
<1>11. Waited'
  BY <1>4, <1>10 DEF WInv, Waited
<1>12. [Workflow!WNext]_(Workflow!wvars)
  BY <1>4, <1>10, UnseenStep
<1> QED
  BY <1>0, <1>6, <1>7, <1>8, <1>9, <1>11, <1>12 DEF WInv

\* A step of the monitor: the message is passed on, with what it read, or it is
\* done and the status no longer waits for it.
LEMMA MonitorStep ==
  ASSUME WInv, TypeOK', NEW m \in msgs,
         req' = req, jobs' = jobs, known' = known,
         row'.gen_task = row.gen_task, row'.run_task = row.run_task,
         \/ /\ msgs' = {}
            /\ \/ row'.status \notin InputsActive \cup RunActive
               \/ m.task = "set_task_status"
         \/ /\ row'.status = row.status
            /\ \E n : /\ msgs' = {n} /\ n.by = m.by /\ n.task # "set_task_status"
                      /\ n.pc # "queued" => n.obj = row',
         LET op == req[m.by].op IN
         /\ op = "run" => row'.input = row.input
         /\ \/ row'.status = row.status
            \/ op = "run" /\ row'.status \in {"RUN_STARTED", "RUN_ERROR"}
            \/ /\ op # "run"
               /\ row'.status \in {"INPUTS_GENERATION_STARTED", "INPUTS_GENERATION_ERROR",
                                   "INPUTS_GENERATION_NO_KEYS"}
            \/ op # "run" /\ row'.status = "READY" /\ row'.input # NoKey
            \/ op = "run" /\ row'.status = "RUN_COMPLETED" /\ row'.output # NoKey
  PROVE  WInv' /\ [Workflow!WNext]_(Workflow!wvars)
<1>1. m.by \in Request
  BY DEF WInv, TypeOK, Msg
<1>2. /\ \A n \in msgs : n = m
      /\ req[m.by].pc = "done" /\ req[m.by].op \in StartOp
      /\ m.task = "set_task_status" => m.by \notin known /\ \E j \in jobs : j.id = m.by
  BY DEF WInv, MessageAlone
<1>3. \A r \in Request : ~Open(r)
  BY DEF WInv, OpenAlone
<1>4. OpenAlone'
  BY <1>3 DEF OpenAlone, Open
<1>5. JobsStarted'
  BY DEF WInv, JobsStarted
<1>6. MessageAlone'
  <2>1. CASE msgs' = {}
    BY <2>1 DEF MessageAlone
  <2>2. CASE msgs' # {}
    <3>1. PICK n : /\ msgs' = {n} /\ n.by = m.by /\ n.task # "set_task_status"
                   /\ n.pc # "queued" => n.obj = row'
      BY <2>2
    <3> QED
      BY <1>2, <3>1 DEF MessageAlone
  <2> QED
    BY <2>1, <2>2
<1>7. Past'
  BY DEF WInv, Past
<1>8. \A r \in Request : r # m.by => (UnderWay(r)' <=> UnderWay(r))
  BY <1>2 DEF UnderWay
<1>9. UnderWay(m.by)
  BY <1>2 DEF UnderWay
<1>10. Waited'
  <2>1. SUFFICES ASSUME row'.status \in InputsActive \cup RunActive
                 PROVE  \E r \in Request : r \notin known' /\ UnderWay(r)'
    BY DEF Waited
  <2>2. CASE msgs' = {}
    <3>1. m.task = "set_task_status"
      BY <2>1, <2>2
    <3>2. UnderWay(m.by)'
      BY <1>2, <3>1 DEF UnderWay
    <3> QED
      BY <1>1, <1>2, <3>1, <3>2
  <2>3. CASE msgs' # {}
    <3>1. UnderWay(m.by)' /\ row'.status = row.status
      BY <1>2, <2>3 DEF UnderWay
    <3>2. PICK r \in Request : r \notin known /\ UnderWay(r)
      BY <2>1, <3>1 DEF WInv, Waited
    <3> QED
      BY <1>8, <3>1, <3>2
  <2> QED
    BY <2>2, <2>3
<1>11. [Workflow!WNext]_(Workflow!wvars)
  BY <1>1, <1>8, <1>9, <1>10, ReportStep
<1> QED
  BY <1>4, <1>5, <1>6, <1>7, <1>10, <1>11 DEF WInv

\* Every step of the monitor is one of these.
LEMMA MonitorW ==
  ASSUME WInv, NEW m \in msgs, Monitor(m)
  PROVE  WInv' /\ [Workflow!WNext]_(Workflow!wvars)
<1>0. TypeOK'
  BY StepTypes DEF WInv, Next
<1>1. /\ m \in Msg /\ m.by \in Request /\ row \in Row
      /\ \A n \in msgs : n = m
      /\ m.pc # "queued" => m.obj = row
      /\ m.task = "set_task_status" => m.arg \in Reported(req[m.by].op)
      /\ msgs \ {m} = {}
  BY DEF WInv, TypeOK, MessageAlone, Msg
<1>2. m.by # NoKey
  BY <1>1
<1>3. CASE SetTaskStatus(m)
  <2>1. /\ m.task = "set_task_status" /\ row' = [row EXCEPT !.status = m.arg] /\ msgs' = {}
        /\ req' = req /\ jobs' = jobs /\ known' = known
    BY <1>1, <1>3 DEF SetTaskStatus
  <2>2. /\ row'.status = m.arg /\ row'.input = row.input
        /\ row'.gen_task = row.gen_task /\ row'.run_task = row.run_task
    BY <1>1, <2>1 DEF Row
  <2>3. m.arg \in Reported(req[m.by].op)
    BY <1>1, <2>1
  <2> QED
    BY <1>0, <2>1, <2>2, <2>3, MonitorStep DEF Reported
<1>4. CASE ReadRow(m)
  <2>1. PICK n : n = [m EXCEPT !.pc = "read", !.obj = row]
    OBVIOUS
  <2>2. n.by = m.by /\ n.task = m.task /\ n.obj = row
    BY <1>1, <2>1 DEF Msg
  <2>3. /\ m.task # "set_task_status" /\ msgs' = {n}
        /\ row' = row /\ req' = req /\ jobs' = jobs /\ known' = known
    BY <1>1, <1>4, <2>1 DEF ReadRow
  <2> QED
    BY <1>0, <2>2, <2>3, MonitorStep
<1>5. CASE ClearPrevious(m)
  <2>1. PICK new : new = Cleared(req[m.by].op, row)
    OBVIOUS
  <2>2. PICK n : n = [m EXCEPT !.pc = "cleared", !.obj = new]
    OBVIOUS
  <2>3. n.by = m.by /\ n.task = m.task /\ n.obj = new
    BY <1>1, <2>2 DEF Msg
  <2>4. m.task = "record_result" /\ m.obj = row
    BY <1>1, <1>5 DEF ClearPrevious
  <2>5. /\ row' = new /\ msgs' = {n} /\ req' = req /\ jobs' = jobs /\ known' = known
    BY <1>1, <1>5, <2>1, <2>2, <2>4 DEF ClearPrevious
  <2>6. /\ new.status = row.status /\ new.gen_task = row.gen_task /\ new.run_task = row.run_task
        /\ req[m.by].op = "run" => new.input = row.input
    BY <1>1, <2>1 DEF Cleared, Row
  <2> QED
    BY <1>0, <2>3, <2>4, <2>5, <2>6, MonitorStep
<1>6. CASE RecordResult(m)
  <2>1. /\ m.obj = row /\ msgs' = {} /\ req' = req /\ jobs' = jobs /\ known' = known
        /\ row' = IF req[m.by].op = "run" THEN RunRecorded(m.by, m.ok, row)
                                          ELSE InputsRecorded(m.by, m.ok, row)
    BY <1>1, <1>6 DEF RecordResult
  <2>2. CASE req[m.by].op = "run"
    <3>1. row' = RunRecorded(m.by, m.ok, row)
      BY <2>1, <2>2
    <3>2. /\ row'.input = row.input
          /\ row'.gen_task = row.gen_task /\ row'.run_task = row.run_task
          /\ \/ row'.status = "RUN_COMPLETED" /\ row'.output = m.by
             \/ row'.status = "RUN_ERROR"
      BY <1>1, <3>1 DEF RunRecorded, Row
    <3>3. row'.status \notin InputsActive \cup RunActive
      BY <3>2 DEF InputsActive, RunActive
    <3> QED
      BY <1>0, <1>2, <2>1, <2>2, <3>2, <3>3, MonitorStep
  <2>3. CASE req[m.by].op # "run"
    <3>1. row' = InputsRecorded(m.by, m.ok, row)
      BY <2>1, <2>3
    <3>2. /\ row'.input = m.by
          /\ row'.gen_task = row.gen_task /\ row'.run_task = row.run_task
          /\ row'.status \in {"READY", "INPUTS_GENERATION_NO_KEYS", "INPUTS_GENERATION_ERROR"}
      BY <1>1, <3>1 DEF InputsRecorded, Row
    <3>3. row'.status \notin InputsActive \cup RunActive
      BY <3>2 DEF InputsActive, RunActive
    <3> QED
      BY <1>0, <1>2, <2>1, <2>3, <3>2, <3>3, MonitorStep
  <2> QED
    BY <2>2, <2>3
<1>7. CASE RecorderFails(m)
  <2>1. PICK n : n = Send("record_failure", m.by, "NEW", FALSE)
    OBVIOUS
  <2>2. n.by = m.by /\ n.task = "record_failure" /\ n.pc = "queued"
    BY <2>1 DEF Send
  <2>3. msgs' = {n} /\ row' = row /\ req' = req /\ jobs' = jobs /\ known' = known
    BY <1>1, <1>7, <2>1 DEF RecorderFails
  <2> QED
    BY <1>0, <2>2, <2>3, MonitorStep
<1>8. CASE RecordFailure(m)
  <2>1. /\ row' = [row EXCEPT !.status = ErrorStatus(req[m.by].op)]
        /\ msgs' = {} /\ req' = req /\ jobs' = jobs /\ known' = known
    BY <1>1, <1>8 DEF RecordFailure
  <2>2. /\ row'.input = row.input
        /\ row'.gen_task = row.gen_task /\ row'.run_task = row.run_task
        /\ row'.status = IF req[m.by].op = "run" THEN "RUN_ERROR" ELSE "INPUTS_GENERATION_ERROR"
    BY <1>1, <2>1 DEF ErrorStatus, Row
  <2>3. row'.status \notin InputsActive \cup RunActive
    BY <2>2 DEF InputsActive, RunActive
  <2> QED
    BY <1>0, <2>1, <2>2, <2>3, MonitorStep
<1> QED
  BY <1>3, <1>4, <1>5, <1>6, <1>7, <1>8 DEF Monitor

\* A request is read when it is alone.
LEMMA BeginRequestW ==
  ASSUME Prompt, WInv, NEW r \in Request, NEW op \in Ops, BeginRequest(r, op)
  PROVE  WInv' /\ [Workflow!WNext]_(Workflow!wvars)
<1>0. TypeOK'
  BY StepTypes DEF WInv, Next
<1>1. /\ req[r].pc = "idle" /\ Calm
      /\ req' = [req EXCEPT ![r] = [op |-> op, pc |-> "begun", obj |-> row]]
      /\ row' = row /\ jobs' = jobs /\ known' = known /\ msgs' = msgs
  BY DEF BeginRequest
<1>2. msgs = {} /\ \A q \in Request : ~Open(q)
  BY <1>1, CalmIs
<1>3. DOMAIN req = Request
  BY DEF WInv, TypeOK
<1>4. /\ req'[r].op = op /\ req'[r].pc = "begun" /\ req'[r].obj = row
      /\ \A q \in Request \ {r} : req'[q] = req[q]
  BY <1>1, <1>3
<1>5. \A j \in jobs : j.id \in Request \ {r}
  BY <1>1 DEF WInv, TypeOK, Job, JobsStarted
<1>6. OpenAlone'
  BY <1>1, <1>2, <1>4 DEF OpenAlone, Open, Agrees
<1>7. JobsStarted'
  BY <1>1, <1>4, <1>5 DEF WInv, JobsStarted
<1>8. MessageAlone'
  BY <1>1, <1>2 DEF MessageAlone
<1>9. Past'
  BY <1>1, <1>4 DEF WInv, Past
<1>10. \A q \in Request : (UnderWay(q)' <=> UnderWay(q)) /\ (UnderWay(q) => req'[q].op = req[q].op)
  <2>1. ~UnderWay(r) /\ ~UnderWay(r)'
    BY <1>1, <1>2, <1>4, <1>5 DEF UnderWay
  <2>2. \A q \in Request \ {r} : UnderWay(q)' <=> UnderWay(q)
    BY <1>1, <1>4 DEF UnderWay
  <2> QED
    BY <1>4, <2>1, <2>2
<1>11. Waited'
  BY <1>1, <1>10 DEF WInv, Waited
<1>12. [Workflow!WNext]_(Workflow!wvars)
  BY <1>1, <1>10, UnseenStep
<1> QED
  BY <1>0, <1>6, <1>7, <1>8, <1>9, <1>11, <1>12 DEF WInv

\* What an open request finds: nothing has changed since it read the row, and no
\* work is under way for it until it is saved.
LEMMA OpenIs ==
  ASSUME WInv, NEW r \in Request, Open(r)
  PROVE  /\ req[r] \in Req /\ req[r].obj \in Row /\ row \in Row /\ DOMAIN req = Request
         /\ msgs = {} /\ Agrees(req[r].obj) /\ r \notin known
         /\ \A q \in Request : Open(q) => q = r
         /\ req[r].pc # "begun" => req[r].op \in StartOp
         /\ req[r].pc # "dispatched" => \A j \in jobs : j.id # r
         /\ \A j \in jobs : j.id \in Request
<1>1. req[r] \in Req /\ req[r].obj \in Row /\ row \in Row /\ DOMAIN req = Request
  BY DEF WInv, TypeOK, Req
<1>2. /\ msgs = {} /\ Agrees(req[r].obj)
      /\ \A q \in Request : Open(q) => q = r
      /\ req[r].pc # "begun" => req[r].op \in StartOp
  BY DEF WInv, OpenAlone
<1>3. r \notin known
  BY DEF WInv, Past, Open
<1>4. req[r].pc # "dispatched" => \A j \in jobs : j.id # r
  BY DEF WInv, JobsStarted, Open
<1>5. \A j \in jobs : j.id \in Request
  BY DEF WInv, TypeOK, Job
<1> QED
  BY <1>1, <1>2, <1>3, <1>4, <1>5

\* The end of a request, if it leaves the same jobs.
LEMMA FinishIs ==
  ASSUME WInv, NEW r \in Request, req' = Finish(r)
  PROVE  /\ req'[r].pc = "done" /\ req'[r].op = req[r].op
         /\ \A q \in Request \ {r} : req'[q] = req[q]
<1>1. req[r] \in Req /\ DOMAIN req = Request
  BY DEF WInv, TypeOK, Req
<1>2. req' = [req EXCEPT ![r] = [req[r] EXCEPT !.pc = "done", !.obj = NewRow]]
  BY <1>1 DEF Finish
<1> QED
  BY <1>1, <1>2 DEF Req

\* The row is saved as queued: clients see their request accepted.
LEMMA SaveQueuedW ==
  ASSUME WInv, NEW r \in Request, SaveQueued(r)
  PROVE  WInv' /\ [Workflow!WNext]_(Workflow!wvars)
<1>0. TypeOK'
  BY StepTypes DEF WInv, Next, Handler
<1>1. /\ req[r].pc = "begun" /\ req[r].op \in StartOp /\ StartValid(req[r].op, req[r].obj)
      /\ row' = ResetFor(req[r].op, req[r].obj)
      /\ jobs' = jobs /\ known' = known /\ msgs' = msgs
  BY DEF SaveQueued
<1>2. Open(r)
  BY <1>1 DEF Open
<1>3. PICK obj \in Row : obj = req[r].obj
  BY <1>2, OpenIs
<1>4. /\ req[r] \in Req /\ row \in Row /\ DOMAIN req = Request /\ msgs = {} /\ Agrees(obj)
      /\ r \notin known /\ (\A q \in Request : Open(q) => q = r)
      /\ (\A j \in jobs : j.id # r) /\ (\A j \in jobs : j.id \in Request)
  BY <1>1, <1>2, <1>3, OpenIs
<1>5. req' = [req EXCEPT ![r] = [req[r] EXCEPT !.pc = "saved", !.obj = row']]
  BY <1>1, <1>4 DEF SaveQueued
<1>6. /\ req'[r].pc = "saved" /\ req'[r].op = req[r].op /\ req'[r].obj = row'
      /\ \A q \in Request \ {r} : req'[q] = req[q]
  BY <1>4, <1>5 DEF Req
<1>7. /\ row'.output = obj.output /\ row'.gen_task = obj.gen_task /\ row'.run_task = obj.run_task
      /\ row'.status = IF req[r].op = "run" THEN "RUN_QUEUED" ELSE "INPUTS_GENERATION_QUEUED"
      /\ row'.input = IF req[r].op = "run" THEN obj.input ELSE NoKey
  BY <1>1, <1>3 DEF ResetFor, Row
<1>8. OpenAlone'
  BY <1>1, <1>4, <1>6 DEF OpenAlone, Open, Agrees
<1>9. JobsStarted'
  BY <1>1, <1>4, <1>6 DEF WInv, JobsStarted
<1>10. MessageAlone'
  BY <1>1, <1>4 DEF MessageAlone
<1>11. Past'
  BY <1>1, <1>4, <1>6, <1>7 DEF WInv, Past, Agrees
<1>12. ~UnderWay(r) /\ UnderWay(r)'
  BY <1>1, <1>4, <1>6 DEF UnderWay
<1>13. \A q \in Request \ {r} : UnderWay(q)' <=> UnderWay(q)
  BY <1>1, <1>6 DEF UnderWay
<1>14. Waited'
  BY <1>1, <1>4, <1>12 DEF Waited
<1>15. PICK busy : busy = [q \in Request |-> IF ~UnderWay(q) THEN {}
                                ELSE IF req[q].op = "run" THEN {"run"} ELSE {"inputs"}]
  OBVIOUS
<1>16. PICK next : next = [q \in Request |-> IF ~UnderWay(q) THEN {}
                                ELSE IF req[q].op = "run" THEN {"run"} ELSE {"inputs"}]'
  OBVIOUS
<1>17. /\ busy[r] = {}
       /\ next = [busy EXCEPT ![r] = IF req[r].op = "run" THEN {"run"} ELSE {"inputs"}]
  BY <1>6, <1>12, <1>13, <1>15, <1>16
<1>18. ASSUME req[r].op = "run" PROVE [Workflow!WNext]_(Workflow!wvars)
  <2>1. row.status \in RUN_VALID_STATUSES /\ row.input # NoKey
    BY <1>1, <1>3, <1>4, <1>18 DEF StartValid, Agrees
  <2>2. {f \in {"input", "output"} : row[f] # NoKey}' = {f \in {"input", "output"} : row[f] # NoKey}
    BY <1>4, <1>7, <1>18 DEF Agrees
  <2>3. Workflow!QueueRun(r)
    BY <1>7, <1>15, <1>16, <1>17, <1>18, <2>1, <2>2
       DEF Workflow!QueueRun, RUN_VALID_STATUSES, Workflow!RUN_VALID_STATUSES
  <2> QED
    BY <2>3 DEF Workflow!WNext
<1>19. ASSUME req[r].op # "run" PROVE [Workflow!WNext]_(Workflow!wvars)
  <2>1. row.status \in INPUTS_GENERATION_VALID_STATUSES
    BY <1>1, <1>3, <1>4, <1>19 DEF StartValid, Agrees
  <2>2. {f \in {"input", "output"} : row[f] # NoKey}'
          = {f \in {"input", "output"} : row[f] # NoKey} \ {"input"}
    BY <1>4, <1>7, <1>19 DEF Agrees
  <2>3. Workflow!QueueInputs(r, {"inputs"})
    BY <1>7, <1>15, <1>16, <1>17, <1>19, <2>1, <2>2
       DEF Workflow!QueueInputs, INPUTS_GENERATION_VALID_STATUSES,
           Workflow!INPUTS_GENERATION_VALID_STATUSES
  <2> QED
    BY <2>3 DEF Workflow!WNext
<1> QED
  BY <1>0, <1>8, <1>9, <1>10, <1>11, <1>14, <1>18, <1>19 DEF WInv

\* The task is sent: clients see nothing of it.
LEMMA DispatchW ==
  ASSUME WInv, NEW r \in Request, Dispatch(r)
  PROVE  WInv' /\ [Workflow!WNext]_(Workflow!wvars)
<1>0. TypeOK'
  BY StepTypes DEF WInv, Next, Handler
<1>1. PICK j : j = [id |-> r, retries |-> 0, redelivered |-> FALSE, at |-> "queued", copy |-> 0]
  OBVIOUS
<1>2. /\ req[r].pc = "saved" /\ jobs' = jobs \cup {j} /\ j.id = r /\ j.at = "queued"
      /\ row' = row /\ known' = known /\ msgs' = msgs
      /\ req' = [req EXCEPT ![r].pc = "dispatched", ![r].obj.run_mode = "V1"]
  BY <1>1 DEF Dispatch
<1>3. Open(r)
  BY <1>2 DEF Open
<1>4. /\ req[r] \in Req /\ req[r].obj \in Row /\ DOMAIN req = Request /\ msgs = {}
      /\ Agrees(req[r].obj) /\ (\A q \in Request : Open(q) => q = r)
      /\ req[r].op \in StartOp /\ (\A k \in jobs : k.id # r) /\ (\A k \in jobs : k.id \in Request)
  BY <1>2, <1>3, OpenIs
<1>5. PICK obj : obj = [req[r].obj EXCEPT !.run_mode = "V1"]
  OBVIOUS
<1>6. Agrees(obj)
  BY <1>4, <1>5 DEF Agrees, Row
<1>7. req' = [req EXCEPT ![r] = [req[r] EXCEPT !.pc = "dispatched", !.obj = obj]]
  BY <1>2, <1>4, <1>5 DEF Req
<1>8. /\ req'[r].pc = "dispatched" /\ req'[r].op = req[r].op /\ req'[r].obj = obj
      /\ \A q \in Request \ {r} : req'[q] = req[q]
  BY <1>4, <1>7 DEF Req
<1>9. OpenAlone'
  BY <1>2, <1>4, <1>6, <1>8 DEF OpenAlone, Open, Agrees
<1>10. JobsStarted'
  BY <1>2, <1>4, <1>8 DEF WInv, JobsStarted
<1>11. MessageAlone'
  BY <1>2, <1>4 DEF MessageAlone
<1>12. Past'
  BY <1>2, <1>8 DEF WInv, Past
<1>13. \A q \in Request : (UnderWay(q)' <=> UnderWay(q)) /\ req'[q].op = req[q].op
  <2>1. UnderWay(r) /\ UnderWay(r)'
    BY <1>2, <1>4, <1>8 DEF UnderWay
  <2>2. \A q \in Request \ {r} : UnderWay(q)' <=> UnderWay(q)
    BY <1>2, <1>8 DEF UnderWay
  <2> QED
    BY <1>8, <2>1, <2>2
<1>14. Waited'
  BY <1>2, <1>13 DEF WInv, Waited
<1>15. [Workflow!WNext]_(Workflow!wvars)
  BY <1>2, <1>13, UnseenStep
<1> QED
  BY <1>0, <1>9, <1>10, <1>11, <1>12, <1>14, <1>15 DEF WInv

\* The request ends with the task id in the row; the work is under way.
LEMMA RecordDispatchW ==
  ASSUME WInv, NEW r \in Request, RecordDispatch(r)
  PROVE  WInv' /\ [Workflow!WNext]_(Workflow!wvars)
<1>0. TypeOK'
  BY StepTypes DEF WInv, Next, Handler
<1>1. /\ req[r].pc = "dispatched" /\ req' = Finish(r)
      /\ row' = IF req[r].op = "run" THEN [req[r].obj EXCEPT !.run_task = r]
                                     ELSE [req[r].obj EXCEPT !.gen_task = r]
      /\ jobs' = jobs /\ known' = known /\ msgs' = msgs
  BY DEF RecordDispatch
<1>2. Open(r)
  BY <1>1 DEF Open
<1>3. PICK obj \in Row : obj = req[r].obj
  BY <1>2, OpenIs
<1>4. /\ msgs = {} /\ Agrees(obj) /\ (\A q \in Request : Open(q) => q = r)
      /\ req[r].op \in StartOp /\ (\A j \in jobs : j.id \in Request)
  BY <1>1, <1>2, <1>3, OpenIs
<1>5. /\ req'[r].pc = "done" /\ req'[r].op = req[r].op
      /\ \A q \in Request \ {r} : req'[q] = req[q]
  BY <1>1, FinishIs
<1>6. /\ row'.status = row.status /\ row'.input = row.input /\ row'.output = row.output
      /\ row'.gen_task \in {row.gen_task, r} /\ row'.run_task \in {row.run_task, r}
  BY <1>1, <1>3, <1>4 DEF Row, Agrees
<1>7. OpenAlone'
  BY <1>4, <1>5 DEF OpenAlone, Open
<1>8. JobsStarted'
  BY <1>1, <1>4, <1>5 DEF WInv, JobsStarted
<1>9. MessageAlone'
  BY <1>1, <1>4 DEF MessageAlone
<1>10. Past'
  BY <1>1, <1>5, <1>6 DEF WInv, Past
<1>11. \A q \in Request : (UnderWay(q)' <=> UnderWay(q)) /\ req'[q].op = req[q].op
  <2>1. \E j \in jobs : j.id = r
    BY <1>1, <1>2 DEF WInv, OpenAlone
  <2>2. UnderWay(r) /\ UnderWay(r)'
    BY <1>1, <1>4, <1>5, <2>1 DEF UnderWay
  <2>3. \A q \in Request \ {r} : UnderWay(q)' <=> UnderWay(q)
    BY <1>1, <1>5 DEF UnderWay
  <2> QED
    BY <1>5, <2>2, <2>3
<1>12. Waited'
  BY <1>1, <1>6, <1>11 DEF WInv, Waited
<1>13. [Workflow!WNext]_(Workflow!wvars)
  BY <1>6, <1>11, UnseenStep
<1> QED
  BY <1>0, <1>7, <1>8, <1>9, <1>10, <1>12, <1>13 DEF WInv

\* A refused request leaves no trace.
LEMMA RejectW ==
  ASSUME WInv, NEW r \in Request, Reject(r)
  PROVE  WInv' /\ [Workflow!WNext]_(Workflow!wvars)
<1>0. TypeOK'
  BY StepTypes DEF WInv, Next, Handler
<1>1. /\ req[r].pc = "begun" /\ req' = Finish(r)
      /\ row' = row /\ jobs' = jobs /\ known' = known /\ msgs' = msgs
  BY DEF Reject
<1>2. Open(r)
  BY <1>1 DEF Open
<1>3. /\ msgs = {} /\ (\A q \in Request : Open(q) => q = r)
      /\ (\A j \in jobs : j.id # r) /\ (\A j \in jobs : j.id \in Request)
  BY <1>1, <1>2, OpenIs
<1>4. /\ req'[r].pc = "done" /\ req'[r].op = req[r].op
      /\ \A q \in Request \ {r} : req'[q] = req[q]
  BY <1>1, FinishIs
<1>5. OpenAlone'
  BY <1>3, <1>4 DEF OpenAlone, Open
<1>6. JobsStarted'
  BY <1>1, <1>3, <1>4 DEF WInv, JobsStarted
<1>7. MessageAlone'
  BY <1>1, <1>3 DEF MessageAlone
<1>8. Past'
  BY <1>1, <1>4 DEF WInv, Past
<1>9. \A q \in Request : (UnderWay(q)' <=> UnderWay(q)) /\ req'[q].op = req[q].op
  <2>1. ~UnderWay(r) /\ ~UnderWay(r)'
    BY <1>1, <1>3, <1>4 DEF UnderWay
  <2>2. \A q \in Request \ {r} : UnderWay(q)' <=> UnderWay(q)
    BY <1>1, <1>4 DEF UnderWay
  <2> QED
    BY <1>4, <2>1, <2>2
<1>10. Waited'
  BY <1>1, <1>9 DEF WInv, Waited
<1>11. [Workflow!WNext]_(Workflow!wvars)
  BY <1>1, <1>9, UnseenStep
<1> QED
  BY <1>0, <1>5, <1>6, <1>7, <1>8, <1>10, <1>11 DEF WInv

\* A cancellation is accepted; it may get hold of the work.
LEMMA CancelSaveW ==
  ASSUME WInv, NEW r \in Request, CancelSave(r)
  PROVE  WInv' /\ [Workflow!WNext]_(Workflow!wvars)
<1>0. TypeOK'
  BY StepTypes DEF WInv, Next, Handler
<1>1. Open(r) /\ req[r].pc = "begun"
  BY DEF CancelSave, Open
<1>2. PICK obj \in Row : obj = req[r].obj
  BY <1>1, OpenIs
<1>3. /\ msgs = {} /\ Agrees(obj) /\ (\A q \in Request : Open(q) => q = r)
      /\ (\A j \in jobs : j.id # r) /\ (\A j \in jobs : j.id \in Request)
  BY <1>1, <1>2, OpenIs
<1>4. /\ req[r].op \in CancelOp /\ CancelValid(req[r].op, obj) /\ req' = Finish(r)
      /\ row' = [obj EXCEPT !.status = CancelledStatus(obj), !.run_mode = "null"]
      /\ msgs' = msgs
      /\ \/ jobs' = jobs /\ known' = known
         \/ /\ TaskToRevoke(obj) \in Request
            /\ jobs' = {j \in jobs : j.id = TaskToRevoke(obj) => j.at = "queued"}
            /\ known' = known \cup {TaskToRevoke(obj)}
  BY <1>2 DEF CancelSave
<1>5. /\ req'[r].pc = "done" /\ req'[r].op = req[r].op
      /\ \A q \in Request \ {r} : req'[q] = req[q]
  BY <1>4, FinishIs
<1>6. /\ row'.status = CancelledStatus(obj)
      /\ row'.input = row.input /\ row'.output = row.output
      /\ row'.gen_task = row.gen_task /\ row'.run_task = row.run_task
  BY <1>2, <1>3, <1>4 DEF Row, Agrees
<1>7. jobs' \subseteq jobs
  BY <1>4
<1>8. OpenAlone'
  BY <1>3, <1>5 DEF OpenAlone, Open
<1>9. JobsStarted'
  BY <1>3, <1>4, <1>5 DEF WInv, JobsStarted
<1>10. MessageAlone'
  BY <1>3, <1>4 DEF MessageAlone
<1>11. Past'
  <2>1. TaskToRevoke(obj) \in {row.gen_task, row.run_task}
    BY <1>3 DEF TaskToRevoke, Agrees
  <2>2. TaskToRevoke(obj) \in Request => req[TaskToRevoke(obj)].pc = "done"
    BY <2>1 DEF WInv, Past
  <2>3. PICK t : t = TaskToRevoke(obj)
    OBVIOUS
  <2>4. known' \subseteq known \cup (IF t \in Request THEN {t} ELSE {})
    BY <1>4, <2>3
  <2> QED
    BY <1>5, <1>6, <2>2, <2>3, <2>4 DEF WInv, Past
<1>12. \A q \in Request : (UnderWay(q)' => UnderWay(q)) /\ req'[q].op = req[q].op
  <2>1. ~UnderWay(r)'
    BY <1>3, <1>4, <1>5, <1>7 DEF UnderWay
  <2>2. \A q \in Request \ {r} : UnderWay(q)' => UnderWay(q)
    BY <1>4, <1>5, <1>7 DEF UnderWay
  <2> QED
    BY <1>5, <2>1, <2>2
<1>13. row'.status \notin InputsActive \cup RunActive
  BY <1>6 DEF CancelledStatus, InputsActive, RunActive
<1>14. Waited'
  BY <1>13 DEF Waited
<1>15. [Workflow!WNext]_(Workflow!wvars)
  <2>1. row.status \in InputsActive \cup RunActive
    BY <1>3, <1>4 DEF CancelValid, CancelOp, Agrees
  <2>2. row'.status = IF row.status \in InputsActive THEN "INPUTS_GENERATION_CANCELLED"
                                                     ELSE "RUN_CANCELLED"
    BY <1>3, <1>6 DEF CancelledStatus, Agrees
  <2>3. {f \in {"input", "output"} : row[f] # NoKey}' = {f \in {"input", "output"} : row[f] # NoKey}
    BY <1>6
  <2>4. PICK busy : busy = [q \in Request |-> IF ~UnderWay(q) THEN {}
                                ELSE IF req[q].op = "run" THEN {"run"} ELSE {"inputs"}]
    OBVIOUS
  <2>5. PICK next : next = [q \in Request |-> IF ~UnderWay(q) THEN {}
                                ELSE IF req[q].op = "run" THEN {"run"} ELSE {"inputs"}]'
    OBVIOUS
  <2>6. next \in [Request -> SUBSET {"inputs", "run"}] /\ \A q \in Request : next[q] \subseteq busy[q]
    BY <1>12, <2>4, <2>5
  <2>7. Workflow!Cancel
    BY <2>1, <2>2, <2>3, <2>4, <2>5, <2>6
       DEF Workflow!Cancel, Workflow!Active, Workflow!Kind, InputsActive, RunActive,
           Workflow!InputsActive, Workflow!RunActive
  <2> QED
    BY <2>7 DEF Workflow!WNext
<1> QED
  BY <1>0, <1>8, <1>9, <1>10, <1>11, <1>14, <1>15 DEF WInv

\* Before the first request.
LEMMA InitW == Init => WInv /\ Workflow!WInit
<1> SUFFICES ASSUME Init PROVE WInv /\ Workflow!WInit
  OBVIOUS
<1>1. /\ TypeOK /\ jobs = {} /\ msgs = {} /\ known = {}
      /\ row = NewRow \/ row = ReadyRow
      /\ \A r \in Request : req[r].pc = "idle"
  BY InitTypes DEF Init
<1>2. row.status \in {"NEW", "READY"} /\ row.gen_task = NoKey /\ row.run_task = NoKey
  <2>1. CASE row = NewRow
    BY <2>1 DEF NewRow
  <2>2. CASE row = ReadyRow
    BY <2>2 DEF ReadyRow, NewRow
  <2> QED
    BY <1>1, <2>1, <2>2
<1>3. row.status \notin InputsActive \cup RunActive
  BY <1>2 DEF InputsActive, RunActive
<1>4. WInv
  BY <1>1, <1>2, <1>3 DEF WInv, OpenAlone, Open, JobsStarted, MessageAlone, Past, Waited
<1>5. \A r \in Request : ~UnderWay(r)
  BY <1>1 DEF UnderWay
<1>6. \/ row.status = "NEW" /\ {f \in {"input", "output"} : row[f] # NoKey} = {}
      \/ row.status = "READY" /\ {f \in {"input", "output"} : row[f] # NoKey} = {"input"}
  <2>1. CASE row = NewRow
    BY <2>1 DEF NewRow
  <2>2. CASE row = ReadyRow
    <3>1. row.status = "READY" /\ row.input = Prior /\ row.output = NoKey
      BY <2>2 DEF ReadyRow, NewRow
    <3> QED
      BY <3>1
  <2> QED
    BY <1>1, <2>1, <2>2
<1>7. Workflow!WInit
  BY <1>5, <1>6 DEF Workflow!WInit
<1> QED
  BY <1>4, <1>7

\* Run mode V1 implements what an analysis promises its clients, for any number of
\* requests, retries and deaths of containers, if requests do not overlap and
\* messages are handled before the next step.
THEOREM ImplementsWorkflow == Prompt => (Spec => FollowsWorkflow)
<1> SUFFICES ASSUME Prompt PROVE Spec => FollowsWorkflow
  OBVIOUS
<1>1. Init => WInv /\ Workflow!WInit
  BY InitW
<1>2. WInv /\ [Next]_vars => WInv' /\ [Workflow!WNext]_(Workflow!wvars)
  <2> SUFFICES ASSUME WInv, [Next]_vars PROVE WInv' /\ [Workflow!WNext]_(Workflow!wvars)
    OBVIOUS
  <2>1. ASSUME NEW r \in Request, Handler(r)
        PROVE  WInv' /\ [Workflow!WNext]_(Workflow!wvars)
    BY <2>1, SaveQueuedW, DispatchW, RecordDispatchW, CancelSaveW, RejectW DEF Handler
  <2>2. CASE UNCHANGED vars
    <3>1. /\ row' = row /\ req' = req /\ jobs' = jobs /\ known' = known /\ msgs' = msgs
      BY <2>2 DEF vars
    <3>2. TypeOK'
      BY StepTypes DEF WInv
    <3>3. \A r \in Request : UnderWay(r)' <=> UnderWay(r)
      BY <3>1 DEF UnderWay
    <3>4. OpenAlone' /\ JobsStarted' /\ MessageAlone' /\ Past' /\ Waited'
      BY <3>1, <3>3 DEF WInv, OpenAlone, Open, Agrees, JobsStarted, MessageAlone, Reported, Past, Waited
    <3>5. [Workflow!WNext]_(Workflow!wvars)
      BY <3>1, <3>3, UnseenStep
    <3> QED
      BY <3>2, <3>4, <3>5 DEF WInv
  <2> QED
    BY <2>1, <2>2, BeginRequestW, WorkW, ContainerDiesW, MonitorW DEF Next
<1> QED
  BY <1>1, <1>2, PTL DEF Spec, FollowsWorkflow, Workflow!WSpec
=============================================================================
