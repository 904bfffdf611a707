----------------------------- MODULE Autoscaler -----------------------------
(***************************************************************************)
(* The worker controller: queue-status messages of the API come in over a  *)
(* websocket, and the replicas of each model's worker deployment are set   *)
(* in the cluster.                                                         *)
(*                                                                         *)
(* The controller is one asyncio loop.  It handles one message at a time,  *)
(* model after model, but whenever it awaits the cluster the other tasks   *)
(* of the loop run: the watcher that copies the replicas of the cluster    *)
(* into its cache, the shutdown timer and the requests that the timer made.*)
(* Each await ends an action.  Messages are sent best effort (a lost one   *)
(* is made up for by the digest that goes out every minute), and the pod   *)
(* restarts with fresh state after an unexpected exception.                *)
(***************************************************************************)
EXTENDS ScalingRules, FiniteSetsExt, Sequences

CONSTANTS
  Model,        \* the worker deployments
  V1,           \* those that serve the queue of run mode V1
  Order,        \* the order in which the broker lists their queues
  Analysis,     \* the analyses
  ModelOf,      \* the deployment that works on an analysis
  Tasks,        \* its sub-tasks, when it runs in mode V2
  Priority,     \* its priority
  Settings,     \* the scaling options users choose from
  Limit,        \* OASIS_TOTAL_WORKER_LIMIT, 0 when unset
  TopLevels,    \* OASIS_PRIORITIZED_MODELS_LIMIT, 0 when unset
  MaxInbox,     \* bound: messages that wait in the socket
  MaxReplicas,  \* bound on the replicas that Settings can ask for
  MaxEvents,    \* bound: restarts, edits of the settings, repeated requests
  Again,        \* TRUE: analyses are run over and over, without that bound
  NoModel       \* no request to the cluster is awaited

ASSUME AutoscalerAssumption ==
  /\ V1 \subseteq Model
  /\ Order \in [Model -> Nat]
  /\ IsFiniteSet(Analysis)
  /\ ModelOf \in [Analysis -> Model]
  /\ Tasks \in [Analysis -> Nat \ {0}]
  /\ Priority \in [Analysis -> Nat \ {0}]
  /\ Settings \subseteq Setting
  /\ {Limit, TopLevels, MaxInbox, MaxReplicas, MaxEvents} \subseteq Nat
  /\ \A s \in Settings : {s.fixed, s.max, s.min} \subseteq 0..MaxReplicas
  /\ Again \in BOOLEAN
  /\ NoModel \notin Model

VARIABLES
  phase,      \* what each analysis is up to, as the API's database has it
  conf,       \* the scaling options of each model in the API
  replicas,   \* spec.replicas of each deployment in the cluster
  inbox,      \* messages in the socket, each with the states it reports
  cache,      \* wd.replicas
  settings,   \* wd.auto_scaling, at most one per model
  pass,       \* the message being handled: models to do, their states, sum
  patch,      \* the request to the cluster that the pass awaits
  cleanup,    \* cleanup_deployments
  timer,      \* cleanup_timer: off, armed (also with a digest since), or due
  zeroing,    \* requests of _cleanup that are on their way
  events      \* how much of MaxEvents is used

env  == <<phase, conf, replicas, inbox>>
ctrl == <<cache, settings, pass, patch, cleanup, timer, zeroing>>
vars == <<env, ctrl, events>>

Phase == {"new", "waiting", "ready", "over", "orphan"}

-----------------------------------------------------------------------------
(* Queue-status messages.                                                  *)

\* The queue has workers, tasks or messages, so the message has an entry for it.
QueueActive(m) == \/ replicas[m] > 0
                  \/ \E a \in Analysis : ModelOf[a] = m /\ phase[a] \in {"waiting", "orphan"}

\* The analyses of an entry: a V1 queue lists every NEW, READY or active
\* analysis of the model, a V2 queue those with sub-task rows on it.
Listed(m) ==
  {a \in Analysis : /\ ModelOf[a] = m
                    /\ phase[a] \in {"waiting", "ready"} \cup (IF m \in V1 THEN {"new"} ELSE {})}

\* parse_running_analyses: an analysis without sub-task rows counts one task,
\* one with rows counts when some of them are not finished.
Running(m) == IF ~QueueActive(m) THEN {}
              ELSE IF m \in V1 THEN Listed(m)
              ELSE {a \in Listed(m) : phase[a] = "waiting"}

TaskCount(a) == IF ModelOf[a] \in V1 THEN 1 ELSE Tasks[a]

\* parse_queued_pending: messages wait in the queue of no listed analysis.
Pending(m) == Listed(m) = {} /\ \E a \in Analysis : ModelOf[a] = m /\ phase[a] = "orphan"

\* Mutant: pending tasks count as tasks only.
AggregatePendingTasks(m) ==
  IF Running(m) # {}
  THEN [tasks    |-> MapThenSumSet(TaskCount, Running(m)),
        analyses |-> Cardinality(Running(m)),
        priority |-> Max({Priority[a] : a \in Running(m)})]
  ELSE IF Pending(m) THEN [tasks |-> 1, analyses |-> 0, priority |-> 4]
  ELSE IdleState

\* _aggregate_model_states for one deployment.
Aggregate(m) ==
  IF Running(m) # {}
  THEN [tasks    |-> MapThenSumSet(TaskCount, Running(m)),
        analyses |-> Cardinality(Running(m)),
        priority |-> Max({Priority[a] : a \in Running(m)})]
  ELSE IF Pending(m) THEN [tasks |-> 1, analyses |-> 1, priority |-> 4]
  ELSE IdleState

Message == [states |-> [m \in Model |-> Aggregate(m)], pending |-> {m \in Model : Pending(m)}]

\* A message may not arrive: the channel layer is full, or nobody is connected.
Sent == inbox' = inbox \/ (Len(inbox) < MaxInbox /\ inbox' = Append(inbox, Message'))

-----------------------------------------------------------------------------
(* Users, workers and the API.                                             *)

Count == events < MaxEvents /\ events' = events + 1

\* An analysis is started, and in mode V2 has its sub-task rows.  The message of the
\* dispatch, before the rows are there, says no more than a digest just before.
Submit(a) ==
  /\ \/ phase[a] = "new" /\ events' = events
     \/ phase[a] \in {"ready", "over"} /\ (IF Again THEN events' = events ELSE Count)
  /\ phase' = [phase EXCEPT ![a] = "waiting"]
  /\ UNCHANGED <<conf, replicas, ctrl>>
  /\ Sent

\* Workers finish the inputs (READY, no message) or the run (a message).
Finish(a) ==
  /\ phase[a] = "waiting"
  /\ replicas[ModelOf[a]] > 0
  /\ UNCHANGED <<conf, replicas, ctrl, events>>
  /\ \/ phase' = [phase EXCEPT ![a] = "ready"] /\ inbox' = inbox
     \/ phase' = [phase EXCEPT ![a] = "over"] /\ Sent

\* The analysis is cancelled, but a task of it is still in the queue.
Cancel(a) ==
  /\ phase[a] = "waiting"
  /\ phase' = [phase EXCEPT ![a] = "orphan"]
  /\ UNCHANGED <<conf, replicas, ctrl, events>>
  /\ Sent

\* A worker takes the left-over task.
Drop(a) ==
  /\ phase[a] = "orphan"
  /\ replicas[ModelOf[a]] > 0
  /\ phase' = [phase EXCEPT ![a] = "over"]
  /\ UNCHANGED <<conf, replicas, inbox, ctrl, events>>

\* What the serializer insists on.  It compares minimum and maximum too, but with
\* the options that have the model's number for their own.
ValidFor(m, s) == m \in V1 => s.strategy # "DYNAMIC_TASKS"

\* scaling_configuration of the API.
EditSettings(m, s) ==
  /\ s # conf[m]
  /\ ValidFor(m, s)
  /\ Count
  /\ conf' = [conf EXCEPT ![m] = s]
  /\ UNCHANGED <<phase, replicas, inbox, ctrl>>

\* send_queue_status_digest: once a minute, so at most one in the 20 seconds of
\* a timer.
Digest ==
  /\ timer # "digested"
  /\ Len(inbox) < MaxInbox
  /\ inbox' = Append(inbox, Message)
  /\ timer' = IF timer = "armed" THEN "digested" ELSE timer
  /\ UNCHANGED <<phase, conf, replicas, cache, settings, pass, patch, cleanup, zeroing, events>>

-----------------------------------------------------------------------------
(* The controller.                                                         *)

NoPass == [todo |-> {}, loading |-> FALSE, states |-> [m \in Model |-> IdleState],
           pending |-> {}, named |-> {}, total |-> 0]

\* The loop runs other tasks: no message is being handled, or its handler
\* awaits the API or the cluster.
Yields == pass.todo = {} \/ pass.loading \/ patch.model # NoModel

\* Mutant: models of lower priority are not cleared.
ReceiveMessageUncleared ==
  /\ pass.todo = {} /\ patch.model = NoModel
  /\ inbox # <<>>
  /\ LET msg == Head(inbox) IN
     pass' = [todo    |-> Model,
              loading |-> FALSE,
              states  |-> msg.states,
              pending |-> msg.pending,
              named   |-> {m \in Model : InProgress(msg.states[m])},
              total   |-> 0]
  /\ inbox' = Tail(inbox)
  /\ UNCHANGED <<phase, conf, replicas, cache, settings, patch, cleanup, timer, zeroing, events>>

\* process_queue_status_message, up to the loop of _scale_models.
ReceiveMessage ==
  /\ pass.todo = {} /\ patch.model = NoModel
  /\ inbox # <<>>
  /\ LET msg == Head(inbox) IN
     pass' = [todo    |-> Model,
              loading |-> FALSE,
              states  |-> ClearUnprioritized(msg.states, TopLevels),
              pending |-> msg.pending,
              named   |-> {m \in Model : InProgress(msg.states[m])},
              total   |-> 0]
  /\ inbox' = Tail(inbox)
  /\ UNCHANGED <<phase, conf, replicas, cache, settings, patch, cleanup, timer, zeroing, events>>

\* V1 deployments come first; among them, and among the others, those with
\* pending tasks, then those with running analyses, then the idle ones.
Rank(m) == (IF m \in V1 THEN 0 ELSE 3)
           + (IF m \in pass.pending THEN 0 ELSE IF m \in pass.named THEN 1 ELSE 2)

Before(m, n) == Rank(m) < Rank(n) \/ (Rank(m) = Rank(n) /\ Order[m] <= Order[n])

\* The next model of the loop.
Turn(m) ==
  /\ m \in pass.todo
  /\ patch.model = NoModel
  /\ \A n \in pass.todo : Before(m, n)

\* Mutant: a model without workers keeps the options it had.
OutdatedMinimum(m) == settings[m] = {} \/ \E s \in settings[m] : s.min > 0

\* Options are read from the API when there are none, when the model has no
\* workers, or when it keeps a minimum.
Outdated(m) == settings[m] = {} \/ cache[m] = 0 \/ \E s \in settings[m] : s.min > 0

LoadOptions(m) ==
  /\ Turn(m)
  /\ ~pass.loading
  /\ Outdated(m)
  /\ pass' = [pass EXCEPT !.loading = TRUE]
  /\ UNCHANGED <<env, cache, settings, patch, cleanup, timer, zeroing, events>>

Loaded(m) == Turn(m) /\ (pass.loading \/ ~Outdated(m))

ScalingOptions(m) == IF pass.loading THEN conf[m] ELSE CHOOSE s \in settings[m] : TRUE

\* The debugging option never_shutdown_fixed_workers is off.
Desired(m) ==
  DesiredReplicas(ScalingOptions(m), pass.states[m], FALSE, Limit > 0, Limit - pass.total)

Fails(m) == DividesByZero(ScalingOptions(m), pass.states[m], FALSE)

\* Mutant: the workers of a model are not added up.
AdvanceUncounted(m, workers) ==
  /\ pass' = [pass EXCEPT !.todo = @ \ {m}, !.loading = FALSE]
  /\ settings' = [settings EXCEPT ![m] = {ScalingOptions(m)}]

Advance(m, workers) ==
  /\ pass' = [pass EXCEPT !.todo = @ \ {m}, !.loading = FALSE, !.total = @ + workers]
  /\ settings' = [settings EXCEPT ![m] = {ScalingOptions(m)}]

\* _scale_deployment with more than 0 replicas to set: the request is awaited.
ScaleUp(m) ==
  /\ Loaded(m) /\ ~Fails(m)
  /\ Desired(m) > 0
  /\ cleanup' = cleanup \ {m}
  /\ patch' = IF cache[m] # Desired(m) THEN [model |-> m, n |-> Desired(m)] ELSE patch
  /\ Advance(m, Desired(m))
  /\ UNCHANGED <<env, cache, timer, zeroing, events>>

\* ... with none: the shutdown is put off, and the timer starts anew.
ScaleDown(m) ==
  /\ Loaded(m) /\ ~Fails(m)
  /\ Desired(m) <= 0
  /\ IF cache[m] # Desired(m)
     THEN /\ cleanup' = cleanup \cup {m}
          /\ timer' = IF timer = "digested" THEN timer ELSE "armed"
          /\ Advance(m, cache[m])
     ELSE /\ Advance(m, 0)
          /\ UNCHANGED <<cleanup, timer>>
  /\ UNCHANGED <<env, cache, patch, zeroing, events>>

\* The awaited request is done.
PatchDone ==
  /\ patch.model # NoModel
  /\ replicas' = [replicas EXCEPT ![patch.model] = patch.n]
  /\ patch' = [model |-> NoModel, n |-> 0]
  /\ UNCHANGED <<phase, conf, inbox, cache, settings, pass, cleanup, timer, zeroing, events>>

\* 20 seconds have passed since the timer was last set.
Tick ==
  /\ timer \in {"armed", "digested"}
  /\ Yields
  /\ timer' = "due"
  /\ UNCHANGED <<env, cache, settings, pass, patch, cleanup, zeroing, events>>

\* _cleanup: one task per deployment is created.
Cleanup ==
  /\ timer = "due"
  /\ Yields
  /\ timer' = "off"
  /\ zeroing' = zeroing \cup cleanup
  /\ cleanup' = {}
  /\ UNCHANGED <<env, cache, settings, pass, patch, events>>

\* Such a task sets the replicas, or fails without anybody noticing.
ZeroDone(m) ==
  /\ m \in zeroing
  /\ replicas' = [replicas EXCEPT ![m] = 0]
  /\ zeroing' = zeroing \ {m}
  /\ UNCHANGED <<phase, conf, inbox, cache, settings, pass, patch, cleanup, timer, events>>

ZeroFails(m) ==
  /\ m \in zeroing
  /\ zeroing' = zeroing \ {m}
  /\ Count
  /\ UNCHANGED <<env, cache, settings, pass, patch, cleanup, timer>>

\* Mutant: zero replicas are taken for a missing value.
UpdateDeploymentNonZero(m) ==
  /\ Yields
  /\ cache[m] # replicas[m]
  /\ replicas[m] # 0
  /\ cache' = [cache EXCEPT ![m] = replicas[m]]
  /\ UNCHANGED <<env, settings, pass, patch, cleanup, timer, zeroing, events>>

\* DeploymentWatcher.update_deployment.  (watch stops the loop after an ApiException,
\* which is a Restart; another exception would end it unnoticed and leave the cache as
\* it is for ever, which is not modelled.)
UpdateDeployment(m) ==
  /\ Yields
  /\ cache[m] # replicas[m]
  /\ cache' = [cache EXCEPT ![m] = replicas[m]]
  /\ UNCHANGED <<env, settings, pass, patch, cleanup, timer, zeroing, events>>

\* The loop stops and the pod restarts: load_deployments, a new connection, and
\* the message that the API sends to it.
Restarted ==
  /\ cache' = replicas
  /\ settings' = [m \in Model |-> {}]
  /\ pass' = NoPass
  /\ patch' = [model |-> NoModel, n |-> 0]
  /\ cleanup' = {}
  /\ timer' = "off"
  /\ zeroing' = {}
  /\ inbox' = <<Message>>
  /\ UNCHANGED <<phase, conf, replicas>>

\* The API or the cluster answers with an error, or a connection is refused.
Restart == Count /\ Restarted

\* ConnectionClosedError, while the next message is awaited: the state is kept, what was
\* in the socket is lost, and the API sends a message to the new connection.
Reconnect ==
  /\ pass.todo = {} /\ patch.model = NoModel
  /\ Count
  /\ inbox' = <<Message>>
  /\ UNCHANGED <<phase, conf, replicas, ctrl>>

\* ZeroDivisionError is none of the exceptions that the loop expects.
Crash(m) ==
  /\ Loaded(m) /\ Fails(m)
  /\ Restarted
  /\ UNCHANGED events

-----------------------------------------------------------------------------
Init ==
  /\ phase = [a \in Analysis |-> "new"]
  /\ conf \in [Model -> Settings] /\ \A m \in Model : ValidFor(m, conf[m])
  /\ replicas = [m \in Model |-> 0]
  /\ inbox = <<>>
  /\ cache = replicas
  /\ settings = [m \in Model |-> {}]
  /\ pass = NoPass
  /\ patch = [model |-> NoModel, n |-> 0]
  /\ cleanup = {}
  /\ timer = "off"
  /\ zeroing = {}
  /\ events = 0

Users == \/ \E a \in Analysis : Submit(a) \/ Finish(a) \/ Cancel(a) \/ Drop(a)
         \/ \E m \in Model, s \in Settings : EditSettings(m, s)

Step(m) == LoadOptions(m) \/ ScaleUp(m) \/ ScaleDown(m) \/ Crash(m)

Next ==
  \/ Users
  \/ Digest \/ ReceiveMessage \/ PatchDone \/ Tick \/ Cleanup \/ Restart \/ Reconnect
  \/ \E m \in Model : Step(m) \/ ZeroDone(m) \/ ZeroFails(m) \/ UpdateDeployment(m)

\* The digest is periodic, the loop keeps going and runs each of its tasks in
\* turn (hence SF for what has to wait until it yields).  A timer goes off when
\* it is left alone; a message that sets it again interrupts Tick, which is only
\* weakly fair.  Users and workers may do nothing.
Fairness ==
  /\ WF_vars(Digest) /\ WF_vars(ReceiveMessage) /\ WF_vars(PatchDone) /\ SF_vars(Cleanup)
  /\ WF_vars(Tick)
  /\ \A m \in Model : WF_vars(Step(m)) /\ WF_vars(ZeroDone(m)) /\ SF_vars(UpdateDeployment(m))

Spec     == Init /\ [][Next]_vars
FairSpec == Spec /\ Fairness
-----------------------------------------------------------------------------
(* Properties.                                                             *)

\* Types of the state variables; in particular the cluster is never asked for a
\* negative number of workers or for more than the settings allow.
TypeOK ==
  /\ phase \in [Analysis -> Phase]
  /\ conf \in [Model -> Settings]
  /\ {replicas, cache} \subseteq [Model -> 0..MaxReplicas]
  /\ \A i \in 1..Len(inbox) : inbox[i] \in [states : [Model -> ModelState], pending : SUBSET Model]
  /\ settings \in [Model -> {{}} \cup {{s} : s \in Settings}]
  /\ pass \in [todo : SUBSET Model, loading : BOOLEAN, states : [Model -> ModelState], pending : SUBSET Model,
              named : SUBSET Model, total : Nat]
  /\ patch \in [model : Model \cup {NoModel}, n : 0..MaxReplicas]
  /\ cleanup \subseteq Model
  /\ timer \in {"off", "armed", "digested", "due"}
  /\ zeroing \subseteq Model
  /\ events \in 0..MaxEvents

\* A model that has work, by the message being handled, is given a worker in its
\* turn - whatever its strategy counts, tasks or analyses - unless the workers of
\* those before it have used up the limit, or its options are refused.
WorkIsServed ==
  \A m \in Model :
    Loaded(m) /\ ~Fails(m) /\ InProgress(pass.states[m])
      => \/ Desired(m) > 0
         \/ Limit > 0 /\ pass.total >= Limit
         \/ MissingSetting(ScalingOptions(m), pass.states[m], FALSE)

\* Nothing of the model's work is in a queue or with a worker.
Quiet(m) == \A a \in Analysis : ModelOf[a] = m => phase[a] \notin {"waiting", "orphan"}

\* What a message would say now, and whether options make a rule divide by zero.
Present == ClearUnprioritized(Message.states, TopLevels)
Breaks(m) == \E s \in settings[m] \cup {conf[m]} : DividesByZero(s, Present[m], FALSE)

\* Once users and workers rest, every deployment gets to, and keeps, the number
\* of workers that the rules give for the state of the database and the options
\* in use - although messages are lost, the cache is stale, a shutdown is under
\* way when work comes in, and the controller restarts.  (Options that were
\* edited while a busy model has workers are not in use yet.)
Converges ==
  <>[](\A m \in Model : ~Breaks(m))
    => <>[](\A m \in Model :
              /\ settings[m] # {} /\ ~Breaks(m)
              /\ \A s \in settings[m] : replicas[m] = DesiredReplicas(s, Present[m], FALSE, FALSE, 0))

\* A deployment of run mode V2 whose queue stays empty ends with worker_count_min
\* workers, as the settings are now, also when they were changed while it had workers;
\* with none if its strategy lacks the maximum it requires.  (A V1 deployment does not:
\* see Running.)
IdleSpinsDown ==
  \A m \in Model \ V1 :
    <>[]Quiet(m) => <>[](replicas[m] = DesiredReplicas(conf[m], IdleState, FALSE, FALSE, 0))

Workers == MapThenSumSet(LAMBDA m : replicas[m], Model)

\* With a worker limit, there are no more workers than it allows in the end.
EventuallyWithinLimit == <>[](Workers <= Limit)

\* When the priority levels are limited to one, the model with the most urgent
\* work gets workers, also when the others had used up the worker limit or come
\* before it in the pass.  This needs a limit that leaves room above the minimums of the
\* others: models before it whose minimums fill the limit leave it without workers.
TopPriorityServed ==
  \A m \in Model :
    <>[](/\ \E a \in Analysis : ModelOf[a] = m /\ phase[a] = "waiting"
         /\ \A n \in Model \ {m} : Message.states[n].priority < Message.states[m].priority)
      => <>[](replicas[m] > 0)
=============================================================================
