---------------------------- MODULE ScalingRules ----------------------------
(***************************************************************************)
(* The rules of the worker controller, as operators: how many workers a    *)
(* model should have, and which models are served when priorities are      *)
(* limited.  A number the code reads from a missing or zero setting is 0.  *)
(***************************************************************************)
EXTENDS Integers, FiniteSets

Strategy == {"FIXED_WORKERS", "QUEUE_LOAD", "DYNAMIC_TASKS"}

\* The scaling options of a model, as the API returns them.
Setting == [strategy : Strategy, fixed : Nat, max : Nat, min : Nat, chunks : Nat]

\* What a queue-status message says about a model.
ModelState == [tasks : Nat, analyses : Nat, priority : Nat]
IdleState  == [tasks |-> 0, analyses |-> 0, priority |-> 1]

InProgress(st) == st.tasks > 0 \/ st.analyses > 0

AtLeast(a, b) == IF a < b THEN b ELSE a
AtMost(a, b)  == IF a > b THEN b ELSE a

\* math.ceil(a / b)
CeilDiv(a, b) == (a + b - 1) \div b

\* get_req_setting raises ValueError: zero counts as missing.
MissingSetting(s, st, never) ==
  \/ s.strategy \in {"QUEUE_LOAD", "DYNAMIC_TASKS"} /\ s.max = 0
  \/ s.strategy = "FIXED_WORKERS" /\ s.fixed = 0 /\ (never \/ InProgress(st))

\* The division that no guard protects.
DividesByZero(s, st, never) ==
  /\ s.strategy = "DYNAMIC_TASKS"
  /\ InProgress(st)
  /\ s.chunks = 0
  /\ ~MissingSetting(s, st, never)

\* Mutant: worker_count_max is not applied to the tasks.
UncappedWorkerCount(s, st, never) ==
  CASE s.strategy = "FIXED_WORKERS" /\ (never \/ InProgress(st)) -> AtLeast(s.fixed, s.min)
    [] ~InProgress(st) /\ ~(s.strategy = "FIXED_WORKERS" /\ never) -> s.min
    [] InProgress(st) /\ s.strategy = "QUEUE_LOAD" -> AtLeast(AtMost(st.analyses, s.max), s.min)
    [] InProgress(st) /\ s.strategy = "DYNAMIC_TASKS" -> AtLeast(CeilDiv(st.tasks, s.chunks), s.min)

get_desired_worker_count(s, st, never) ==
  CASE s.strategy = "FIXED_WORKERS" /\ (never \/ InProgress(st)) -> AtLeast(s.fixed, s.min)
    [] ~InProgress(st) /\ ~(s.strategy = "FIXED_WORKERS" /\ never) -> s.min
    [] InProgress(st) /\ s.strategy = "QUEUE_LOAD" -> AtLeast(AtMost(st.analyses, s.max), s.min)
    [] InProgress(st) /\ s.strategy = "DYNAMIC_TASKS" ->
         AtLeast(AtMost(CeilDiv(st.tasks, s.chunks), s.max), s.min)

\* _scale_deployment: an error gives 0, and `room' is what the limit leaves.
DesiredReplicas(s, st, never, limited, room) ==
  IF MissingSetting(s, st, never) THEN 0
  ELSE IF limited THEN AtMost(get_desired_worker_count(s, st, never), room)
       ELSE get_desired_worker_count(s, st, never)

\* _get_highest_model_priorities: the k highest levels, when there are several
\* levels and a limit (k > 0).
HighestPriorities(levels, k) ==
  IF k = 0 \/ Cardinality(levels) <= 1 THEN levels
  ELSE {p \in levels : Cardinality({q \in levels : q > p}) < k}

\* _clear_unprioritized_models
ClearUnprioritized(states, k) ==
  LET kept == HighestPriorities({states[m].priority : m \in DOMAIN states}, k) IN
  [m \in DOMAIN states |-> IF states[m].priority \in kept THEN states[m] ELSE IdleState]
=============================================================================
