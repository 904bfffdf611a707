------------------------ MODULE ScalingRules_proofs ------------------------
(***************************************************************************)
(* What the scaling rules guarantee, for all settings and all loads.       *)
(***************************************************************************)
EXTENDS ScalingRules, FiniteSetTheorems, TLAPS

\* Rounding up never turns some work into no workers.
LEMMA CeilDivPositive ==
  ASSUME NEW a \in Nat \ {0}, NEW b \in Nat \ {0}
  PROVE  CeilDiv(a, b) \in Nat \ {0}
<1>1. a + b - 1 >= b /\ a + b - 1 \in Nat
  OBVIOUS
<1>2. \A x \in Nat : x >= b => x \div b \in Nat /\ x \div b >= 1
  OBVIOUS
<1> QED
  BY <1>1, <1>2 DEF CeilDiv

\* get_desired_worker_count stays between worker_count_min and the configured
\* maximum, and a model with queued tasks gets a worker, for every setting the
\* rules accept and every load.
THEOREM DesiredWithinSettings ==
  ASSUME NEW s \in Setting, NEW st \in ModelState, NEW never \in BOOLEAN,
         ~MissingSetting(s, st, never), ~DividesByZero(s, st, never),
         st.analyses > 0 => st.tasks > 0, st.tasks > 0 => st.analyses > 0
  PROVE  LET d == get_desired_worker_count(s, st, never) IN
         /\ d \in Nat
         /\ d >= s.min
         /\ s.strategy # "FIXED_WORKERS" => d <= AtLeast(s.max, s.min)
         /\ st.tasks > 0 => d > 0
<1> DEFINE d == get_desired_worker_count(s, st, never)
<1>1. /\ s.fixed \in Nat /\ s.max \in Nat /\ s.min \in Nat /\ s.chunks \in Nat
      /\ st.tasks \in Nat /\ st.analyses \in Nat
      /\ s.strategy \in {"FIXED_WORKERS", "QUEUE_LOAD", "DYNAMIC_TASKS"}
  BY DEF Setting, ModelState, Strategy
<1>2. CASE s.strategy = "FIXED_WORKERS" /\ (never \/ InProgress(st))
  <2>1. d = AtLeast(s.fixed, s.min)
    BY <1>2, Zenon DEF get_desired_worker_count
  <2>2. s.fixed > 0
    BY <1>1, <1>2 DEF MissingSetting
  <2> QED
    BY <1>1, <1>2, <2>1, <2>2 DEF AtLeast
<1>3. CASE ~InProgress(st) /\ ~(s.strategy = "FIXED_WORKERS" /\ never)
  <2>1. d = s.min
    BY <1>3, SMT DEF get_desired_worker_count
  <2> QED
    BY <1>1, <1>3, <2>1 DEF AtLeast, InProgress
<1>4. CASE InProgress(st) /\ s.strategy = "QUEUE_LOAD"
  <2>1. d = AtLeast(AtMost(st.analyses, s.max), s.min)
    BY <1>4, SMT DEF get_desired_worker_count
  <2>2. s.max > 0 /\ st.analyses > 0
    BY <1>1, <1>4 DEF MissingSetting, InProgress
  <2> QED
    BY <1>1, <1>4, <2>1, <2>2 DEF AtLeast, AtMost
<1>5. CASE InProgress(st) /\ s.strategy = "DYNAMIC_TASKS"
  <2> DEFINE w == CeilDiv(st.tasks, s.chunks)
  <2>1. d = AtLeast(AtMost(w, s.max), s.min)
    BY <1>5, SMT DEF get_desired_worker_count
  <2>2. s.max > 0 /\ s.chunks > 0 /\ st.tasks > 0
    BY <1>1, <1>5 DEF MissingSetting, DividesByZero, InProgress
  <2>3. w \in Nat \ {0}
    BY <1>1, <2>2, CeilDivPositive
  <2> HIDE DEF w
  <2> QED
    BY <1>1, <1>5, <2>1, <2>2, <2>3 DEF AtLeast, AtMost
<1> QED
  BY <1>1, <1>2, <1>3, <1>4, <1>5

\* _clear_unprioritized_models never serves a model and clears one whose work
\* is at least as important.
THEOREM PrioritiesRespected ==
  ASSUME NEW levels, IsFiniteSet(levels), levels \subseteq Nat, NEW k \in Nat,
         NEW p \in HighestPriorities(levels, k), NEW q \in levels, q >= p
  PROVE  q \in HighestPriorities(levels, k)
<1>1. CASE k = 0 \/ Cardinality(levels) <= 1
  BY <1>1 DEF HighestPriorities
<1>2. CASE ~(k = 0 \/ Cardinality(levels) <= 1)
  <2> DEFINE above(x) == {y \in levels : y > x}
  <2>1. HighestPriorities(levels, k) = {x \in levels : Cardinality(above(x)) < k}
    BY <1>2 DEF HighestPriorities
  <2>2. above(q) \subseteq above(p)
    <3>1. p \in Nat /\ q \in Nat
      BY <2>1
    <3>2. \A y \in levels : y > q => y > p
      BY <3>1
    <3> QED
      BY <3>2
  <2>3. IsFiniteSet(above(p))
    BY FS_Subset
  <2>4. Cardinality(above(q)) <= Cardinality(above(p)) /\ IsFiniteSet(above(q))
    BY <2>2, <2>3, FS_Subset
  <2>5. Cardinality(above(p)) \in Nat /\ Cardinality(above(q)) \in Nat
    BY <2>3, <2>4, FS_CardinalityType
  <2> HIDE DEF above
  <2> QED
    BY <2>1, <2>4, <2>5
<1> QED
  BY <1>1, <1>2
=============================================================================
