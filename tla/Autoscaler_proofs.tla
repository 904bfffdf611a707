-------------------------- MODULE Autoscaler_proofs --------------------------
(***************************************************************************)
(* Safety of the worker controller: types, in particular the number of     *)
(* workers the cluster is asked for, and that work is served.  For any     *)
(* models, analyses and options, any limits and both values of Again.      *)
(*                                                                         *)
(* The rules are only as good as the states they are given.  The inductive *)
(* invariant says that wherever a state is kept - in a message, in the     *)
(* pass - tasks and analyses were counted together, so that neither the    *)
(* rule that looks at one of them nor the rule that looks at the other     *)
(* takes a busy model for an idle one.  Sums over analyses are recursive   *)
(* functions on sets; what is needed of them is shown by the least size    *)
(* for which it could fail (LeastNumber).                                  *)
(***************************************************************************)
EXTENDS Autoscaler, ScalingRules_proofs, WellFoundedInduction

USE AutoscalerAssumption

-----------------------------------------------------------------------------
(* Sums and maxima over finite sets of analyses.                           *)

\* A set of natural numbers that is not empty has a least element.
LEMMA LeastNumber ==
  ASSUME NEW S, S \subseteq Nat, S # {}
  PROVE  \E x \in S : \A y \in S : x <= y
<1> DEFINE R == {ss \in Nat \X Nat : ss[1] < ss[2]}
<1>1. OpToRel(<, Nat) = R
  BY DEF OpToRel
<1>2. IsWellFoundedOn(R, Nat)
  BY <1>1, NatLessThanWellFounded
<1>3. PICK x \in S : \A y \in S : ~(<<y, x>> \in R)
  BY <1>2, WFMin
<1>4. \A y \in Nat, z \in Nat : <<y, z>> \in R <=> y < z
  OBVIOUS
<1> HIDE DEF R
<1>5. \A y \in S : ~(y < x)
  BY <1>3, <1>4
<1> QED
  BY <1>5

\* The element of a set that a sum takes next, and the sets left to it.
Pick(s) == CHOOSE x \in s : TRUE
Upto(R, n) == {s \in SUBSET R : Cardinality(s) <= n}
SumSolves(f, D) ==
  f = [s \in D |-> IF s = {} THEN 0 ELSE TaskCount(Pick(s)) + f[s \ {Pick(s)}]]

\* Taking an element makes a finite set smaller by one.
LEMMA PickSmaller ==
  ASSUME NEW R, IsFiniteSet(R), NEW s \in SUBSET R, s # {}
  PROVE  /\ Pick(s) \in s
         /\ s \ {Pick(s)} \in SUBSET R
         /\ IsFiniteSet(s)
         /\ Cardinality(s) \in Nat
         /\ Cardinality(s \ {Pick(s)}) = Cardinality(s) - 1
<1>1. Pick(s) \in s
  BY DEF Pick
<1>2. IsFiniteSet(s)
  BY FS_Subset
<1>3. Cardinality(s) \in Nat
  BY <1>2, FS_CardinalityType
<1>4. Cardinality(s \ {Pick(s)}) = Cardinality(s) - 1
  <2> DEFINE x == Pick(s)
  <2>1. x \in s
    BY <1>1
  <2> HIDE DEF x
  <2>2. Cardinality(s \ {x}) = Cardinality(s) - 1
    BY <1>2, <2>1, FS_RemoveElement
  <2> QED
    BY <2>2 DEF x
<1> QED
  BY <1>1, <1>2, <1>3, <1>4

\* The recursion of a sum has a solution, on the subsets of any size.
LEMMA SumRecursion ==
  ASSUME NEW R, IsFiniteSet(R), NEW k \in Nat
  PROVE  \E f : SumSolves(f, Upto(R, k))
<1> DEFINE Bad == {n \in Nat : ~ \E f : SumSolves(f, Upto(R, n))}
<1>1. SUFFICES ASSUME Bad # {} PROVE FALSE
  OBVIOUS
<1>2. PICK n \in Bad : \A m \in Bad : n <= m
  <2>1. Bad \subseteq Nat
    OBVIOUS
  <2> HIDE DEF Bad
  <2> QED
    BY <1>1, <2>1, LeastNumber
<1>3. n \in Nat /\ ~ \E f : SumSolves(f, Upto(R, n))
  BY <1>2
<1>4. \A s \in SUBSET R : Cardinality(s) \in Nat /\ (Cardinality(s) = 0 <=> s = {})
  BY FS_Subset, FS_CardinalityType, FS_EmptySet
<1>5. n # 0
  <2>1. SUFFICES ASSUME n = 0 PROVE FALSE
    OBVIOUS
  <2>2. PICK f : f = [s \in Upto(R, 0) |-> 0]
    OBVIOUS
  <2>3. \A s \in Upto(R, 0) : s = {}
    BY <1>4 DEF Upto
  <2>4. SumSolves(f, Upto(R, 0))
    BY <2>2, <2>3 DEF SumSolves
  <2> QED
    BY <1>3, <2>1, <2>4
<1>6. n - 1 \in Nat /\ n - 1 \notin Bad
  <2> HIDE DEF Bad
  <2> QED
    BY <1>2, <1>3, <1>5
<1>7. PICK g : SumSolves(g, Upto(R, n - 1))
  BY <1>6
<1>8. PICK f : f = [s \in Upto(R, n) |-> IF s = {} THEN 0 ELSE TaskCount(Pick(s)) + g[s \ {Pick(s)}]]
  OBVIOUS
<1>9. \A s \in Upto(R, n - 1) : s \in Upto(R, n) /\ f[s] = g[s]
  <2>1. \A s \in Upto(R, n - 1) : s \in Upto(R, n)
    BY <1>3, <1>4 DEF Upto
  <2>2. \A s \in Upto(R, n - 1) :
          g[s] = IF s = {} THEN 0 ELSE TaskCount(Pick(s)) + g[s \ {Pick(s)}]
    BY <1>7 DEF SumSolves
  <2> QED
    BY <1>8, <2>1, <2>2
<1>10. \A s \in Upto(R, n) : s # {} => s \ {Pick(s)} \in Upto(R, n - 1)
  <2>1. SUFFICES ASSUME NEW s \in Upto(R, n), s # {} PROVE s \ {Pick(s)} \in Upto(R, n - 1)
    OBVIOUS
  <2>2. s \in SUBSET R /\ Cardinality(s) <= n
    BY DEF Upto
  <2>3. /\ s \ {Pick(s)} \in SUBSET R
        /\ Cardinality(s) \in Nat
        /\ Cardinality(s \ {Pick(s)}) = Cardinality(s) - 1
    BY <2>1, <2>2, PickSmaller
  <2> QED
    BY <1>3, <2>2, <2>3 DEF Upto
<1>11. SumSolves(f, Upto(R, n))
  <2>1. \A s \in Upto(R, n) :
          (IF s = {} THEN 0 ELSE TaskCount(Pick(s)) + g[s \ {Pick(s)}])
          = (IF s = {} THEN 0 ELSE TaskCount(Pick(s)) + f[s \ {Pick(s)}])
    BY <1>9, <1>10
  <2> QED
    BY <1>8, <2>1, Zenon DEF SumSolves
<1> QED
  BY <1>3, <1>11

\* The tasks of analyses add up to a number, and to none only when there are none.
LEMMA TaskSum ==
  ASSUME NEW R \in SUBSET Analysis
  PROVE  /\ MapThenSumSet(TaskCount, R) \in Nat
         /\ R # {} => MapThenSumSet(TaskCount, R) > 0
<1>1. IsFiniteSet(R) /\ Cardinality(R) \in Nat
  BY FS_Subset, FS_CardinalityType
<1>2. Upto(R, Cardinality(R)) = SUBSET R
  BY <1>1, FS_Subset DEF Upto
<1>3. \E f : SumSolves(f, SUBSET R)
  <2>1. \E f : SumSolves(f, Upto(R, Cardinality(R)))
    BY <1>1, SumRecursion
  <2>2. PICK f : SumSolves(f, Upto(R, Cardinality(R)))
    BY <2>1
  <2>3. SumSolves(f, SUBSET R)
    BY <1>2, <2>2 DEF SumSolves
  <2> QED
    BY <2>3
<1>4. PICK f : f = CHOOSE g : SumSolves(g, SUBSET R)
  OBVIOUS
<1>5. SumSolves(f, SUBSET R)
  BY <1>3, <1>4, Zenon
<1>6. MapThenSumSet(TaskCount, R) = f[R]
  BY <1>4 DEF MapThenSumSet, MapThenFoldSet, SumSolves, Pick
<1>7. \A s \in SUBSET R : f[s] = IF s = {} THEN 0 ELSE TaskCount(Pick(s)) + f[s \ {Pick(s)}]
  BY <1>5 DEF SumSolves
<1>8. \A a \in Analysis : TaskCount(a) \in Nat \ {0}
  BY DEF TaskCount
<1>9. \A s \in SUBSET R : f[s] \in Nat
  <2> DEFINE Bad == {n \in Nat : \E s \in SUBSET R : Cardinality(s) = n /\ f[s] \notin Nat}
  <2>1. SUFFICES ASSUME NEW t \in SUBSET R, f[t] \notin Nat PROVE FALSE
    OBVIOUS
  <2>2. Bad # {} /\ Bad \subseteq Nat
    <3>1. Cardinality(t) \in Nat
      BY <1>1, FS_Subset, FS_CardinalityType
    <3> QED
      BY <2>1, <3>1
  <2>3. PICK n \in Bad : \A m \in Bad : n <= m
    <3> HIDE DEF Bad
    <3> QED
      BY <2>2, LeastNumber
  <2>4. PICK s \in SUBSET R : Cardinality(s) = n /\ f[s] \notin Nat
    BY <2>3
  <2>5. s # {}
    <3>1. SUFFICES ASSUME s = {} PROVE FALSE
      OBVIOUS
    <3>2. f[s] = 0
      BY <1>7, <3>1
    <3> QED
      BY <2>4, <3>2
  <2>6. /\ Pick(s) \in s
        /\ s \ {Pick(s)} \in SUBSET R
        /\ Cardinality(s) \in Nat
        /\ Cardinality(s \ {Pick(s)}) = Cardinality(s) - 1
    BY <1>1, <2>5, PickSmaller
  <2>7. f[s \ {Pick(s)}] \in Nat
    <3>1. n - 1 \in Nat
      <4>1. n # 0
        BY <1>1, <2>4, <2>5, FS_Subset, FS_EmptySet
      <4> QED
        BY <2>4, <2>6, <4>1
    <3>2. n - 1 \notin Bad
      <4>1. n \in Nat
        BY <2>3
      <4> HIDE DEF Bad
      <4> QED
        BY <2>3, <3>1, <4>1
    <3> QED
      BY <2>4, <2>6, <3>1, <3>2
  <2>8. f[s] = TaskCount(Pick(s)) + f[s \ {Pick(s)}]
    BY <1>7, <2>5
  <2>9. TaskCount(Pick(s)) \in Nat
    BY <1>8, <2>6
  <2> QED
    BY <2>4, <2>7, <2>8, <2>9
<1>10. R # {} => f[R] > 0
  <2>1. SUFFICES ASSUME R # {} PROVE f[R] > 0
    OBVIOUS
  <2>2. Pick(R) \in R /\ R \ {Pick(R)} \in SUBSET R
    BY <1>1, <2>1, PickSmaller
  <2>3. f[R] = TaskCount(Pick(R)) + f[R \ {Pick(R)}]
    BY <1>7, <2>1
  <2>4. TaskCount(Pick(R)) \in Nat \ {0} /\ f[R \ {Pick(R)}] \in Nat
    BY <1>8, <1>9, <2>2
  <2> QED
    BY <2>3, <2>4
<1> QED
  BY <1>6, <1>9, <1>10

\* The highest priority of some analyses is the priority of one of them.
LEMMA MaxPriority ==
  ASSUME NEW R \in SUBSET Analysis, R # {}
  PROVE  Max({Priority[a] : a \in R}) \in Nat
<1> DEFINE Above(a) == {b \in R : Priority[b] > Priority[a]}
<1> DEFINE Sizes == {Cardinality(Above(a)) : a \in R}
<1>1. \A a \in R : /\ Above(a) \in SUBSET R
                   /\ IsFiniteSet(Above(a))
                   /\ Cardinality(Above(a)) \in Nat
  <2>1. IsFiniteSet(R)
    BY FS_Subset
  <2> TAKE a \in R
  <2>2. Above(a) \in SUBSET R
    OBVIOUS
  <2> HIDE DEF Above
  <2>3. IsFiniteSet(Above(a))
    BY <2>1, <2>2, FS_Subset
  <2> QED
    BY <2>2, <2>3, FS_CardinalityType
<1>2. Sizes \subseteq Nat /\ Sizes # {}
  <2> HIDE DEF Above
  <2> QED
    BY <1>1
<1>3. PICK a \in R : \A b \in R : Cardinality(Above(a)) <= Cardinality(Above(b))
  <2>1. PICK n \in Sizes : \A k \in Sizes : n <= k
    <3> HIDE DEF Sizes
    <3> QED
      BY <1>2, LeastNumber
  <2>2. PICK a \in R : n = Cardinality(Above(a))
    BY <2>1
  <2> HIDE DEF Above
  <2> QED
    BY <2>1, <2>2
<1>4. ASSUME NEW b \in R PROVE Priority[a] >= Priority[b]
  <2>1. SUFFICES ASSUME Priority[b] > Priority[a] PROVE FALSE
    OBVIOUS
  <2>2. Priority[a] \in Nat /\ \A c \in R : Priority[c] \in Nat
    OBVIOUS
  <2>3. Above(b) \in SUBSET Above(a) /\ b \in Above(a) /\ b \notin Above(b)
    BY <2>1, <2>2
  <2> HIDE DEF Above
  <2>4. Cardinality(Above(b)) < Cardinality(Above(a))
    <3>1. /\ Cardinality(Above(b)) <= Cardinality(Above(a))
          /\ Cardinality(Above(a)) = Cardinality(Above(b)) => Above(a) = Above(b)
      BY <1>1, <2>3, FS_Subset
    <3> QED
      BY <1>1, <2>3, <3>1
  <2> QED
    BY <1>1, <1>3, <2>4
<1> DEFINE P == {Priority[b] : b \in R}
<1>5. P \subseteq Nat /\ Priority[a] \in P /\ \A y \in P : Priority[a] >= y
  BY <1>4
<1> HIDE DEF P
<1>6. Max(P) \in P
  BY <1>5 DEF Max
<1> QED
  BY <1>5, <1>6 DEF P

-----------------------------------------------------------------------------
(* Messages.                                                               *)

\* Tasks and analyses are counted together.
Counted(st) == st.tasks > 0 <=> st.analyses > 0

StatesOK == {states \in [Model -> ModelState] : \A m \in Model : Counted(states[m])}
Messages == [states : StatesOK, pending : SUBSET Model]

\* The state that the controller makes of some running analyses.
LEMMA RunningCounted ==
  ASSUME NEW R \in SUBSET Analysis, R # {}
  PROVE  LET st == [tasks    |-> MapThenSumSet(TaskCount, R),
                    analyses |-> Cardinality(R),
                    priority |-> Max({Priority[a] : a \in R})]
         IN  st \in ModelState /\ Counted(st)
<1>1. IsFiniteSet(R) /\ Cardinality(R) \in Nat
  BY FS_Subset, FS_CardinalityType
<1>2. Cardinality(R) # 0
  BY <1>1, FS_EmptySet
<1>3. MapThenSumSet(TaskCount, R) \in Nat /\ MapThenSumSet(TaskCount, R) > 0
  BY TaskSum
<1>4. Max({Priority[a] : a \in R}) \in Nat
  BY MaxPriority
<1> QED
  BY <1>1, <1>2, <1>3, <1>4 DEF ModelState, Counted

LEMMA IdleCounted == IdleState \in ModelState /\ Counted(IdleState)
BY DEF IdleState, ModelState, Counted

\* Whatever the database holds, a message has a well-formed state per model.
LEMMA MessageOK == Message \in Messages /\ Message' \in Messages
<1>1. \A m \in Model : Running(m) \in SUBSET Analysis /\ Running(m)' \in SUBSET Analysis
  BY DEF Running, Listed
<1>2. LET st == [tasks |-> 1, analyses |-> 1, priority |-> 4]
      IN  st \in ModelState /\ Counted(st)
  BY DEF ModelState, Counted
<1>3. \A m \in Model : Aggregate(m) \in ModelState /\ Counted(Aggregate(m))
  <2> TAKE m \in Model
  <2>1. CASE Running(m) # {}
    <3>1. Aggregate(m) = [tasks    |-> MapThenSumSet(TaskCount, Running(m)),
                          analyses |-> Cardinality(Running(m)),
                          priority |-> Max({Priority[a] : a \in Running(m)})]
      BY <2>1 DEF Aggregate
    <3> QED
      BY <1>1, <2>1, <3>1, RunningCounted
  <2>2. CASE Running(m) = {}
    BY <1>2, <2>2, IdleCounted DEF Aggregate
  <2> QED
    BY <2>1, <2>2
<1>4. \A m \in Model : Aggregate(m)' \in ModelState /\ Counted(Aggregate(m)')
  <2> TAKE m \in Model
  <2>1. CASE Running(m)' # {}
    <3>1. Aggregate(m)' = [tasks    |-> MapThenSumSet(TaskCount, Running(m)'),
                           analyses |-> Cardinality(Running(m)'),
                           priority |-> Max({Priority[a] : a \in Running(m)'})]
      BY <2>1 DEF Aggregate
    <3> QED
      BY <1>1, <2>1, <3>1, RunningCounted
  <2>2. CASE Running(m)' = {}
    BY <1>2, <2>2, IdleCounted DEF Aggregate
  <2> QED
    BY <2>1, <2>2
<1>5. Message \in Messages
  <2>1. [m \in Model |-> Aggregate(m)] \in StatesOK
    BY <1>3 DEF StatesOK
  <2> QED
    BY <2>1 DEF Message, Messages
<1>6. Message' \in Messages
  <2>1. [m \in Model |-> Aggregate(m)'] \in StatesOK
    BY <1>4 DEF StatesOK
  <2> QED
    BY <2>1 DEF Message, Messages
<1> QED
  BY <1>5, <1>6

\* Clearing the models of low priority leaves well-formed states.
LEMMA ClearedOK ==
  ASSUME NEW states \in StatesOK
  PROVE  ClearUnprioritized(states, TopLevels) \in StatesOK
<1>1. states \in [Model -> ModelState] /\ \A m \in Model : Counted(states[m])
  BY DEF StatesOK
<1>2. PICK kept : ClearUnprioritized(states, TopLevels)
                  = [m \in Model |-> IF states[m].priority \in kept THEN states[m] ELSE IdleState]
  BY <1>1, Zenon DEF ClearUnprioritized
<1>3. \A m \in Model :
        LET st == IF states[m].priority \in kept THEN states[m] ELSE IdleState
        IN  st \in ModelState /\ Counted(st)
  BY <1>1, IdleCounted
<1> QED
  BY <1>2, <1>3 DEF StatesOK

-----------------------------------------------------------------------------
(* How many workers a model is given.                                      *)

\* get_desired_worker_count asks for no more than the settings can.
LEMMA CountBounded ==
  ASSUME NEW s \in Settings, NEW st \in ModelState,
         ~MissingSetting(s, st, FALSE), ~DividesByZero(s, st, FALSE)
  PROVE  get_desired_worker_count(s, st, FALSE) \in 0..MaxReplicas
<1> DEFINE d == get_desired_worker_count(s, st, FALSE)
<1>1. /\ s \in Setting
      /\ s.fixed \in 0..MaxReplicas /\ s.max \in 0..MaxReplicas /\ s.min \in 0..MaxReplicas
      /\ MaxReplicas \in Nat
  OBVIOUS
<1>2. /\ s.chunks \in Nat /\ st.tasks \in Nat /\ st.analyses \in Nat
      /\ s.strategy \in {"FIXED_WORKERS", "QUEUE_LOAD", "DYNAMIC_TASKS"}
  BY <1>1 DEF Setting, ModelState, Strategy
<1>3. CASE s.strategy = "FIXED_WORKERS" /\ InProgress(st)
  <2>1. d = AtLeast(s.fixed, s.min)
    BY <1>3, Zenon DEF get_desired_worker_count
  <2> QED
    BY <1>1, <2>1 DEF AtLeast
<1>4. CASE ~InProgress(st)
  <2>1. d = s.min
    BY <1>4, SMT DEF get_desired_worker_count
  <2> QED
    BY <1>1, <2>1
<1>5. CASE InProgress(st) /\ s.strategy = "QUEUE_LOAD"
  <2>1. d = AtLeast(AtMost(st.analyses, s.max), s.min)
    BY <1>5, SMT DEF get_desired_worker_count
  <2> HIDE DEF d
  <2>2. d \in 0..MaxReplicas
    BY <1>1, <1>2, <2>1 DEF AtLeast, AtMost
  <2> QED
    BY <2>2 DEF d
<1>6. CASE InProgress(st) /\ s.strategy = "DYNAMIC_TASKS"
  <2> DEFINE w == CeilDiv(st.tasks, s.chunks)
  <2>1. d = AtLeast(AtMost(w, s.max), s.min)
    BY <1>6, SMT DEF get_desired_worker_count
  <2>2. s.chunks > 0
    BY <1>2, <1>6 DEF DividesByZero, MissingSetting
  <2>3. w \in Nat
    <3>1. st.tasks + s.chunks - 1 \in Nat
      BY <1>2, <2>2
    <3>2. \A x \in Nat : x \div s.chunks \in Nat
      BY <1>2, <2>2
    <3> QED
      BY <3>1, <3>2 DEF CeilDiv
  <2> HIDE DEF w, d
  <2>4. d \in 0..MaxReplicas
    BY <1>1, <1>2, <2>1, <2>3 DEF AtLeast, AtMost
  <2> QED
    BY <2>4 DEF d
<1> QED
  BY <1>2, <1>3, <1>4, <1>5, <1>6

\* _scale_deployment's number: an integer, negative only when the limit is
\* exceeded already, and never above what the settings can ask for.
LEMMA DesiredBounded ==
  ASSUME NEW s \in Settings, NEW st \in ModelState, NEW limited \in BOOLEAN, NEW room \in Int,
         ~DividesByZero(s, st, FALSE)
  PROVE  /\ DesiredReplicas(s, st, FALSE, limited, room) \in Int
         /\ DesiredReplicas(s, st, FALSE, limited, room) <= MaxReplicas
<1>1. CASE MissingSetting(s, st, FALSE)
  BY <1>1 DEF DesiredReplicas
<1>2. CASE ~MissingSetting(s, st, FALSE)
  <2>1. get_desired_worker_count(s, st, FALSE) \in 0..MaxReplicas
    BY <1>2, CountBounded
  <2> DEFINE d == get_desired_worker_count(s, st, FALSE)
  <2>2. DesiredReplicas(s, st, FALSE, limited, room) = IF limited THEN AtMost(d, room) ELSE d
    BY <1>2, Zenon DEF DesiredReplicas
  <2>3. d \in 0..MaxReplicas /\ MaxReplicas \in Nat
    BY <2>1
  <2> HIDE DEF d
  <2>4. CASE limited
    <3>1. DesiredReplicas(s, st, FALSE, limited, room) = AtMost(d, room)
      BY <2>2, <2>4, Zenon
    <3>2. AtMost(d, room) \in Int /\ AtMost(d, room) <= MaxReplicas
      BY <2>3 DEF AtMost
    <3> QED
      BY <3>1, <3>2
  <2>5. CASE ~limited
    <3>1. DesiredReplicas(s, st, FALSE, limited, room) = d
      BY <2>2, <2>5, Zenon
    <3>2. d \in Int /\ d <= MaxReplicas
      BY <2>3
    <3> QED
      BY <3>1, <3>2, Zenon
  <2> QED
    BY <2>4, <2>5
<1> QED
  BY <1>1, <1>2

\* With work, the number is positive, unless nothing of the limit is left.
LEMMA DesiredServes ==
  ASSUME NEW s \in Settings, NEW st \in ModelState, NEW limited \in BOOLEAN, NEW room \in Int,
         ~DividesByZero(s, st, FALSE), ~MissingSetting(s, st, FALSE),
         Counted(st), InProgress(st)
  PROVE  DesiredReplicas(s, st, FALSE, limited, room) > 0 \/ (limited /\ room <= 0)
<1>1. st.tasks > 0 /\ st.analyses > 0
  BY DEF Counted, InProgress
<1>2. s \in Setting
  OBVIOUS
<1>3. get_desired_worker_count(s, st, FALSE) \in Nat /\ get_desired_worker_count(s, st, FALSE) > 0
  BY <1>1, <1>2, DesiredWithinSettings
<1> DEFINE d == get_desired_worker_count(s, st, FALSE)
<1>4. DesiredReplicas(s, st, FALSE, limited, room) = IF limited THEN AtMost(d, room) ELSE d
  BY Zenon DEF DesiredReplicas
<1>5. d \in Nat /\ d > 0
  BY <1>3
<1> HIDE DEF d
<1>6. CASE limited
  <2>1. DesiredReplicas(s, st, FALSE, limited, room) = AtMost(d, room)
    BY <1>4, <1>6, Zenon
  <2>2. AtMost(d, room) > 0 \/ room <= 0
    BY <1>5 DEF AtMost
  <2> QED
    BY <1>6, <2>1, <2>2
<1>7. CASE ~limited
  BY <1>4, <1>5, <1>7
<1> QED
  BY <1>6, <1>7

-----------------------------------------------------------------------------
(* The inductive invariant.                                                *)

AInv ==
  /\ TypeOK
  /\ inbox \in Seq(Messages)
  /\ pass.states \in StatesOK

\* What TypeOK says of a variable at a time.
LEMMA TypeParts ==
  ASSUME TypeOK
  PROVE  /\ replicas \in [Model -> 0..MaxReplicas] /\ cache \in [Model -> 0..MaxReplicas]
         /\ pass.todo \in SUBSET Model /\ pass.loading \in BOOLEAN /\ pass.total \in Nat
         /\ pass.states \in [Model -> ModelState]
         /\ conf \in [Model -> Settings]
         /\ settings \in [Model -> {{}} \cup {{s} : s \in Settings}]
BY DEF TypeOK

\* A sequence of messages has the type that TypeOK asks for.
LEMMA InboxType ==
  ASSUME NEW box \in Seq(Messages)
  PROVE  \A i \in 1..Len(box) : box[i] \in [states : [Model -> ModelState], pending : SUBSET Model]
<1>1. \A i \in 1..Len(box) : box[i] \in Messages
  OBVIOUS
<1> QED
  BY <1>1 DEF Messages, StatesOK

\* The options a model is scaled with are some that users chose.
LEMMA OptionsChosen ==
  ASSUME TypeOK, NEW m \in Model, Loaded(m)
  PROVE  ScalingOptions(m) \in Settings
<1>1. CASE pass.loading
  BY <1>1, TypeParts DEF ScalingOptions
<1>2. CASE ~pass.loading
  <2>1. settings[m] # {} /\ settings[m] \in {{}} \cup {{s} : s \in Settings}
    BY <1>2, TypeParts DEF Loaded, Outdated
  <2>2. PICK s \in Settings : settings[m] = {s}
    BY <2>1
  <2> QED
    BY <1>2, <2>2 DEF ScalingOptions
<1> QED
  BY <1>1, <1>2

\* The number of workers for a model at its turn.
LEMMA DesiredType ==
  ASSUME TypeOK, NEW m \in Model, Loaded(m), ~Fails(m)
  PROVE  Desired(m) \in Int /\ Desired(m) <= MaxReplicas
<1>1. ScalingOptions(m) \in Settings
  BY OptionsChosen
<1>2. pass.states[m] \in ModelState /\ Limit - pass.total \in Int /\ (Limit > 0) \in BOOLEAN
  BY TypeParts
<1>3. ~DividesByZero(ScalingOptions(m), pass.states[m], FALSE)
  BY DEF Fails
<1> QED
  BY <1>1, <1>2, <1>3, DesiredBounded DEF Desired

\* The state of work at a model's turn, for the property.
LEMMA ServedAtTurn == AInv => WorkIsServed
<1>1. SUFFICES ASSUME AInv, NEW m \in Model, Loaded(m), ~Fails(m), InProgress(pass.states[m]),
                      ~MissingSetting(ScalingOptions(m), pass.states[m], FALSE)
               PROVE  Desired(m) > 0 \/ (Limit > 0 /\ pass.total >= Limit)
  BY DEF WorkIsServed
<1>2. ScalingOptions(m) \in Settings
  BY <1>1, OptionsChosen DEF AInv
<1>3. pass.states[m] \in ModelState /\ Counted(pass.states[m])
  BY <1>1 DEF AInv, StatesOK
<1>4. Limit \in Nat /\ pass.total \in Nat
  BY <1>1, TypeParts DEF AInv
<1>5. Limit - pass.total \in Int /\ (Limit > 0) \in BOOLEAN
  BY <1>4
<1>6. ~DividesByZero(ScalingOptions(m), pass.states[m], FALSE)
  BY <1>1 DEF Fails
<1>7. Desired(m) > 0 \/ ((Limit > 0) /\ Limit - pass.total <= 0)
  BY <1>1, <1>2, <1>3, <1>5, <1>6, DesiredServes DEF Desired
<1> QED
  BY <1>4, <1>7

-----------------------------------------------------------------------------
(* One lemma per group of actions.                                         *)

LEMMA InitAInv == Init => AInv
<1> SUFFICES ASSUME Init PROVE AInv
  OBVIOUS
<1>1. [m \in Model |-> IdleState] \in StatesOK
  BY IdleCounted DEF StatesOK
<1>2. NoPass.states \in StatesOK
  BY <1>1 DEF NoPass
<1>3. TypeOK
  BY <1>1 DEF Init, NoPass, TypeOK, Phase, StatesOK
<1>4. inbox \in Seq(Messages)
  BY DEF Init
<1> QED
  BY <1>2, <1>3, <1>4 DEF AInv, Init

\* One more message.
LEMMA AppendOK ==
  ASSUME NEW box \in Seq(Messages), NEW msg \in Messages
  PROVE  Append(box, msg) \in Seq(Messages)
OBVIOUS

\* A message that is sent keeps the socket's contents well formed.
LEMMA SentOK ==
  ASSUME inbox \in Seq(Messages), Sent
  PROVE  inbox' \in Seq(Messages)
<1>1. Message' \in Messages
  BY MessageOK
<1>2. inbox' = inbox \/ inbox' = Append(inbox, Message')
  BY DEF Sent
<1> QED
  BY <1>1, <1>2, AppendOK, Zenon

\* Users and workers.
LEMMA UsersStep ==
  ASSUME AInv, Users
  PROVE  AInv'
<1>1. TypeOK /\ inbox \in Seq(Messages) /\ pass.states \in StatesOK
  BY DEF AInv
<1>2. /\ inbox' \in Seq(Messages)
      /\ phase' \in [Analysis -> Phase]
      /\ conf' \in [Model -> Settings]
      /\ events' \in 0..MaxEvents
      /\ UNCHANGED <<replicas, ctrl>>
  <2>1. ASSUME NEW a \in Analysis, Submit(a) PROVE <1>2
    <3>1. events' = events \/ (events < MaxEvents /\ events' = events + 1)
      BY <2>1, Zenon DEF Submit, Count
    <3>2. inbox' \in Seq(Messages)
      BY <1>1, <2>1, SentOK DEF Submit
    <3>3. phase' = [phase EXCEPT ![a] = "waiting"] /\ UNCHANGED <<conf, replicas, ctrl>>
      BY <2>1, Zenon DEF Submit
    <3>4. events' \in 0..MaxEvents
      <4>1. events \in 0..MaxEvents /\ MaxEvents \in Nat
        BY <1>1 DEF TypeOK
      <4> QED
        BY <3>1, <4>1
    <3>5. phase' \in [Analysis -> Phase] /\ conf' \in [Model -> Settings]
      BY <1>1, <3>3 DEF TypeOK, Phase
    <3> QED
      BY <3>2, <3>3, <3>4, <3>5
  <2>2. ASSUME NEW a \in Analysis, Finish(a) PROVE <1>2
    BY <1>1, <2>2, SentOK DEF Finish, TypeOK, Phase
  <2>3. ASSUME NEW a \in Analysis, Cancel(a) PROVE <1>2
    BY <1>1, <2>3, SentOK DEF Cancel, TypeOK, Phase
  <2>4. ASSUME NEW a \in Analysis, Drop(a) PROVE <1>2
    BY <1>1, <2>4 DEF Drop, TypeOK, Phase
  <2>5. ASSUME NEW m \in Model, NEW s \in Settings, EditSettings(m, s) PROVE <1>2
    BY <1>1, <2>5 DEF EditSettings, Count, TypeOK
  <2> QED
    BY <2>1, <2>2, <2>3, <2>4, <2>5 DEF Users
<1>3. \A i \in 1..Len(inbox') : inbox'[i] \in [states : [Model -> ModelState], pending : SUBSET Model]
  BY <1>2, InboxType
<1>4. TypeOK'
  BY <1>1, <1>2, <1>3 DEF TypeOK, ctrl
<1> QED
  BY <1>1, <1>2, <1>4 DEF AInv, ctrl

\* What goes on in the cluster and around the loop: the digest, the watcher, the
\* timer, and requests that end.
LEMMA BackgroundStep ==
  ASSUME AInv,
         \/ Digest \/ PatchDone \/ Tick \/ Cleanup
         \/ \E m \in Model : ZeroDone(m) \/ ZeroFails(m) \/ UpdateDeployment(m)
  PROVE  AInv'
<1>1. TypeOK /\ inbox \in Seq(Messages) /\ pass.states \in StatesOK
  BY DEF AInv
<1>2. CASE Digest
  <2>1. inbox' \in Seq(Messages)
    BY <1>1, <1>2, MessageOK, AppendOK DEF Digest
  <2>2. \A i \in 1..Len(inbox') : inbox'[i] \in [states : [Model -> ModelState], pending : SUBSET Model]
    BY <2>1, InboxType
  <2>3. /\ UNCHANGED <<phase, conf, replicas, cache, settings, pass, patch, cleanup, zeroing, events>>
        /\ timer' \in {"off", "armed", "digested", "due"}
    BY <1>1, <1>2 DEF Digest, TypeOK
  <2>4. TypeOK'
    BY <1>1, <2>2, <2>3 DEF TypeOK
  <2> QED
    BY <1>1, <2>1, <2>3, <2>4 DEF AInv
<1>3. CASE PatchDone
  <2>1. /\ patch.model \in Model /\ patch.n \in 0..MaxReplicas
        /\ replicas' = [replicas EXCEPT ![patch.model] = patch.n]
    BY <1>1, <1>3 DEF PatchDone, TypeOK
  <2>2. replicas' \in [Model -> 0..MaxReplicas]
    BY <1>1, <2>1, TypeParts
  <2>3. patch' \in [model : Model \cup {NoModel}, n : 0..MaxReplicas]
    BY <1>3 DEF PatchDone
  <2>4. UNCHANGED <<phase, conf, inbox, cache, settings, pass, cleanup, timer, zeroing, events>>
    BY <1>3 DEF PatchDone
  <2> QED
    BY <1>1, <2>2, <2>3, <2>4 DEF TypeOK, AInv
<1>4. CASE Tick
  BY <1>1, <1>4 DEF Tick, env, TypeOK, AInv
<1>5. CASE Cleanup
  BY <1>1, <1>5 DEF Cleanup, env, TypeOK, AInv
<1>6. ASSUME NEW m \in Model, ZeroDone(m) PROVE AInv'
  <2>1. replicas' = [replicas EXCEPT ![m] = 0] /\ 0 \in 0..MaxReplicas
    BY <1>6 DEF ZeroDone
  <2>2. replicas' \in [Model -> 0..MaxReplicas]
    BY <1>1, <2>1, TypeParts
  <2>3. /\ zeroing' \subseteq Model
        /\ UNCHANGED <<phase, conf, inbox, cache, settings, pass, patch, cleanup, timer, events>>
    BY <1>1, <1>6 DEF ZeroDone, TypeOK
  <2> QED
    BY <1>1, <2>2, <2>3 DEF TypeOK, AInv
<1>7. ASSUME NEW m \in Model, ZeroFails(m) PROVE AInv'
  <2>1. events' \in 0..MaxEvents
    BY <1>1, <1>7 DEF ZeroFails, Count, TypeOK
  <2>2. /\ zeroing' \subseteq Model
        /\ UNCHANGED <<env, cache, settings, pass, patch, cleanup, timer>>
    BY <1>1, <1>7 DEF ZeroFails, TypeOK
  <2> QED
    BY <1>1, <2>1, <2>2 DEF env, TypeOK, AInv
<1>8. ASSUME NEW m \in Model, UpdateDeployment(m) PROVE AInv'
  <2>1. cache' = [cache EXCEPT ![m] = replicas[m]] /\ replicas[m] \in 0..MaxReplicas
    BY <1>1, <1>8, TypeParts DEF UpdateDeployment
  <2>2. cache' \in [Model -> 0..MaxReplicas]
    BY <1>1, <2>1, TypeParts
  <2>3. UNCHANGED <<env, settings, pass, patch, cleanup, timer, zeroing, events>>
    BY <1>8 DEF UpdateDeployment
  <2> QED
    BY <1>1, <2>2, <2>3 DEF env, TypeOK, AInv
<1> QED
  BY <1>2, <1>3, <1>4, <1>5, <1>6, <1>7, <1>8

\* process_queue_status_message: the states of the pass are those of a message.
LEMMA ReceiveStep ==
  ASSUME AInv, ReceiveMessage
  PROVE  AInv'
<1>1. TypeOK /\ inbox \in Seq(Messages) /\ inbox # <<>>
  BY DEF AInv, ReceiveMessage
<1>2. Head(inbox) \in Messages /\ Tail(inbox) \in Seq(Messages)
  BY <1>1
<1>3. /\ inbox' = Tail(inbox)
      /\ UNCHANGED <<phase, conf, replicas, cache, settings, patch, cleanup, timer, zeroing, events>>
      /\ pass' = [todo    |-> Model,
                  loading |-> FALSE,
                  states  |-> ClearUnprioritized(Head(inbox).states, TopLevels),
                  pending |-> Head(inbox).pending,
                  named   |-> {m \in Model : InProgress(Head(inbox).states[m])},
                  total   |-> 0]
  BY DEF ReceiveMessage
<1>4. Head(inbox).states \in StatesOK /\ Head(inbox).pending \in SUBSET Model
  BY <1>2 DEF Messages
<1>5. ClearUnprioritized(Head(inbox).states, TopLevels) \in StatesOK
  BY <1>4, ClearedOK
<1>6. /\ pass'.states \in StatesOK
      /\ pass' \in [todo : SUBSET Model, loading : BOOLEAN, states : [Model -> ModelState],
                    pending : SUBSET Model, named : SUBSET Model, total : Nat]
  <2> DEFINE cleared == ClearUnprioritized(Head(inbox).states, TopLevels)
  <2>1. cleared \in [Model -> ModelState]
    BY <1>5 DEF StatesOK
  <2> HIDE DEF cleared
  <2>2. {m \in Model : InProgress(Head(inbox).states[m])} \in SUBSET Model
    OBVIOUS
  <2> QED
    BY <1>3, <1>4, <1>5, <2>1, <2>2 DEF cleared
<1>7. inbox' \in Seq(Messages)
  BY <1>2, <1>3
<1>8. \A i \in 1..Len(inbox') : inbox'[i] \in [states : [Model -> ModelState], pending : SUBSET Model]
  BY <1>7, InboxType
<1>9. TypeOK'
  BY <1>1, <1>3, <1>6, <1>8 DEF TypeOK
<1> QED
  BY <1>6, <1>7, <1>9 DEF AInv

\* A model is done with, and the workers counted for it are added up.
LEMMA AdvanceOK ==
  ASSUME AInv, NEW m \in Model, Loaded(m), NEW n \in Nat, Advance(m, n)
  PROVE  /\ pass'.states = pass.states
         /\ pass' \in [todo : SUBSET Model, loading : BOOLEAN, states : [Model -> ModelState],
                       pending : SUBSET Model, named : SUBSET Model, total : Nat]
         /\ settings' \in [Model -> {{}} \cup {{s} : s \in Settings}]
<1>1. TypeOK
  BY DEF AInv
<1>2. ScalingOptions(m) \in Settings
  BY <1>1, OptionsChosen
<1>3. settings' \in [Model -> {{}} \cup {{s} : s \in Settings}]
  <2>1. settings' = [settings EXCEPT ![m] = {ScalingOptions(m)}]
    BY DEF Advance
  <2>2. {ScalingOptions(m)} \in {{}} \cup {{s} : s \in Settings}
    BY <1>2
  <2> QED
    BY <1>1, <2>1, <2>2, TypeParts
<1>4. /\ pass'.states = pass.states
      /\ pass' \in [todo : SUBSET Model, loading : BOOLEAN, states : [Model -> ModelState],
                    pending : SUBSET Model, named : SUBSET Model, total : Nat]
  <2>1. pass \in [todo : SUBSET Model, loading : BOOLEAN, states : [Model -> ModelState],
                  pending : SUBSET Model, named : SUBSET Model, total : Nat]
    BY <1>1 DEF TypeOK
  <2>2. pass' = [pass EXCEPT !.todo = pass.todo \ {m}, !.loading = FALSE, !.total = pass.total + n]
    BY DEF Advance
  <2>3. pass.todo \ {m} \in SUBSET Model /\ pass.total + n \in Nat
    BY <2>1
  <2> QED
    BY <2>1, <2>2, <2>3
<1> QED
  BY <1>3, <1>4

\* The turn of a model, in the loop of _scale_models.
LEMMA TurnStep ==
  ASSUME AInv, NEW m \in Model, LoadOptions(m) \/ ScaleUp(m) \/ ScaleDown(m)
  PROVE  AInv'
<1>1. TypeOK /\ inbox \in Seq(Messages) /\ pass.states \in StatesOK
  BY DEF AInv
<1>2. CASE LoadOptions(m)
  BY <1>1, <1>2 DEF LoadOptions, env, TypeOK, AInv
<1>3. CASE ScaleUp(m)
  <2>1. /\ Loaded(m) /\ Desired(m) > 0 /\ Advance(m, Desired(m))
        /\ cleanup' = cleanup \ {m}
        /\ patch' = patch \/ patch' = [model |-> m, n |-> Desired(m)]
        /\ UNCHANGED <<env, cache, timer, zeroing, events>>
    BY <1>3 DEF ScaleUp
  <2>2. Desired(m) \in Int /\ Desired(m) <= MaxReplicas
    BY <1>1, <1>3, DesiredType DEF ScaleUp
  <2>3. Desired(m) \in Nat /\ Desired(m) \in 0..MaxReplicas
    BY <2>1, <2>2
  <2>4. /\ pass'.states = pass.states
        /\ pass' \in [todo : SUBSET Model, loading : BOOLEAN, states : [Model -> ModelState],
                      pending : SUBSET Model, named : SUBSET Model, total : Nat]
        /\ settings' \in [Model -> {{}} \cup {{s} : s \in Settings}]
    BY <2>1, <2>3, AdvanceOK
  <2>5. patch' \in [model : Model \cup {NoModel}, n : 0..MaxReplicas]
    BY <1>1, <2>1, <2>3 DEF TypeOK
  <2>6. TypeOK'
    BY <1>1, <2>1, <2>4, <2>5 DEF TypeOK, env
  <2> QED
    BY <1>1, <2>1, <2>4, <2>6 DEF AInv, env
<1>4. CASE ScaleDown(m)
  <2>1. PICK n \in {cache[m], 0} :
          /\ Loaded(m) /\ Advance(m, n)
          /\ cleanup' = cleanup \/ cleanup' = cleanup \cup {m}
          /\ timer' = timer \/ timer' = "armed"
          /\ UNCHANGED <<env, cache, patch, zeroing, events>>
    BY <1>4 DEF ScaleDown
  <2>2. n \in Nat
    BY <1>1, TypeParts
  <2>3. /\ pass'.states = pass.states
        /\ pass' \in [todo : SUBSET Model, loading : BOOLEAN, states : [Model -> ModelState],
                      pending : SUBSET Model, named : SUBSET Model, total : Nat]
        /\ settings' \in [Model -> {{}} \cup {{s} : s \in Settings}]
    BY <2>1, <2>2, AdvanceOK
  <2>4. TypeOK'
    BY <1>1, <2>1, <2>3 DEF TypeOK, env
  <2> QED
    BY <1>1, <2>1, <2>3, <2>4 DEF AInv, env
<1> QED
  BY <1>2, <1>3, <1>4

\* The controller starts anew.
LEMMA RestartStep ==
  ASSUME AInv, Restart \/ \E m \in Model : Crash(m)
  PROVE  AInv'
<1>1. TypeOK
  BY DEF AInv
<1>2. Restarted /\ events' \in 0..MaxEvents
  BY <1>1 DEF Restart, Crash, Count, TypeOK
<1>3. [m \in Model |-> IdleState] \in StatesOK
  BY IdleCounted DEF StatesOK
<1>4. /\ NoPass.states \in StatesOK
      /\ NoPass \in [todo : SUBSET Model, loading : BOOLEAN, states : [Model -> ModelState],
                     pending : SUBSET Model, named : SUBSET Model, total : Nat]
  BY <1>3 DEF NoPass, StatesOK
<1>5. inbox' \in Seq(Messages)
  <2>1. inbox' = <<Message>> /\ Message \in Messages
    BY <1>2, MessageOK DEF Restarted
  <2> QED
    BY <2>1
<1>6. \A i \in 1..Len(inbox') : inbox'[i] \in [states : [Model -> ModelState], pending : SUBSET Model]
  BY <1>5, InboxType
<1>7. TypeOK'
  BY <1>1, <1>2, <1>4, <1>6 DEF Restarted, TypeOK
<1> QED
  BY <1>2, <1>4, <1>5, <1>7 DEF Restarted, AInv

\* The controller connects again and keeps its state.
LEMMA ReconnectStep ==
  ASSUME AInv, Reconnect
  PROVE  AInv'
<1>0. TypeOK /\ inbox' = <<Message>> /\ Count /\ UNCHANGED <<phase, conf, replicas, ctrl>>
  BY DEF AInv, Reconnect
<1>1. /\ TypeOK /\ inbox' = <<Message>> /\ events' \in 0..MaxEvents
      /\ UNCHANGED <<phase, conf, replicas, ctrl>>
  <2>1. events' \in 0..MaxEvents
    BY <1>0 DEF Count, TypeOK
  <2> QED
    BY <1>0, <2>1
<1>2. inbox' \in Seq(Messages)
  <2>1. Message \in Messages
    BY <1>1, MessageOK
  <2> QED
    BY <1>1, <2>1
<1>3. \A i \in 1..Len(inbox') : inbox'[i] \in [states : [Model -> ModelState], pending : SUBSET Model]
  BY <1>2, InboxType
<1>4. TypeOK'
  BY <1>1, <1>3 DEF TypeOK, ctrl
<1> QED
  BY <1>1, <1>2, <1>4 DEF AInv, ctrl

-----------------------------------------------------------------------------
(* The theorems.                                                           *)

\* Every reachable state has well-formed messages and a well-formed pass.
THEOREM Inductive == Spec => []AInv
<1>1. AInv /\ [Next]_vars => AInv'
  <2> SUFFICES ASSUME AInv, [Next]_vars PROVE AInv'
    OBVIOUS
  <2>1. CASE Users
    BY <2>1, UsersStep
  <2>2. CASE Digest \/ PatchDone \/ Tick \/ Cleanup
    BY <2>2, BackgroundStep
  <2>3. CASE ReceiveMessage
    BY <2>3, ReceiveStep
  <2>4. CASE Restart \/ Reconnect
    BY <2>4, RestartStep, ReconnectStep
  <2>5. ASSUME NEW m \in Model, Step(m) PROVE AInv'
    BY <2>5, TurnStep, RestartStep DEF Step
  <2>6. ASSUME NEW m \in Model, ZeroDone(m) \/ ZeroFails(m) \/ UpdateDeployment(m) PROVE AInv'
    BY <2>6, BackgroundStep
  <2>7. CASE UNCHANGED vars
    BY <2>7 DEF AInv, TypeOK, vars, env, ctrl
  <2> QED
    BY <2>1, <2>2, <2>3, <2>4, <2>5, <2>6, <2>7 DEF Next
<1> QED
  BY <1>1, InitAInv, PTL DEF Spec

\* The controller's state has its types: the cluster is asked for a number of
\* workers between none and what the options in use can ask for, although the
\* limit may leave a negative number and the cache may be stale.
THEOREM TypeCorrect == Spec => []TypeOK
<1>1. AInv => TypeOK
  BY DEF AInv
<1> QED
  BY <1>1, Inductive, PTL

\* _scale_models gives a worker to every model that the message has work for,
\* unless the limit is used up by the models before it or the options are refused.
THEOREM WorkGetsWorkers == Spec => []WorkIsServed
BY ServedAtTurn, Inductive, PTL
=============================================================================
