---------------------------- MODULE MCAutoscaler ----------------------------
(* Instances of Autoscaler for TLC. *)
EXTENDS Autoscaler

Fixed(n, low) == [strategy |-> "FIXED_WORKERS", fixed |-> n, max |-> n, min |-> low, chunks |-> 1]
Load(n, low)  == [strategy |-> "QUEUE_LOAD", fixed |-> 1, max |-> n, min |-> low, chunks |-> 1]
Dynamic(n, low, chunks) ==
  [strategy |-> "DYNAMIC_TASKS", fixed |-> 1, max |-> n, min |-> low, chunks |-> chunks]

OrderOf    == [m \in Model |-> IF m = "A" THEN 1 ELSE 2]
AllOnA     == [a \in Analysis |-> "A"]
Shared     == [a \in Analysis |-> IF a = 1 THEN "A" ELSE "B"]
TaskCounts == [a \in Analysis |-> a + 2]
Equal      == [a \in Analysis |-> 4]
LastUrgent == [a \in Analysis |-> IF a = 2 THEN 5 ELSE 4]

WithMinimum == {Fixed(2, 1)}
AllKinds    == {Load(2, 0), Load(0, 1), Fixed(1, 1), Fixed(0, 0), Dynamic(2, 0, 1), Dynamic(2, 0, 0)}
=============================================================================
