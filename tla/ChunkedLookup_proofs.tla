------------------------ MODULE ChunkedLookup_proofs ------------------------
(***************************************************************************)
(* What is proved of ChunkedLookup: the types, the bounds on the numbers   *)
(* of chunks, the start of accepted requests, and that the chunks have     *)
(* each row once and keep subjects together in even blocks, for exposures  *)
(* of any size and any options that the serializer lets through.           *)
(*                                                                         *)
(* Facts about lists of any length are shown with a least counterexample   *)
(* (LeastNumber): first appearances of subjects, the ascending list of a   *)
(* set of rows, and what a concatenation of lists contains.                *)
(***************************************************************************)
EXTENDS ChunkedLookup, SequenceTheorems, FiniteSetTheorems, WellFoundedInduction, TLAPS

USE ChunkAssumption

\* An exposure has no more rows than the bound on the rows of a file.
LEMMA LenExposure ==
  ASSUME NEW rows \in Exposure
  PROVE  Len(rows) \in 0..MaxRows
<1>1. PICK m \in 0..MaxRows : rows \in [1..m -> 1..MaxRows]
  BY DEF Exposure, BoundedSeq, SeqOf
<1>2. Len(rows) = m
  BY <1>1
<1> QED
  BY <1>2

\* The exposure that a request starts out with, before it has read a file.
LEMMA EmptyExposure == <<>> \in Exposure
<1>1. <<>> \in [1..0 -> 1..MaxRows]
  OBVIOUS
<1>2. 0 \in 0..MaxRows
  OBVIOUS
<1>3. <<>> \in BoundedSeq(1..MaxRows, MaxRows)
  BY <1>1, <1>2 DEF BoundedSeq, SeqOf
<1> QED
  BY <1>3 DEF Exposure

\* A set of numbers has a least one.  A proof by induction takes the least
\* counterexample: the provers have no rule for a predicate as a parameter.
LEMMA LeastNumber ==
  ASSUME NEW S, S \subseteq Nat, S # {}
  PROVE  \E x \in S : \A y \in S : x <= y
<1> DEFINE R == {ss \in Nat \X Nat : ss[1] < ss[2]}
<1>1. OpToRel(<, Nat) = R
  BY DEF OpToRel
<1>2. IsWellFoundedOn(R, Nat)
  BY <1>1, NatLessThanWellFounded
<1>3. PICK x \in S : \A y \in S : ~(<<y, x>> \in R)
  BY <1>2, WFMin
<1>4. \A y \in Nat, z \in Nat : <<y, z>> \in R <=> y < z
  OBVIOUS
<1> HIDE DEF R
<1>5. \A y \in S : ~(y < x)
  BY <1>3, <1>4
<1> QED
  BY <1>5

-----------------------------------------------------------------------------
(* The split: np.array_split of the subjects, and the rows of each chunk.  *)

\* Multiplication by a number that is not negative keeps the order.
LEMMA ProductMonotone ==
  ASSUME NEW a \in Nat, NEW b \in Nat, NEW q \in Nat, a <= b
  PROVE  a * q <= b * q
<1>1. PICK d \in Nat : b = a + d
  <2>1. b - a \in Nat /\ b = a + (b - a)
    OBVIOUS
  <2> QED
    BY <2>1
<1>2. b * q = a * q + d * q
  BY <1>1
<1>3. d * q \in Nat /\ a * q \in Nat
  OBVIOUS
<1> QED
  BY <1>2, <1>3

\* Quotient and remainder of the split.
LEMMA Division ==
  ASSUME NEW total \in Nat, NEW chunks \in Nat \ {0}
  PROVE  /\ total \div chunks \in Nat
         /\ total % chunks \in 0..(chunks - 1)
         /\ total = chunks * (total \div chunks) + (total % chunks)
OBVIOUS

\* The blocks begin at zero and end at the total, and each has the quotient of
\* subjects, or one more: the first (total % chunks) blocks do.
LEMMA BlockSizes ==
  ASSUME NEW total \in Nat, NEW chunks \in Nat \ {0}
  PROVE  /\ \A c \in 1..(chunks + 1) : BlockStart(total, chunks, c) \in Nat
         /\ BlockStart(total, chunks, 1) = 0
         /\ BlockStart(total, chunks, chunks + 1) = total
         /\ \A c \in 1..chunks :
              BlockStart(total, chunks, c + 1) - BlockStart(total, chunks, c)
                \in {total \div chunks, total \div chunks + 1}
<1>1. PICK q \in Nat : q = total \div chunks
  BY Division
<1>2. PICK r \in 0..(chunks - 1) : r = total % chunks
  BY Division
<1>3. total = chunks * q + r
  BY <1>1, <1>2, Division
<1>4. \A c \in 1..(chunks + 1) : BlockStart(total, chunks, c) = (c - 1) * q + Least(c - 1, r)
  BY <1>1, <1>2 DEF BlockStart
<1>5. \A c \in 1..(chunks + 1) : Least(c - 1, r) \in Nat /\ (c - 1) * q \in Nat
  <2> TAKE c \in 1..(chunks + 1)
  <2>1. c - 1 \in Nat
    OBVIOUS
  <2>2. \A n \in Nat : n * q \in Nat
    OBVIOUS
  <2> QED
    BY <2>1, <2>2 DEF Least
<1>6. \A c \in 1..(chunks + 1) : BlockStart(total, chunks, c) \in Nat
  BY <1>4, <1>5
<1>7. BlockStart(total, chunks, 1) = 0
  BY <1>4 DEF Least
<1>8. BlockStart(total, chunks, chunks + 1) = total
  BY <1>3, <1>4 DEF Least
<1>9. ASSUME NEW c \in 1..chunks
      PROVE  BlockStart(total, chunks, c + 1) - BlockStart(total, chunks, c) \in {q, q + 1}
  <2>1. BlockStart(total, chunks, c + 1) = c * q + Least(c, r)
    BY <1>4
  <2>2. BlockStart(total, chunks, c) = (c - 1) * q + Least(c - 1, r)
    BY <1>4
  <2>3. c * q = (c - 1) * q + q
    OBVIOUS
  <2>4. Least(c, r) - Least(c - 1, r) \in {0, 1} /\ Least(c, r) \in Nat /\ Least(c - 1, r) \in Nat
    BY DEF Least
  <2>5. (c - 1) * q \in Nat
    BY <1>5
  <2> QED
    BY <2>1, <2>2, <2>3, <2>4, <2>5
<1> QED
  BY <1>1, <1>6, <1>7, <1>8, <1>9

\* A later block does not begin before an earlier one ends.
LEMMA BlocksInOrder ==
  ASSUME NEW total \in Nat, NEW chunks \in Nat \ {0},
         NEW c \in 1..chunks, NEW d \in 1..chunks, c < d
  PROVE  BlockStart(total, chunks, c + 1) <= BlockStart(total, chunks, d)
<1>1. PICK q \in Nat : q = total \div chunks
  BY Division
<1>2. PICK r \in 0..(chunks - 1) : r = total % chunks
  BY Division
<1>3. BlockStart(total, chunks, c + 1) = c * q + Least(c, r)
  BY <1>1, <1>2 DEF BlockStart
<1>4. PICK e \in Nat : e = d - 1 /\ c <= e
  OBVIOUS
<1>5. BlockStart(total, chunks, d) = e * q + Least(e, r)
  BY <1>1, <1>2, <1>4 DEF BlockStart
<1>6. c * q <= e * q /\ c * q \in Nat /\ e * q \in Nat
  BY <1>4, ProductMonotone
<1>7. Least(c, r) <= Least(e, r) /\ Least(c, r) \in Nat /\ Least(e, r) \in Nat
  BY <1>4 DEF Least
<1> QED
  BY <1>3, <1>5, <1>6, <1>7

\* Every subject is in exactly one of the blocks.
LEMMA OneBlock ==
  ASSUME NEW total \in Nat, NEW chunks \in Nat \ {0}, NEW x \in 1..total
  PROVE  \E c \in 1..chunks :
           \A d \in 1..chunks :
             /\ BlockStart(total, chunks, d) < x
             /\ x <= BlockStart(total, chunks, d + 1)
             <=> d = c
<1> DEFINE S == {c \in 1..chunks : x <= BlockStart(total, chunks, c + 1)}
<1>1. S \subseteq Nat /\ chunks \in S
  BY BlockSizes
<1>2. PICK c \in S : \A d \in S : c <= d
  BY <1>1, LeastNumber
<1>3. BlockStart(total, chunks, c) < x
  <2>1. CASE c = 1
    BY <2>1, BlockSizes
  <2>2. CASE c # 1
    <3>1. c - 1 \in 1..chunks /\ c - 1 \notin S
      BY <1>2, <2>2
    <3>2. ~(x <= BlockStart(total, chunks, (c - 1) + 1)) /\ (c - 1) + 1 = c
      BY <3>1
    <3>3. BlockStart(total, chunks, c) \in Nat
      <4>1. c \in 1..(chunks + 1)
        BY <1>2
      <4> QED
        BY <4>1, BlockSizes
    <3> QED
      BY <3>2, <3>3
  <2> QED
    BY <2>1, <2>2
<1>4. c \in 1..chunks /\ x <= BlockStart(total, chunks, c + 1)
  BY <1>2
<1> HIDE DEF S
<1>5. ASSUME NEW d \in 1..chunks, d # c,
             BlockStart(total, chunks, d) < x, x <= BlockStart(total, chunks, d + 1)
      PROVE  FALSE
  <2>1. /\ BlockStart(total, chunks, c) \in Nat /\ BlockStart(total, chunks, d) \in Nat
        /\ BlockStart(total, chunks, c + 1) \in Nat /\ BlockStart(total, chunks, d + 1) \in Nat
    <3>1. {c, d, c + 1, d + 1} \subseteq 1..(chunks + 1)
      BY <1>4
    <3> QED
      BY <3>1, BlockSizes
  <2>2. CASE c < d
    BY <1>4, <1>5, <2>1, <2>2, BlocksInOrder
  <2>3. CASE d < c
    BY <1>3, <1>4, <1>5, <2>1, <2>3, BlocksInOrder
  <2> QED
    BY <1>4, <1>5, <2>2, <2>3
<1> QED
  BY <1>3, <1>4, <1>5

\* An exposure is a sequence of subjects.
LEMMA ExposureRows ==
  ASSUME NEW rows \in Exposure
  PROVE  /\ rows \in Seq(1..MaxRows)
         /\ DOMAIN rows = 1..Len(rows)
         /\ \A i \in 1..Len(rows) : rows[i] \in 1..MaxRows
<1>1. PICK m \in 0..MaxRows : rows \in [1..m -> 1..MaxRows]
  BY DEF Exposure, BoundedSeq, SeqOf
<1>2. Len(rows) = m
  BY <1>1
<1> QED
  BY <1>1, <1>2

\* Subjects are named by the order of their first appearance (pd.factorize), so
\* the subjects of the first rows of an exposure are the first subjects.
LEMMA FirstSubjects ==
  ASSUME NEW rows \in Exposure, NEW n \in 0..Len(rows)
  PROVE  \E m \in Nat : {rows[j] : j \in 1..n} = 1..m
<1> DEFINE First(k) == {rows[j] : j \in 1..k}
<1> DEFINE S == {k \in 0..Len(rows) : ~ \E m \in Nat : First(k) = 1..m}
<1>1. SUFFICES ASSUME S # {} PROVE FALSE
  OBVIOUS
<1>2. Len(rows) \in Nat
  BY LenExposure
<1>3. PICK k \in S : \A y \in S : k <= y
  <2>1. S \subseteq Nat
    BY <1>2
  <2> HIDE DEF S
  <2> QED
    BY <1>1, <2>1, LeastNumber
<1>4. k \in 0..Len(rows) /\ ~ \E m \in Nat : First(k) = 1..m
  BY <1>3
<1>5. k # 0
  <2>1. First(0) = 1..0
    OBVIOUS
  <2> QED
    BY <1>4, <2>1
<1>6. k \in 1..Len(rows) /\ k - 1 \in 0..Len(rows)
  BY <1>2, <1>4, <1>5
<1>7. k - 1 \notin S
  <2> HIDE DEF S
  <2> QED
    BY <1>3, <1>6
<1>8. PICK m \in Nat : First(k - 1) = 1..m
  BY <1>6, <1>7
<1>9. Cardinality(First(k - 1)) = m
  <2>1. Cardinality(1..m) = m
    BY FS_Interval
  <2> HIDE DEF First
  <2> QED
    BY <1>8, <2>1
<1>10. rows[k] <= 1 + Cardinality(First(k - 1))
  BY <1>6, ExposureRows DEF Exposure
<1>11. rows[k] \in Nat /\ rows[k] >= 1 /\ rows[k] <= m + 1
  <2>1. rows[k] \in 1..MaxRows
    BY <1>6, ExposureRows
  <2> HIDE DEF First
  <2> QED
    BY <1>9, <1>10, <2>1
<1>12. First(k) = First(k - 1) \cup {rows[k]}
  <2>1. 1..k = 1..(k - 1) \cup {k}
    BY <1>6
  <2> QED
    BY <2>1
<1>13. First(k) = 1..m \/ First(k) = 1..(m + 1)
  <2> HIDE DEF First
  <2>1. CASE rows[k] = m + 1
    BY <1>8, <1>12, <2>1
  <2>2. CASE rows[k] <= m
    BY <1>8, <1>11, <1>12, <2>2
  <2> QED
    BY <1>11, <2>1, <2>2
<1> HIDE DEF First, S
<1> QED
  BY <1>4, <1>13

\* The subjects of an exposure are numbered from one, without a gap.
LEMMA SubjectsNumbered ==
  ASSUME NEW rows \in Exposure
  PROVE  /\ IsFiniteSet(Subjects(rows))
         /\ Cardinality(Subjects(rows)) \in Nat
         /\ Subjects(rows) = 1..Cardinality(Subjects(rows))
<1>1. Len(rows) \in 0..Len(rows)
  BY LenExposure
<1>2. PICK m \in Nat : {rows[j] : j \in 1..Len(rows)} = 1..m
  BY <1>1, FirstSubjects
<1>3. Subjects(rows) = 1..m
  BY <1>2, ExposureRows DEF Subjects
<1>4. IsFiniteSet(1..m) /\ Cardinality(1..m) = m
  BY FS_Interval
<1> QED
  BY <1>3, <1>4

\* The chunk of a row is the block of its subject.
LEMMA ChunkIsBlock ==
  ASSUME NEW rows \in Exposure, NEW chunks \in Nat \ {0}, NEW i \in DOMAIN rows
  PROVE  LET total == Cardinality(Subjects(rows)) IN
         /\ ChunkOf(rows, chunks, i) \in 1..chunks
         /\ \A d \in 1..chunks :
              d = ChunkOf(rows, chunks, i)
              <=> /\ BlockStart(total, chunks, d) < rows[i]
                  /\ rows[i] <= BlockStart(total, chunks, d + 1)
<1>1. PICK total \in Nat : total = Cardinality(Subjects(rows))
  BY SubjectsNumbered
<1>2. rows[i] \in 1..total
  BY <1>1, SubjectsNumbered DEF Subjects
<1>3. PICK c \in 1..chunks :
        \A d \in 1..chunks :
          /\ BlockStart(total, chunks, d) < rows[i]
          /\ rows[i] <= BlockStart(total, chunks, d + 1)
          <=> d = c
  BY <1>2, OneBlock
<1>4. ChunkOf(rows, chunks, i) = c
  <2>1. ChunkOf(rows, chunks, i) =
          CHOOSE d \in 1..chunks : /\ BlockStart(total, chunks, d) < rows[i]
                                   /\ rows[i] <= BlockStart(total, chunks, d + 1)
    BY <1>1 DEF ChunkOf
  <2> QED
    BY <1>3, <2>1
<1> QED
  BY <1>1, <1>3, <1>4

\* A finite set of positions can be listed in ascending order.
LEMMA AscendingExists ==
  ASSUME NEW S, S \subseteq Nat, IsFiniteSet(S)
  PROVE  \E s \in [1..Cardinality(S) -> S] : \A i, j \in DOMAIN s : i < j => s[i] < s[j]
<1> DEFINE Bad == {n \in Nat : \E U \in SUBSET Nat :
                     /\ IsFiniteSet(U) /\ Cardinality(U) = n
                     /\ ~ \E s \in [1..n -> U] : \A i, j \in 1..n : i < j => s[i] < s[j]}
<1>1. Cardinality(S) \in Nat
  BY FS_CardinalityType
<1>2. SUFFICES ASSUME Bad # {} PROVE FALSE
  <2>1. Cardinality(S) \notin Bad
    BY <1>2
  <2>2. PICK s \in [1..Cardinality(S) -> S] :
          \A i, j \in 1..Cardinality(S) : i < j => s[i] < s[j]
    BY <1>1, <2>1
  <2> QED
    BY <2>2
<1>3. PICK n \in Bad : \A m \in Bad : n <= m
  BY <1>2, LeastNumber
<1>4. n \in Nat /\ (\A m \in Bad : n <= m)
  BY <1>3
<1>5. PICK U \in SUBSET Nat :
        /\ IsFiniteSet(U) /\ Cardinality(U) = n
        /\ ~ \E s \in [1..n -> U] : \A i, j \in 1..n : i < j => s[i] < s[j]
  BY <1>3
<1>6. n # 0
  <2>1. SUFFICES ASSUME n = 0 PROVE FALSE
    OBVIOUS
  <2>2. [i \in 1..n |-> 0] \in [1..n -> U] /\ 1..n = {}
    BY <2>1
  <2> QED
    BY <1>5, <2>2
<1>7. U # {}
  BY <1>4, <1>5, <1>6, FS_EmptySet
<1>8. PICK m \in U : \A y \in U : m <= y
  BY <1>7, LeastNumber
<1> DEFINE V == U \ {m}
<1>9. IsFiniteSet(V) /\ Cardinality(V) = n - 1 /\ V \in SUBSET Nat
  BY <1>5, <1>8, FS_RemoveElement
<1>10. n - 1 \in Nat /\ n - 1 \notin Bad
  BY <1>4, <1>6
<1>11. PICK t \in [1..(n - 1) -> V] : \A i, j \in 1..(n - 1) : i < j => t[i] < t[j]
  <2> HIDE DEF V
  <2> QED
    BY <1>9, <1>10
<1>12. PICK s : s = [i \in 1..n |-> IF i = 1 THEN m ELSE t[i - 1]]
  OBVIOUS
<1>13. \A i \in 1..n : i # 1 => i - 1 \in 1..(n - 1) /\ s[i] = t[i - 1]
  BY <1>4, <1>12
<1>14. s[1] = m
  BY <1>4, <1>6, <1>12
<1>15. \A i \in 1..n : i # 1 => s[i] \in U /\ m < s[i]
  <2> TAKE i \in 1..n
  <2> HAVE i # 1
  <2>1. s[i] \in U /\ s[i] # m
    BY <1>11, <1>13
  <2>2. s[i] \in Nat /\ m \in Nat /\ m <= s[i]
    BY <1>8, <2>1
  <2> QED
    BY <2>1, <2>2
<1>16. s \in [1..n -> U]
  BY <1>8, <1>12, <1>14, <1>15
<1>17. ASSUME NEW i \in 1..n, NEW j \in 1..n, i < j PROVE s[i] < s[j]
  <2>1. j # 1
    BY <1>17
  <2>2. CASE i = 1
    BY <1>14, <1>15, <2>1, <2>2
  <2>3. CASE i # 1
    BY <1>11, <1>13, <1>17, <2>1, <2>3
  <2> QED
    BY <2>2, <2>3
<1> QED
  BY <1>5, <1>16, <1>17

\* The rows of a chunk are listed each once, and in the order of the file.
LEMMA AscendingLists ==
  ASSUME NEW S, S \subseteq Nat, IsFiniteSet(S)
  PROVE  /\ Ascending(S) \in Seq(S)
         /\ Len(Ascending(S)) = Cardinality(S)
         /\ ToSet(Ascending(S)) = S
<1>1. PICK n \in Nat : n = Cardinality(S)
  BY FS_CardinalityType
<1>2. PICK s : s = Ascending(S)
  OBVIOUS
<1>3. s \in [1..n -> S] /\ \A i, j \in DOMAIN s : i < j => s[i] < s[j]
  BY <1>1, <1>2, AscendingExists DEF Ascending
<1>4. s \in Injection(1..n, S)
  <2>1. ASSUME NEW i \in 1..n, NEW j \in 1..n, s[i] = s[j], i # j PROVE FALSE
    <3>1. s[i] \in Nat /\ s[j] \in Nat
      BY <1>3
    <3>2. i < j \/ j < i
      BY <2>1
    <3> QED
      BY <1>3, <2>1, <3>1, <3>2
  <2> QED
    BY <1>3, <2>1 DEF Injection, IsInjective
<1>5. Cardinality(1..n) = n
  BY FS_Interval
<1>6. s \in Surjection(1..n, S)
  BY <1>1, <1>4, <1>5, FS_Injection
<1>7. ToSet(s) = S
  BY <1>3, <1>6 DEF ToSet, Surjection
<1> QED
  BY <1>1, <1>2, <1>3, <1>7

\* FlattenSeq is defined by recursion on the sequences it joins; the recursion
\* has a solution.
LEMMA FlattenRecursion ==
  ASSUME NEW k \in Nat \ {0}, NEW part
  PROVE  \E f : f = [i \in 1..k |-> IF i = 1 THEN part[i] ELSE f[i - 1] \o part[i]]
<1> DEFINE Solves(f, n) == f = [i \in 1..n |-> IF i = 1 THEN part[i] ELSE f[i - 1] \o part[i]]
<1> DEFINE Bad == {n \in Nat \ {0} : ~ \E f : Solves(f, n)}
<1>1. SUFFICES ASSUME Bad # {} PROVE FALSE
  OBVIOUS
<1>2. PICK n \in Bad : \A m \in Bad : n <= m
  <2>1. Bad \subseteq Nat
    OBVIOUS
  <2> HIDE DEF Bad
  <2> QED
    BY <1>1, <2>1, LeastNumber
<1>3. n \in Nat \ {0} /\ ~ \E f : Solves(f, n)
  BY <1>2
<1>4. n # 1
  <2>1. SUFFICES ASSUME n = 1 PROVE FALSE
    OBVIOUS
  <2>2. PICK f : f = [i \in 1..1 |-> part[1]]
    OBVIOUS
  <2>3. Solves(f, 1)
    BY <2>2
  <2> QED
    BY <1>3, <2>1, <2>3
<1>5. n - 1 \in Nat \ {0} /\ n - 1 \notin Bad
  <2> HIDE DEF Bad
  <2> QED
    BY <1>2, <1>3, <1>4
<1>6. PICK g : Solves(g, n - 1)
  BY <1>5
<1>7. PICK f : f = [i \in 1..n |-> IF i = n THEN g[n - 1] \o part[n] ELSE g[i]]
  OBVIOUS
<1>8. \A i \in 1..(n - 1) : g[i] = IF i = 1 THEN part[i] ELSE g[i - 1] \o part[i]
  BY <1>6
<1>9. \A i \in 1..(n - 1) : f[i] = g[i]
  BY <1>3, <1>7
<1>10. f[n] = g[n - 1] \o part[n]
  <2>1. n \in 1..n
    BY <1>3
  <2> QED
    BY <1>7, <2>1
<1>11. ASSUME NEW i \in 1..n
       PROVE  f[i] = IF i = 1 THEN part[i] ELSE f[i - 1] \o part[i]
  <2>1. CASE i = n
    <3>1. n - 1 \in 1..(n - 1)
      BY <1>3, <1>4
    <3> QED
      BY <1>4, <1>9, <1>10, <2>1, <3>1
  <2>2. CASE i # n
    <3>1. i \in 1..(n - 1) /\ (i # 1 => i - 1 \in 1..(n - 1))
      BY <1>3, <2>2
    <3> QED
      BY <1>8, <1>9, <3>1
  <2> QED
    BY <2>1, <2>2
<1>12. Solves(f, n)
  BY <1>7, <1>11
<1> HIDE DEF Solves
<1> QED
  BY <1>3, <1>12

\* The merge of lists of numbers that share none, and in which no number is
\* listed twice, lists what they list, each once.
LEMMA FlattenLists ==
  ASSUME NEW k \in Nat \ {0}, NEW part \in [1..k -> Seq(Nat)],
         \A c \in 1..k : /\ IsFiniteSet(ToSet(part[c]))
                         /\ Len(part[c]) = Cardinality(ToSet(part[c])),
         \A c, d \in 1..k : c # d => ToSet(part[c]) \cap ToSet(part[d]) = {}
  PROVE  LET all == UNION {ToSet(part[c]) : c \in 1..k} IN
         /\ ToSet(FlattenSeq(part)) = all
         /\ Len(FlattenSeq(part)) = Cardinality(all)
<1>1. PICK f : /\ f = [i \in 1..k |-> IF i = 1 THEN part[i] ELSE f[i - 1] \o part[i]]
               /\ FlattenSeq(part) = f[k]
  <2>1. Len(part) = k
    OBVIOUS
  <2>2. PICK f : f = CHOOSE g : g = [i \in 1..k |-> IF i = 1 THEN part[i] ELSE g[i - 1] \o part[i]]
    OBVIOUS
  <2>3. f = [i \in 1..k |-> IF i = 1 THEN part[i] ELSE f[i - 1] \o part[i]]
    BY <2>2, FlattenRecursion, Zenon
  <2>4. FlattenSeq(part) = f[k]
    BY <2>1, <2>2 DEF FlattenSeq
  <2> QED
    BY <2>3, <2>4
<1>2. \A i \in 1..k : f[i] = IF i = 1 THEN part[i] ELSE f[i - 1] \o part[i]
  BY <1>1
<1> DEFINE All(n) == UNION {ToSet(part[c]) : c \in 1..n}
<1> DEFINE Good(n) == /\ f[n] \in Seq(Nat)
                      /\ ToSet(f[n]) = All(n)
                      /\ IsFiniteSet(All(n))
                      /\ Len(f[n]) = Cardinality(All(n))
<1> DEFINE Bad == {n \in 1..k : ~ Good(n)}
<1>3. SUFFICES ASSUME Bad # {} PROVE FALSE
  <2>1. k \in 1..k
    OBVIOUS
  <2>2. Good(k)
    <3> HIDE DEF Good
    <3> QED
      BY <1>3, <2>1
  <2> QED
    BY <1>1, <2>2
<1>4. PICK n \in Bad : \A m \in Bad : n <= m
  <2>1. Bad \subseteq Nat
    OBVIOUS
  <2> HIDE DEF Bad
  <2> QED
    BY <1>3, <2>1, LeastNumber
<1>5. n \in 1..k /\ ~ Good(n)
  BY <1>4
<1>6. n # 1
  <2>1. SUFFICES ASSUME n = 1 PROVE FALSE
    OBVIOUS
  <2>2. f[1] = part[1]
    BY <1>2
  <2>3. All(1) = ToSet(part[1])
    OBVIOUS
  <2>4. Good(1)
    <3> HIDE DEF All
    <3> QED
      BY <2>2, <2>3
  <2> QED
    BY <1>5, <2>1, <2>4
<1>7. n - 1 \in 1..k /\ n - 1 \notin Bad
  <2> HIDE DEF Bad
  <2> QED
    BY <1>4, <1>5, <1>6
<1>8. Good(n - 1)
  <2> HIDE DEF Good
  <2> QED
    BY <1>7
<1>9. f[n] = f[n - 1] \o part[n]
  BY <1>2, <1>5, <1>6
<1>10. All(n) = All(n - 1) \cup ToSet(part[n])
  <2>1. 1..n = 1..(n - 1) \cup {n}
    BY <1>5
  <2> QED
    BY <2>1
<1>11. All(n - 1) \cap ToSet(part[n]) = {}
  <2>1. \A c \in 1..(n - 1) : c \in 1..k /\ c # n
    BY <1>5
  <2> QED
    BY <1>5, <2>1
<1>12. f[n] \in Seq(Nat) /\ Len(f[n]) = Len(f[n - 1]) + Len(part[n])
  <2>1. f[n - 1] \in Seq(Nat) /\ part[n] \in Seq(Nat)
    BY <1>5, <1>8
  <2> QED
    BY <1>9, <2>1
<1>13. ToSet(f[n]) = ToSet(f[n - 1]) \cup ToSet(part[n])
  <2>1. PICK s \in Seq(Nat), t \in Seq(Nat) : s = f[n - 1] /\ t = part[n]
    BY <1>5, <1>8
  <2>2. ToSet(s \o t) = ToSet(s) \cup ToSet(t)
    <3>1. ASSUME NEW i \in 1..(Len(s) + Len(t)) PROVE (s \o t)[i] \in ToSet(s) \cup ToSet(t)
      <4>1. CASE i <= Len(s)
        BY <3>1, <4>1 DEF ToSet
      <4>2. CASE i > Len(s)
        <5>1. i - Len(s) \in 1..Len(t) /\ (s \o t)[i] = t[i - Len(s)]
          BY <3>1, <4>2
        <5> QED
          BY <5>1 DEF ToSet
      <4> QED
        BY <3>1, <4>1, <4>2
    <3>2. ASSUME NEW i \in 1..Len(s) PROVE i \in 1..(Len(s) + Len(t)) /\ (s \o t)[i] = s[i]
      BY <3>2
    <3>3. ASSUME NEW i \in 1..Len(t)
          PROVE  Len(s) + i \in 1..(Len(s) + Len(t)) /\ (s \o t)[Len(s) + i] = t[i]
      BY <3>3
    <3>4. DOMAIN (s \o t) = 1..(Len(s) + Len(t)) /\ DOMAIN s = 1..Len(s) /\ DOMAIN t = 1..Len(t)
      OBVIOUS
    <3>5. ToSet(s \o t) \subseteq ToSet(s) \cup ToSet(t)
      BY <3>1, <3>4 DEF ToSet
    <3>6. ToSet(s) \subseteq ToSet(s \o t)
      BY <3>2, <3>4 DEF ToSet
    <3>7. ToSet(t) \subseteq ToSet(s \o t)
      BY <3>3, <3>4 DEF ToSet
    <3> QED
      BY <3>5, <3>6, <3>7
  <2> QED
    BY <1>9, <2>1, <2>2
<1>14. /\ IsFiniteSet(All(n))
       /\ Cardinality(All(n)) = Cardinality(All(n - 1)) + Cardinality(ToSet(part[n]))
  <2>1. IsFiniteSet(All(n - 1)) /\ IsFiniteSet(ToSet(part[n]))
    BY <1>5, <1>8
  <2>2. Cardinality(All(n - 1)) \in Nat /\ Cardinality(ToSet(part[n])) \in Nat
    BY <2>1, FS_CardinalityType
  <2>3. Cardinality(All(n - 1) \cap ToSet(part[n])) = 0
    BY <1>11, FS_EmptySet
  <2>4. PICK U : U = All(n - 1)
    OBVIOUS
  <2>5. PICK V : V = ToSet(part[n])
    OBVIOUS
  <2>6. IsFiniteSet(U) /\ IsFiniteSet(V)
    BY <2>1, <2>4, <2>5
  <2>7. /\ IsFiniteSet(U \cup V)
        /\ Cardinality(U \cup V) = Cardinality(U) + Cardinality(V) - Cardinality(U \cap V)
    BY <2>6, FS_Union
  <2> HIDE DEF All
  <2> QED
    BY <1>10, <2>2, <2>3, <2>4, <2>5, <2>7
<1>15. Good(n)
  <2> HIDE DEF All
  <2> QED
    BY <1>5, <1>8, <1>10, <1>12, <1>13, <1>14
<1> QED
  BY <1>5, <1>15

\* The rows of the chunks of an exposure: lists of positions, each position in one
\* list, and once.
LEMMA ChunkRows ==
  ASSUME NEW rows \in Exposure, NEW chunks \in Nat \ {0}, NEW c \in 1..chunks
  PROVE  LET s == subject_at_risk_chunk_rows(rows, chunks, c) IN
         /\ s \in Seq(Nat)
         /\ ToSet(s) = {i \in DOMAIN rows : ChunkOf(rows, chunks, i) = c}
         /\ IsFiniteSet(ToSet(s))
         /\ Len(s) = Cardinality(ToSet(s))
<1>1. PICK S : S = {i \in DOMAIN rows : ChunkOf(rows, chunks, i) = c}
  OBVIOUS
<1>2. Len(rows) \in Nat /\ DOMAIN rows = 1..Len(rows)
  BY LenExposure, ExposureRows
<1>3. IsFiniteSet(1..Len(rows))
  BY <1>2, FS_Interval
<1>4. S \in SUBSET (1..Len(rows)) /\ S \subseteq Nat
  BY <1>1, <1>2
<1>5. IsFiniteSet(S)
  BY <1>3, <1>4, FS_Subset
<1>6. Ascending(S) \in Seq(S) /\ Len(Ascending(S)) = Cardinality(S) /\ ToSet(Ascending(S)) = S
  BY <1>4, <1>5, AscendingLists
<1>7. Ascending(S) \in Seq(Nat)
  <2>1. \A s \in Seq(S) : s \in Seq(Nat)
    <3> TAKE s \in Seq(S)
    <3>1. s \in [1..Len(s) -> S] /\ Len(s) \in Nat
      OBVIOUS
    <3>2. s \in [1..Len(s) -> Nat]
      BY <1>4, <3>1
    <3> QED
      BY <3>1, <3>2
  <2> QED
    BY <1>6, <2>1
<1> QED
  BY <1>1, <1>5, <1>6, <1>7 DEF subject_at_risk_chunk_rows

\* However many chunks subject_at_risk_chunk_rows is asked for, its lists put
\* together are the rows of the exposure, each once: no location is left out of the
\* lookup and none is looked up twice.
THEOREM SplitCoversRows ==
  ASSUME NEW rows \in Exposure, NEW chunks \in Nat \ {0}
  PROVE  LET all == FlattenSeq([c \in 1..chunks |-> subject_at_risk_chunk_rows(rows, chunks, c)]) IN
         /\ Len(all) = Len(rows)
         /\ ToSet(all) = DOMAIN rows
<1>1. PICK part : part = [c \in 1..chunks |-> subject_at_risk_chunk_rows(rows, chunks, c)]
  OBVIOUS
<1>2. part \in [1..chunks -> Seq(Nat)]
  BY <1>1, ChunkRows
<1>3. \A c \in 1..chunks : /\ ToSet(part[c]) = {i \in DOMAIN rows : ChunkOf(rows, chunks, i) = c}
                            /\ IsFiniteSet(ToSet(part[c]))
                            /\ Len(part[c]) = Cardinality(ToSet(part[c]))
  BY <1>1, ChunkRows
<1>4. \A c, d \in 1..chunks : c # d => ToSet(part[c]) \cap ToSet(part[d]) = {}
  BY <1>3
<1>5. UNION {ToSet(part[c]) : c \in 1..chunks} = DOMAIN rows
  <2>1. \A i \in DOMAIN rows : ChunkOf(rows, chunks, i) \in 1..chunks
    BY ChunkIsBlock
  <2>2. \A i \in DOMAIN rows : i \in ToSet(part[ChunkOf(rows, chunks, i)])
    BY <1>3, <2>1
  <2>3. \A c \in 1..chunks : ToSet(part[c]) \subseteq DOMAIN rows
    BY <1>3
  <2> QED
    BY <2>1, <2>2, <2>3
<1>6. ToSet(FlattenSeq(part)) = DOMAIN rows /\ Len(FlattenSeq(part)) = Cardinality(DOMAIN rows)
  BY <1>2, <1>3, <1>4, <1>5, FlattenLists
<1>7. Cardinality(DOMAIN rows) = Len(rows)
  <2>1. Len(rows) \in Nat /\ DOMAIN rows = 1..Len(rows)
    BY LenExposure, ExposureRows
  <2>2. \A n \in Nat : Cardinality(1..n) = n
    BY FS_Interval
  <2> QED
    BY <2>1, <2>2
<1> QED
  BY <1>1, <1>6, <1>7

\* The subjects of a chunk are a block of the subjects.
LEMMA ChunkSubjects ==
  ASSUME NEW rows \in Exposure, NEW chunks \in Nat \ {0}, NEW c \in 1..chunks
  PROVE  LET total == Cardinality(Subjects(rows)) IN
         {rows[i] : i \in ToSet(subject_at_risk_chunk_rows(rows, chunks, c))}
           = (BlockStart(total, chunks, c) + 1)..BlockStart(total, chunks, c + 1)
<1>1. PICK total \in Nat : total = Cardinality(Subjects(rows))
  BY SubjectsNumbered
<1>2. PICK lo \in Nat, hi \in Nat : /\ lo = BlockStart(total, chunks, c)
                                   /\ hi = BlockStart(total, chunks, c + 1)
  <2>1. {c, c + 1} \subseteq 1..(chunks + 1)
    OBVIOUS
  <2> QED
    BY <2>1, BlockSizes
<1>3. hi <= total
  <2>1. CASE c = chunks
    BY <1>2, <2>1, BlockSizes
  <2>2. CASE c # chunks
    <3>1. chunks \in 1..chunks /\ c < chunks /\ chunks \in 1..(chunks + 1)
      BY <2>2
    <3>2. hi <= BlockStart(total, chunks, chunks)
      BY <1>2, <3>1, BlocksInOrder
    <3>3. /\ BlockStart(total, chunks, chunks) \in Nat
          /\ BlockStart(total, chunks, chunks + 1) = total
          /\ BlockStart(total, chunks, chunks + 1) - BlockStart(total, chunks, chunks)
               \in {total \div chunks, total \div chunks + 1}
      BY <3>1, BlockSizes
    <3>4. total \div chunks \in Nat
      BY Division
    <3> QED
      BY <3>2, <3>3, <3>4
  <2> QED
    BY <2>1, <2>2
<1>4. Subjects(rows) = 1..total
  BY <1>1, SubjectsNumbered
<1>5. ToSet(subject_at_risk_chunk_rows(rows, chunks, c))
        = {i \in DOMAIN rows : ChunkOf(rows, chunks, i) = c}
  BY ChunkRows
<1>6. \A i \in DOMAIN rows : ChunkOf(rows, chunks, i) = c <=> lo < rows[i] /\ rows[i] <= hi
  BY <1>1, <1>2, ChunkIsBlock
<1>7. \A x : x \in (lo + 1)..hi <=> x \in 1..total /\ lo < x /\ x <= hi
  BY <1>3
<1>8. \A x : (\E i \in DOMAIN rows : x = rows[i]) <=> x \in 1..total
  BY <1>4 DEF Subjects
<1>9. {rows[i] : i \in {j \in DOMAIN rows : ChunkOf(rows, chunks, j) = c}} = (lo + 1)..hi
  BY <1>6, <1>7, <1>8
<1> QED
  BY <1>1, <1>2, <1>5, <1>9

\* No subject is in two chunks, and no chunk has two subjects more than another:
\* "every row for a subject is looked up in the same chunk", in "even blocks".
THEOREM SplitKeepsSubjects ==
  ASSUME NEW rows \in Exposure, NEW chunks \in Nat \ {0},
         NEW c \in 1..chunks, NEW d \in 1..chunks, c # d
  PROVE  LET Of(b) == {rows[i] : i \in ToSet(subject_at_risk_chunk_rows(rows, chunks, b))} IN
         /\ Of(c) \cap Of(d) = {}
         /\ Cardinality(Of(c)) <= Cardinality(Of(d)) + 1
<1>1. PICK total \in Nat : total = Cardinality(Subjects(rows))
  BY SubjectsNumbered
<1> DEFINE lo(b) == BlockStart(total, chunks, b)
<1>2. {c, c + 1, d, d + 1} \subseteq 1..(chunks + 1)
  OBVIOUS
<1>3. lo(c) \in Nat /\ lo(c + 1) \in Nat /\ lo(d) \in Nat /\ lo(d + 1) \in Nat
  BY <1>2, BlockSizes
<1>4. PICK q \in Nat : /\ lo(c + 1) - lo(c) \in {q, q + 1}
                       /\ lo(d + 1) - lo(d) \in {q, q + 1}
  BY BlockSizes, Division
<1>5. lo(c + 1) <= lo(d) \/ lo(d + 1) <= lo(c)
  <2>1. CASE c < d
    BY <2>1, BlocksInOrder
  <2>2. CASE d < c
    BY <2>2, BlocksInOrder
  <2> QED
    BY <2>1, <2>2
<1>6. /\ {rows[i] : i \in ToSet(subject_at_risk_chunk_rows(rows, chunks, c))} = (lo(c) + 1)..lo(c + 1)
      /\ {rows[i] : i \in ToSet(subject_at_risk_chunk_rows(rows, chunks, d))} = (lo(d) + 1)..lo(d + 1)
  BY <1>1, ChunkSubjects
<1> HIDE DEF lo
<1>7. ((lo(c) + 1)..lo(c + 1)) \cap ((lo(d) + 1)..lo(d + 1)) = {}
  BY <1>3, <1>5
<1>8. /\ Cardinality((lo(c) + 1)..lo(c + 1)) = lo(c + 1) - lo(c)
      /\ Cardinality((lo(d) + 1)..lo(d + 1)) = lo(d + 1) - lo(d)
  <2>1. /\ Cardinality((lo(c) + 1)..lo(c + 1)) =
             IF lo(c) + 1 > lo(c + 1) THEN 0 ELSE lo(c + 1) - (lo(c) + 1) + 1
        /\ Cardinality((lo(d) + 1)..lo(d + 1)) =
             IF lo(d) + 1 > lo(d + 1) THEN 0 ELSE lo(d + 1) - (lo(d) + 1) + 1
    <3>1. lo(c) + 1 \in Int /\ lo(c + 1) \in Int /\ lo(d) + 1 \in Int /\ lo(d + 1) \in Int
      BY <1>3
    <3> QED
      BY <3>1, FS_Interval
  <2>2. lo(c) <= lo(c + 1) /\ lo(d) <= lo(d + 1)
    BY <1>3, <1>4
  <2>3. \A x, y \in Nat : x <= y => (IF x + 1 > y THEN 0 ELSE y - (x + 1) + 1) = y - x
    OBVIOUS
  <2> QED
    BY <1>3, <2>1, <2>2, <2>3
<1>9. Cardinality((lo(c) + 1)..lo(c + 1)) <= Cardinality((lo(d) + 1)..lo(d + 1)) + 1
  BY <1>3, <1>4, <1>8
<1> QED
  BY <1>6, <1>7, <1>9

-----------------------------------------------------------------------------
(* The numbers of chunks.                                                  *)

\* A stage has at least one chunk if there is work for it, and no chunk without.
LEMMA CeilBounds ==
  ASSUME NEW a \in Nat, NEW b \in Nat \ {0}
  PROVE  /\ Ceil(a, b) \in 0..a
         /\ a >= 1 => Ceil(a, b) >= 1
<1>1. a + b - 1 \in Nat
  OBVIOUS
<1>2. PICK q \in Nat, r \in 0..(b - 1) : q = Ceil(a, b) /\ a + b - 1 = b * q + r
  <2>1. PICK t \in Nat : t = a + b - 1
    BY <1>1
  <2>2. t \div b \in Nat /\ t % b \in 0..(b - 1) /\ t = b * (t \div b) + (t % b)
    BY Division
  <2>3. Ceil(a, b) = t \div b
    BY <2>1 DEF Ceil
  <2> QED
    BY <2>1, <2>2, <2>3
<1>3. q <= a
  <2>1. SUFFICES ASSUME q >= a + 1 PROVE FALSE
    BY <1>2
  <2>2. (a + 1) * b <= q * b
    BY <2>1, ProductMonotone
  <2>3. 1 * a <= b * a
    BY ProductMonotone
  <2>4. (a + 1) * b = b * a + b /\ q * b = b * q /\ b * a \in Nat /\ b * q \in Nat
    OBVIOUS
  <2> QED
    BY <1>2, <2>2, <2>3, <2>4
<1>4. ASSUME a >= 1, q = 0 PROVE FALSE
  BY <1>2, <1>4
<1> QED
  BY <1>2, <1>3, <1>4

\* What the serializer lets through.
LEMMA OptionTypes ==
  ASSUME NEW o \in SentOptions
  PROVE  /\ o.lookup_strategy \in {"FIXED_CHUNKS", "DYNAMIC_CHUNKS"}
         /\ o.loss_strategy \in {"FIXED_CHUNKS", "DYNAMIC_CHUNKS"}
         /\ o.dynamic_locations_per_lookup \in 1..MaxCount
         /\ o.dynamic_events_per_analysis \in 1..MaxCount
         /\ o.dynamic_chunks_max \in 1..MaxCount
         /\ o.fixed_lookup_chunks \in {Null} \cup 1..MaxCount
         /\ o.fixed_analysis_chunks \in {Null} \cup 1..MaxCount
OBVIOUS

\* The chunks of the lookup: at least one, no more than the rows of the location
\* file, and within the maximum if they are dynamic.
LEMMA LookupCount ==
  ASSUME NEW o \in SentOptions, NEW loc_lines \in {Null} \cup 1..MaxRows
  PROVE  LET n == get_inputs_generation_chunks(o, loc_lines) IN
         /\ n \in {Null} \cup 1..MaxCount
         /\ n # Null => /\ o.lookup_strategy = "DYNAMIC_CHUNKS" => n <= o.dynamic_chunks_max
                        /\ loc_lines # Null => n <= loc_lines
         /\ n = Null => \/ o.lookup_strategy = "FIXED_CHUNKS" /\ o.fixed_lookup_chunks = Null
                        \/ o.lookup_strategy = "DYNAMIC_CHUNKS" /\ loc_lines = Null
<1>1. PICK n : n = get_inputs_generation_chunks(o, loc_lines)
  OBVIOUS
<1>2. CASE o.lookup_strategy = "FIXED_CHUNKS"
  BY <1>1, <1>2, OptionTypes DEF get_inputs_generation_chunks, Least
<1>3. CASE o.lookup_strategy = "DYNAMIC_CHUNKS"
  <2>1. CASE loc_lines = Null
    BY <1>1, <1>3, <2>1 DEF get_inputs_generation_chunks
  <2>2. CASE loc_lines # Null
    <3>1. PICK k : k = Ceil(loc_lines, o.dynamic_locations_per_lookup)
      OBVIOUS
    <3>2. k \in 1..loc_lines
      <4>1. o.dynamic_locations_per_lookup \in Nat \ {0} /\ loc_lines \in Nat /\ loc_lines >= 1
        BY <2>2, OptionTypes
      <4> QED
        BY <3>1, <4>1, CeilBounds
    <3>3. n = Least(k, o.dynamic_chunks_max)
      BY <1>1, <1>3, <2>2, <3>1 DEF get_inputs_generation_chunks
    <3> QED
      BY <1>1, <1>3, <2>2, <3>2, <3>3, OptionTypes DEF Least
  <2> QED
    BY <2>1, <2>2
<1> QED
  BY <1>2, <1>3, OptionTypes

\* The chunks of the losses: none only if there are no events.
LEMMA LossCount ==
  ASSUME NEW o \in SentOptions, NEW events_total \in {Null} \cup 0..MaxCount
  PROVE  LET n == get_loss_generation_chunks(o, events_total) IN
         /\ n \in {Null} \cup 0..MaxCount
         /\ n # Null /\ o.loss_strategy = "DYNAMIC_CHUNKS" => n <= o.dynamic_chunks_max
         /\ n \in {Null, 0} =>
              \/ o.loss_strategy = "FIXED_CHUNKS" /\ o.fixed_analysis_chunks = Null
              \/ o.loss_strategy = "DYNAMIC_CHUNKS" /\ events_total \in {Null, 0}
<1>1. PICK n : n = get_loss_generation_chunks(o, events_total)
  OBVIOUS
<1>2. CASE o.loss_strategy = "FIXED_CHUNKS"
  BY <1>1, <1>2, OptionTypes DEF get_loss_generation_chunks
<1>3. CASE o.loss_strategy = "DYNAMIC_CHUNKS"
  <2>1. CASE events_total = Null
    BY <1>1, <1>3, <2>1 DEF get_loss_generation_chunks
  <2>2. CASE events_total # Null
    <3>1. PICK k : k = Ceil(events_total, o.dynamic_events_per_analysis)
      OBVIOUS
    <3>2. k \in 0..events_total /\ (events_total >= 1 => k >= 1)
      <4>1. o.dynamic_events_per_analysis \in Nat \ {0} /\ events_total \in Nat
        BY <2>2, OptionTypes
      <4> QED
        BY <3>1, <4>1, CeilBounds
    <3>3. n = Least(k, o.dynamic_chunks_max)
      BY <1>1, <1>3, <2>2, <3>1 DEF get_loss_generation_chunks
    <3> QED
      BY <1>1, <1>3, <2>2, <3>2, <3>3, OptionTypes DEF Least
  <2> QED
    BY <2>1, <2>2
<1> QED
  BY <1>2, <1>3, OptionTypes

-----------------------------------------------------------------------------
(* The inductive invariant.                                                *)

\* The fields of a request.
RunShape ==
  run = [pc |-> run.pc, loc_lines |-> run.loc_lines, events_total |-> run.events_total,
         accepted |-> run.accepted, selection |-> run.selection, lookups |-> run.lookups,
         losses |-> run.losses, version |-> run.version, rows |-> run.rows,
         sar_chunks |-> run.sar_chunks, keys_data |-> run.keys_data]

\* What the validation of the request established, of the options it was given.
Validated ==
  LET o == run.accepted
      s == run.selection IN
  /\ run.pc = "idle" => o = options
  /\ run.pc = "queued" =>
       /\ s \in Selection
       /\ run.loc_lines = Null => o.lookup_strategy # "DYNAMIC_CHUNKS"
       /\ o.loss_strategy = "DYNAMIC_CHUNKS" =>
            /\ s.ids = 0 => s.set \notin {Null, 0}
            /\ s.ids = 1 => s.set # Null
            /\ run.events_total = IF s.ids > 1 THEN s.ids ELSE s.set

\* What the chunks have stored, and what the hook stored for them.
Looked ==
  LET Mine(c) == Chunk(run.version, run.rows, run.lookups, c) IN
  /\ keys = [c \in 1..run.lookups |-> keys[c]]
  /\ run.pc \in {"hook", "lookup", "collected"} => run.lookups >= 1
  /\ run.pc = "hook" => \A c \in 1..run.lookups : keys[c] = Null
  /\ run.pc = "lookup" =>
       /\ run.sar_chunks = <<>> \/ run.sar_chunks = [c \in 1..run.lookups |-> Mine(c)]
       /\ \A c \in 1..run.lookups : keys[c] = Null \/ keys[c] = Mine(c)
  /\ run.pc = "collected" =>
       /\ \A c \in 1..run.lookups : keys[c] = Mine(c)
       /\ run.keys_data = FlattenSeq([c \in 1..run.lookups |-> keys[c].rows])

CInv ==
  /\ TypeOK
  /\ RunShape
  /\ Validated
  /\ ChunksBounded
  /\ AcceptedStarts
  /\ Looked

\* The invariant holds before the request.
LEMMA CInit == Init => CInv
<1> SUFFICES ASSUME Init PROVE CInv
  OBVIOUS
<1>1. /\ options \in SentOptions
      /\ portfolio \in [location_file : BOOLEAN, rows : Exposure]
      /\ edits = 0 /\ keys = <<>>
      /\ run = NoRun(options)
  BY DEF Init
<1>2. TypeOK
  BY <1>1, EmptyExposure DEF TypeOK, NoRun
<1>3. RunShape /\ Validated /\ ChunksBounded /\ AcceptedStarts
  BY <1>1 DEF RunShape, Validated, ChunksBounded, AcceptedStarts, NoRun
<1>4. Looked
  BY <1>1 DEF Looked, NoRun
<1> QED
  BY <1>2, <1>3, <1>4 DEF CInv

\* The request: validation and counting.
LEMMA CRequest ==
  ASSUME CInv, NEW sel \in Selection, generate_and_run(sel)
  PROVE  CInv'
<1>1. /\ run.pc = "idle"
      /\ options' = options /\ portfolio' = portfolio /\ edits' = edits /\ keys' = keys
  BY DEF generate_and_run
<1>2. run.accepted = options /\ options \in SentOptions
  BY <1>1 DEF CInv, Validated, TypeOK
<1>3. portfolio.rows \in Exposure /\ portfolio.location_file \in BOOLEAN
  BY DEF CInv, TypeOK
<1>4. sel.ids \in 0..MaxCount /\ sel.set \in {Null} \cup 0..MaxCount
  BY DEF Selection
<1>5. CASE LocationsValid /\ EventsValid(sel)
  <2>1. run' = [run EXCEPT !.pc = "queued", !.loc_lines = LocLines, !.selection = sel,
                           !.events_total = get_num_events(sel)]
    BY <1>5 DEF generate_and_run
  <2>2. /\ run'.pc = "queued" /\ run'.loc_lines = LocLines /\ run'.selection = sel
        /\ run'.events_total = get_num_events(sel) /\ run'.accepted = run.accepted
        /\ run'.lookups = run.lookups /\ run'.losses = run.losses /\ run'.rows = run.rows
        /\ RunShape'
    BY <2>1 DEF CInv, RunShape
  <2>3. LocLines \in {Null} \cup 1..MaxRows
    <3>1. Len(portfolio.rows) \in 0..MaxRows
      BY <1>3, LenExposure
    <3> QED
      BY <1>5, <3>1 DEF LocLines, LocationsValid
  <2>4. get_num_events(sel) \in {Null} \cup 0..MaxCount
    BY <1>4 DEF get_num_events
  <2>5. TypeOK'
    BY <1>1, <2>2, <2>3, <2>4 DEF CInv, TypeOK
  <2>6. LocLines = Null => options.lookup_strategy # "DYNAMIC_CHUNKS"
    <3>1. Len(portfolio.rows) # Null
      BY <1>3, LenExposure
    <3> QED
      BY <1>5, <3>1 DEF LocLines, LocationsValid
  <2>7. options.loss_strategy = "DYNAMIC_CHUNKS" =>
          /\ sel.ids = 0 => sel.set \notin {Null, 0}
          /\ sel.ids = 1 => sel.set # Null
          /\ get_num_events(sel) = IF sel.ids > 1 THEN sel.ids ELSE sel.set
    BY <1>4, <1>5 DEF EventsValid, get_num_events
  <2>8. Validated'
    BY <1>1, <1>2, <2>2, <2>6, <2>7 DEF Validated
  <2>9. ChunksBounded' /\ AcceptedStarts'
    BY <2>2 DEF ChunksBounded, AcceptedStarts
  <2>10. Looked'
    BY <1>1, <2>2 DEF CInv, Looked
  <2> QED
    BY <2>2, <2>5, <2>8, <2>9, <2>10 DEF CInv
<1>6. CASE ~ (LocationsValid /\ EventsValid(sel))
  <2>1. run' = [run EXCEPT !.pc = "rejected"]
    BY <1>6 DEF generate_and_run
  <2>2. /\ run'.pc = "rejected" /\ run'.loc_lines = run.loc_lines
        /\ run'.events_total = run.events_total
        /\ run'.lookups = run.lookups /\ run'.losses = run.losses /\ run'.rows = run.rows
        /\ RunShape'
    BY <2>1 DEF CInv, RunShape
  <2>3. TypeOK'
    BY <1>1, <2>2 DEF CInv, TypeOK
  <2>4. Validated' /\ ChunksBounded' /\ AcceptedStarts'
    BY <2>2 DEF Validated, ChunksBounded, AcceptedStarts
  <2>5. Looked'
    BY <1>1, <2>2 DEF CInv, Looked
  <2> QED
    BY <2>2, <2>3, <2>4, <2>5 DEF CInv
<1> QED
  BY <1>5, <1>6

\* Edits, while the request is queued, of the options or of the exposure.
LEMMA CEdits ==
  ASSUME CInv,
         \/ \E o \in SentOptions : EditOptions(o)
         \/ \E p \in [location_file : BOOLEAN, rows : Exposure] : ReplaceExposure(p)
  PROVE  CInv'
<1>1. /\ run.pc = "queued" /\ run' = run /\ keys' = keys
      /\ edits' = edits + 1 /\ edits < MaxEdits
      /\ options' \in SentOptions
      /\ portfolio' \in [location_file : BOOLEAN, rows : Exposure]
  BY DEF CInv, TypeOK, EditOptions, ReplaceExposure
<1>2. TypeOK'
  BY <1>1 DEF CInv, TypeOK
<1>3. RunShape' /\ Validated' /\ ChunksBounded' /\ AcceptedStarts'
  BY <1>1 DEF CInv, RunShape, Validated, ChunksBounded, AcceptedStarts
<1>4. Looked'
  BY <1>1 DEF CInv, Looked
<1> QED
  BY <1>2, <1>3, <1>4 DEF CInv

\* The start task: the counts, or its failure.
LEMMA CStart ==
  ASSUME CInv, StartChain
  PROVE  CInv'
<1>1. /\ run.pc = "queued"
      /\ options' = options /\ portfolio' = portfolio /\ edits' = edits
  BY DEF StartChain
<1>2. PICK lookups : lookups = get_inputs_generation_chunks(options, run.loc_lines)
  OBVIOUS
<1>3. PICK losses : losses = get_loss_generation_chunks(options, run.events_total)
  OBVIOUS
<1>4. /\ options \in SentOptions
      /\ run.loc_lines \in {Null} \cup 1..MaxRows
      /\ run.events_total \in {Null} \cup 0..MaxCount
      /\ portfolio.rows \in Exposure
  BY DEF CInv, TypeOK
<1>5. /\ lookups \in {Null} \cup 1..MaxCount
      /\ lookups # Null =>
           /\ options.lookup_strategy = "DYNAMIC_CHUNKS" => lookups <= options.dynamic_chunks_max
           /\ run.loc_lines # Null => lookups <= run.loc_lines
      /\ lookups = Null =>
           \/ options.lookup_strategy = "FIXED_CHUNKS" /\ options.fixed_lookup_chunks = Null
           \/ options.lookup_strategy = "DYNAMIC_CHUNKS" /\ run.loc_lines = Null
  BY <1>2, <1>4, LookupCount
<1>6. /\ losses \in {Null} \cup 0..MaxCount
      /\ losses # Null /\ options.loss_strategy = "DYNAMIC_CHUNKS" =>
           losses <= options.dynamic_chunks_max
      /\ losses \in {Null, 0} =>
           \/ options.loss_strategy = "FIXED_CHUNKS" /\ options.fixed_analysis_chunks = Null
           \/ options.loss_strategy = "DYNAMIC_CHUNKS" /\ run.events_total \in {Null, 0}
  BY <1>3, <1>4, LossCount
<1>7. CASE Dispatchable(lookups) /\ Dispatchable(losses)
  <2>1. /\ run' = [run EXCEPT !.pc = "hook", !.lookups = lookups, !.losses = losses,
                              !.rows = portfolio.rows]
        /\ keys' = [c \in 1..lookups |-> Null]
    BY <1>2, <1>3, <1>7 DEF StartChain
  <2>2. /\ run'.pc = "hook" /\ run'.loc_lines = run.loc_lines
        /\ run'.events_total = run.events_total
        /\ run'.lookups = lookups /\ run'.losses = losses /\ run'.rows = portfolio.rows
        /\ RunShape'
    BY <2>1 DEF CInv, RunShape
  <2>3. lookups \in 1..MaxCount /\ losses \in 1..MaxCount
    BY <1>5, <1>6, <1>7 DEF Dispatchable
  <2>4. TypeOK'
    BY <1>1, <1>4, <2>1, <2>2, <2>3 DEF CInv, TypeOK
  <2>5. ChunksBounded'
    BY <1>1, <1>5, <1>6, <2>2, <2>3 DEF ChunksBounded
  <2>6. Validated' /\ AcceptedStarts'
    BY <2>2 DEF Validated, AcceptedStarts
  <2>7. Looked'
    BY <2>1, <2>2, <2>3 DEF Looked
  <2> QED
    BY <2>2, <2>4, <2>5, <2>6, <2>7 DEF CInv
<1>8. CASE ~ (Dispatchable(lookups) /\ Dispatchable(losses))
  <2>1. run' = [run EXCEPT !.pc = "start_failed"] /\ keys' = keys
    BY <1>2, <1>3, <1>8 DEF StartChain
  <2>2. /\ run'.pc = "start_failed" /\ run'.loc_lines = run.loc_lines
        /\ run'.events_total = run.events_total /\ run'.accepted = run.accepted
        /\ run'.selection = run.selection
        /\ run'.lookups = run.lookups /\ run'.losses = run.losses /\ run'.rows = run.rows
        /\ RunShape'
    BY <2>1 DEF CInv, RunShape
  <2>3. TypeOK'
    BY <1>1, <2>1, <2>2 DEF CInv, TypeOK
  <2>4. Validated' /\ ChunksBounded'
    BY <2>2 DEF Validated, ChunksBounded
  <2>5. ASSUME options = run.accepted,
               ~ (options.lookup_strategy = "FIXED_CHUNKS" /\ options.fixed_lookup_chunks = Null),
               ~ (options.loss_strategy = "FIXED_CHUNKS" /\ options.fixed_analysis_chunks = Null)
        PROVE  run.selection.ids = 1 /\ run.selection.set = 0
    <3>1. lookups # Null
      BY <1>1, <1>5, <2>5 DEF CInv, Validated
    <3>2. losses \in {Null, 0}
      BY <1>5, <1>6, <1>8, <3>1 DEF Dispatchable
    <3>3. options.loss_strategy = "DYNAMIC_CHUNKS" /\ run.events_total \in {Null, 0}
      BY <1>6, <2>5, <3>2
    <3>4. PICK s \in Selection :
            /\ s = run.selection
            /\ s.ids = 0 => s.set \notin {Null, 0}
            /\ s.ids = 1 => s.set # Null
            /\ run.events_total = IF s.ids > 1 THEN s.ids ELSE s.set
      BY <1>1, <2>5, <3>3 DEF CInv, Validated
    <3>5. s.ids \in 0..MaxCount /\ s.set \in {Null} \cup 0..MaxCount
      BY DEF Selection
    <3> QED
      BY <3>3, <3>4, <3>5
  <2>6. AcceptedStarts'
    BY <1>1, <2>2, <2>5 DEF AcceptedStarts
  <2>7. Looked'
    BY <2>1, <2>2 DEF CInv, Looked
  <2> QED
    BY <2>2, <2>3, <2>4, <2>6, <2>7 DEF CInv
<1> QED
  BY <1>7, <1>8

\* The hook, which splits the exposure it leaves behind, if it was told to.
LEMMA CHook ==
  ASSUME CInv, NEW version \in {"portfolio", "hook"}, NEW rows \in Exposure,
         NEW told \in BOOLEAN, pre_analysis_hook(version, rows, told)
  PROVE  CInv'
<1>1. /\ run.pc = "hook"
      /\ options' = options /\ portfolio' = portfolio /\ edits' = edits /\ keys' = keys
      /\ run' = [NoRun(options) EXCEPT !.pc = "lookup", !.lookups = run.lookups,
                                       !.version = version, !.rows = rows,
                                       !.sar_chunks = Stored(version, rows, told)]
  BY DEF pre_analysis_hook
<1>2. /\ run'.pc = "lookup" /\ run'.lookups = run.lookups /\ run'.version = version
      /\ run'.rows = rows /\ run'.sar_chunks = Stored(version, rows, told)
      /\ run'.loc_lines = Null /\ run'.events_total = Null /\ run'.losses = 0
      /\ RunShape'
  BY <1>1 DEF NoRun, RunShape
<1>3. TypeOK'
  BY <1>1, <1>2 DEF CInv, TypeOK
<1>4. Validated' /\ ChunksBounded' /\ AcceptedStarts'
  BY <1>2 DEF Validated, ChunksBounded, AcceptedStarts
<1>5. Looked'
  <2>1. \/ Stored(version, rows, told) = <<>>
        \/ Stored(version, rows, told)
             = [c \in 1..run.lookups |-> Chunk(version, rows, run.lookups, c)]
    BY DEF Stored
  <2>2. \/ run'.sar_chunks = <<>>
        \/ run'.sar_chunks
             = [c \in 1..run'.lookups |-> Chunk(run'.version, run'.rows, run'.lookups, c)]
    BY <1>2, <2>1
  <2>3. keys = [c \in 1..run.lookups |-> keys[c]] /\ run.lookups >= 1
    BY <1>1 DEF CInv, Looked
  <2>4. \A c \in 1..run.lookups : keys[c] = Null
    BY <1>1 DEF CInv, Looked
  <2>5. keys' = [c \in 1..run'.lookups |-> keys'[c]] /\ run'.lookups >= 1
    BY <1>1, <1>2, <2>3
  <2>6. \A c \in 1..run'.lookups : keys'[c] = Null
    BY <1>1, <1>2, <2>4
  <2>7. run'.pc # "collected" /\ run'.pc # "hook"
    BY <1>2
  <2> QED
    BY <2>2, <2>5, <2>6, <2>7, Zenon DEF Looked
<1> QED
  BY <1>2, <1>3, <1>4, <1>5 DEF CInv

\* A lookup chunk, from what the hook stored or from the full exposure: the same.
LEMMA CChunk ==
  ASSUME CInv, NEW c \in 1..MaxCount, prepare_keys_file_chunk(c)
  PROVE  CInv'
<1>1. /\ run.pc = "lookup" /\ c \in DOMAIN keys
      /\ options' = options /\ portfolio' = portfolio /\ edits' = edits /\ run' = run
      /\ keys' = [keys EXCEPT ![c] = LoadChunk(c)]
  BY DEF prepare_keys_file_chunk
<1>2. c \in 1..run.lookups /\ run.lookups \in Nat /\ run.lookups >= 1
  BY <1>1 DEF CInv, TypeOK, Looked
<1>3. LoadChunk(c) = Chunk(run.version, run.rows, run.lookups, c)
  <2>1. CASE run.sar_chunks = <<>>
    BY <1>2, <2>1 DEF LoadChunk
  <2>2. CASE run.sar_chunks = [d \in 1..run.lookups |-> Chunk(run.version, run.rows, run.lookups, d)]
    BY <1>2, <2>2 DEF LoadChunk
  <2> QED
    BY <1>1, <2>1, <2>2 DEF CInv, Looked
<1>4. /\ keys = [d \in 1..run.lookups |-> keys[d]]
      /\ \A d \in 1..run.lookups : keys[d] = Null \/ keys[d] = Chunk(run.version, run.rows, run.lookups, d)
      /\ \/ run.sar_chunks = <<>>
         \/ run.sar_chunks = [d \in 1..run.lookups |-> Chunk(run.version, run.rows, run.lookups, d)]
  BY <1>1 DEF CInv, Looked
<1>5. /\ keys' = [d \in 1..run.lookups |-> keys'[d]]
      /\ \A d \in 1..run.lookups : keys'[d] = Null \/ keys'[d] = Chunk(run.version, run.rows, run.lookups, d)
  <2>1. keys' = [d \in 1..run.lookups |-> IF d = c THEN LoadChunk(c) ELSE keys[d]]
    BY <1>1, <1>4
  <2> QED
    BY <1>3, <1>4, <2>1
<1>6. Looked'
  BY <1>1, <1>2, <1>4, <1>5 DEF Looked
<1>7. TypeOK'
  BY <1>1, <1>5 DEF CInv, TypeOK
<1>8. RunShape' /\ Validated' /\ ChunksBounded' /\ AcceptedStarts'
  BY <1>1 DEF CInv, RunShape, Validated, ChunksBounded, AcceptedStarts
<1> QED
  BY <1>6, <1>7, <1>8 DEF CInv

\* The merge.
LEMMA CCollect ==
  ASSUME CInv, collect_keys
  PROVE  CInv'
<1>1. /\ run.pc = "lookup" /\ (\A c \in DOMAIN keys : keys[c] # Null)
      /\ options' = options /\ portfolio' = portfolio /\ edits' = edits /\ keys' = keys
      /\ run' = [run EXCEPT !.pc = "collected",
                            !.keys_data = FlattenSeq([c \in DOMAIN keys |-> keys[c].rows])]
  BY DEF collect_keys
<1>2. /\ run'.pc = "collected" /\ run'.loc_lines = run.loc_lines
      /\ run'.events_total = run.events_total
      /\ run'.lookups = run.lookups /\ run'.losses = run.losses
      /\ run'.version = run.version /\ run'.rows = run.rows
      /\ run'.keys_data = FlattenSeq([c \in DOMAIN keys |-> keys[c].rows])
      /\ RunShape'
  BY <1>1 DEF CInv, RunShape
<1>3. TypeOK'
  BY <1>1, <1>2 DEF CInv, TypeOK
<1>4. Validated' /\ ChunksBounded' /\ AcceptedStarts'
  BY <1>2 DEF Validated, ChunksBounded, AcceptedStarts
<1>5. Looked'
  <2>1. DOMAIN keys = 1..run.lookups
    BY DEF CInv, TypeOK
  <2>2. \A c \in 1..run.lookups : keys[c] = Chunk(run.version, run.rows, run.lookups, c)
    BY <1>1, <2>1 DEF CInv, Looked
  <2>3. run'.keys_data = FlattenSeq([c \in 1..run.lookups |-> keys[c].rows])
    BY <1>2, <2>1
  <2>4. keys = [c \in 1..run.lookups |-> keys[c]] /\ run.lookups >= 1
    BY <1>1 DEF CInv, Looked
  <2>5. run'.keys_data = FlattenSeq([c \in 1..run'.lookups |-> keys'[c].rows])
    <3>1. [c \in 1..run'.lookups |-> keys'[c].rows] = [c \in 1..run.lookups |-> keys[c].rows]
      BY <1>1, <1>2
    <3> QED
      BY <2>3, <3>1
  <2>6. \A c \in 1..run'.lookups : keys'[c] = Chunk(run'.version, run'.rows, run'.lookups, c)
    BY <1>1, <1>2, <2>2
  <2>7. keys' = [c \in 1..run'.lookups |-> keys'[c]] /\ run'.lookups >= 1
    BY <1>1, <1>2, <2>4
  <2> QED
    BY <1>2, <2>5, <2>6, <2>7, Zenon DEF Looked
<1> QED
  BY <1>2, <1>3, <1>4, <1>5 DEF CInv

\* The invariant holds of every request.
THEOREM CInvariant == Spec => []CInv
<1>1. CInv /\ [Next]_vars => CInv'
  <2> SUFFICES ASSUME CInv, [Next]_vars PROVE CInv'
    OBVIOUS
  <2>1. CASE UNCHANGED vars
    <3>1. /\ options' = options /\ portfolio' = portfolio /\ edits' = edits
          /\ run' = run /\ keys' = keys
      BY <2>1 DEF vars
    <3>2. TypeOK' /\ RunShape' /\ Validated' /\ ChunksBounded' /\ AcceptedStarts'
      BY <3>1 DEF CInv, TypeOK, RunShape, Validated, ChunksBounded, AcceptedStarts
    <3>3. Looked'
      BY <3>1 DEF CInv, Looked
    <3> QED
      BY <3>2, <3>3 DEF CInv
  <2>2. CASE Next
    BY <2>2, CRequest, CEdits, CStart, CHook, CChunk, CCollect DEF Next
  <2> QED
    BY <2>1, <2>2
<1> QED
  BY <1>1, CInit, PTL DEF Spec

-----------------------------------------------------------------------------
(* The properties of the specification.                                    *)

\* Type correctness.
THEOREM TypeCorrect == Spec => []TypeOK
<1>1. CInv => TypeOK
  BY DEF CInv
<1> QED
  BY <1>1, CInvariant, PTL

\* The numbers of chunks stay within the maximum and within the rows of the file.
THEOREM ChunksAreBounded == Spec => []ChunksBounded
<1>1. CInv => ChunksBounded
  BY DEF CInv
<1> QED
  BY <1>1, CInvariant, PTL

\* The start of an accepted request fails only for one of the four listed reasons.
THEOREM AcceptedRequestsStart == Spec => []AcceptedStarts
<1>1. CInv => AcceptedStarts
  BY DEF CInv
<1> QED
  BY <1>1, CInvariant, PTL

\* The fields of a chunk.
LEMMA ChunkFields ==
  ASSUME NEW version, NEW rows, NEW chunks, NEW c
  PROVE  /\ Chunk(version, rows, chunks, c).version = version
         /\ Chunk(version, rows, chunks, c).rows = subject_at_risk_chunk_rows(rows, chunks, c)
<1>1. PICK s : s = subject_at_risk_chunk_rows(rows, chunks, c)
  OBVIOUS
<1> QED
  BY <1>1 DEF Chunk

\* The merged keys stand for every row of the exposure in use, once.
THEOREM RowsAreLookedUpOnce == Spec => []EveryRowOnce
<1>1. CInv => EveryRowOnce
  <2> SUFFICES ASSUME CInv, run.pc = "collected" PROVE EveryRowOnce
    BY DEF EveryRowOnce
  <2>1. PICK n \in Nat \ {0} : n = run.lookups /\ DOMAIN keys = 1..n
    BY DEF CInv, TypeOK, Looked
  <2>2. \A c \in 1..n : keys[c] = Chunk(run.version, run.rows, n, c)
    BY <2>1 DEF CInv, Looked
  <2>3. \A c \in 1..n : /\ keys[c].version = run.version
                        /\ keys[c].rows = subject_at_risk_chunk_rows(run.rows, n, c)
    BY <2>2, ChunkFields
  <2>4. run.keys_data = FlattenSeq([c \in 1..n |-> keys[c].rows])
    BY <2>1 DEF CInv, Looked
  <2>5. [c \in 1..n |-> keys[c].rows] = [c \in 1..n |-> subject_at_risk_chunk_rows(run.rows, n, c)]
    BY <2>3
  <2>6. run.rows \in Exposure
    BY DEF CInv, TypeOK
  <2>7. Len(run.keys_data) = Len(run.rows) /\ ToSet(run.keys_data) = DOMAIN run.rows
    BY <2>4, <2>5, <2>6, SplitCoversRows
  <2> QED
    BY <2>1, <2>3, <2>7 DEF EveryRowOnce
<1> QED
  BY <1>1, CInvariant, PTL

\* The rows of a subject are looked up in one chunk, and the chunks are even.
THEOREM SubjectsStayTogether == Spec => []SubjectsTogether
<1>1. CInv => SubjectsTogether
  <2> SUFFICES ASSUME CInv, run.pc = "collected" PROVE SubjectsTogether
    BY DEF SubjectsTogether
  <2>1. PICK n \in Nat \ {0} : n = run.lookups /\ DOMAIN keys = 1..n
    BY DEF CInv, TypeOK, Looked
  <2>2. \A c \in 1..n : keys[c] = Chunk(run.version, run.rows, n, c)
    BY <2>1 DEF CInv, Looked
  <2>3. \A c \in 1..n : keys[c].rows = subject_at_risk_chunk_rows(run.rows, n, c)
    BY <2>2, ChunkFields
  <2>4. run.rows \in Exposure
    BY DEF CInv, TypeOK
  <2> DEFINE Of(c) == {run.rows[i] : i \in ToSet(keys[c].rows)}
  <2>5. ASSUME NEW c \in 1..n, NEW d \in 1..n, c # d
        PROVE  Of(c) \cap Of(d) = {} /\ Cardinality(Of(c)) <= Cardinality(Of(d)) + 1
    <3>1. /\ keys[c].rows = subject_at_risk_chunk_rows(run.rows, n, c)
          /\ keys[d].rows = subject_at_risk_chunk_rows(run.rows, n, d)
      BY <2>3
    <3> QED
      BY <2>4, <2>5, <3>1, SplitKeepsSubjects
  <2> HIDE DEF Of
  <2>6. \A c, d \in DOMAIN keys : c # d => 
          Of(c) \cap Of(d) = {} /\ Cardinality(Of(c)) <= Cardinality(Of(d)) + 1
    BY <2>1, <2>5
  <2> USE DEF Of
  <2> QED
    BY <2>6, Zenon DEF SubjectsTogether
<1> QED
  BY <1>1, CInvariant, PTL
=============================================================================
