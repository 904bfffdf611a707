----------------------------- MODULE MCSubTasks -----------------------------
(* Instances of SubTasks for TLC. *)
EXTENDS SubTasks

\* A task, a chord of two chunks and the chord's body.
ChordLevel  == <<1, 2, 2, 3>>
ChordHeader == {2, 3}
\* The same with the two tasks of a second half behind it.
HalvesLevel == <<1, 2, 2, 3, 4, 5>>
\* A chord of one chunk and its body.
ShortLevel  == <<1, 2>>
ShortHeader == {1}
=============================================================================
