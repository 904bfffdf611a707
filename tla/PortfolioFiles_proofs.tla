----------------------- MODULE PortfolioFiles_proofs -----------------------
(***************************************************************************)
(* The safety properties of PortfolioFiles and FileConversion, for any     *)
(* number of files, requests, conversions and retries.                     *)
(*                                                                         *)
(* PInv holds whatever overlaps: keys are handed out once, and the table   *)
(* has room for what the requests create.  AInv adds what needs Atomic:    *)
(* the state of a file keeps a second conversion away, what a conversion   *)
(* has written stays until its outcome is saved, the object a handler or   *)
(* recorder holds differs from the row in the column it cleared at most,   *)
(* and a stored file that a task needs is deleted by a rival or not at     *)
(* all.                                                                    *)
(***************************************************************************)
EXTENDS PortfolioFiles, TLAPS

USE FilesAssumption, PortfolioAssumption

-----------------------------------------------------------------------------
(* The invariant.                                                          *)

\* A key that was handed out, live or deleted since.
Used(f) == files[f].at # "unused"

ColumnsUsed(obj) == \A f \in FileColumns(obj) : Used(f)

\* Nothing points at a row that was never there, and what a conversion or a recorder
\* saves back was live when it was read.
ReqKeys ==
  \A r \in Request :
    /\ ColumnsUsed(req[r].obj)
    /\ req[r].new # NoKey => Used(req[r].new)
    /\ req[r].src # NoKey => Used(req[r].src)
    /\ req[r].pc = "rec_file" => req[r].file.at = "live"
ConvKeys ==
  \A c \in Conv :
    /\ conv[c].pc \in {"begun", "queued", "read", "converting", "written"} =>
         conv[c].file # NoKey /\ Used(conv[c].file)
    /\ conv[c].pc \in {"begun", "read", "converting", "written"} => conv[c].obj.at = "live"
TakenKeys == \A f \in File : takenBy[f] # 0 => Used(f)
KeysUsed == ColumnsUsed(row) /\ ReqKeys /\ ConvKeys /\ TakenKeys

\* How many files a request may still create.
Allowance(pc) ==
  IF pc \in {"idle", "begun"} THEN 2
  ELSE IF pc \in {"transform", "transformed", "rec_transform", "rec_cleared", "rec_removed",
                  "exposure", "exposed", "rec_exposure"} THEN 1
  ELSE 0
Rest(r) == Allowance(req[r].pc)

\* The allowances of requests 1, 2, ..., summed up: that of r is S[r] - S[r - 1].
Mark   == 0..MaxRequests
Ledger == [Mark -> Nat]

\* The n files of the table, and the files to come, have room in it.
Fits(n, S) ==
  /\ \A f \in File : Used(f) <=> f <= n
  /\ \A k, l \in Mark : k <= l => S[k] <= S[l]
  /\ \A r \in Request : S[r - 1] + Rest(r) <= S[r]
  /\ n + S[MaxRequests] <= MaxFiles

Room == \E n \in Nat, S \in Ledger : Fits(n, S)

PInv == TypeOK /\ KeysUsed /\ Room

-----------------------------------------------------------------------------
\* What Atomic says, as a state: one thing at a time reads and saves.
Alone ==
  /\ \A r, q \in Request : req[r].pc \in Mid /\ req[q].pc \in Mid => r = q
  /\ \A c, d \in Conv : conv[c].pc \in {"begun", "read"} /\ conv[d].pc \in {"begun", "read"} => c = d
  /\ \A r \in Request, c \in Conv : ~(req[r].pc \in Mid /\ conv[c].pc \in {"begun", "read"})

\* c has seen that it may go on to convert its file.
Cleared(c) == \/ conv[c].pc = "begun" /\ conv[c].obj.state \in Ready
              \/ conv[c].pc = "read" /\ MayConvert(conv[c].obj.state)

\* The state of a file keeps others away while it is converted.
Guarded ==
  \A d \in Conv : conv[d].pc \in Working =>
    /\ files[conv[d].file].at = "live" => files[conv[d].file].state = "IN_PROGRESS"
    /\ \A c \in Conv : Cleared(c) => conv[c].file # conv[d].file

\* What a task has written is still there when it saves its outcome.
Written ==
  \A c \in Conv : conv[c].pc = "written" /\ takenBy[conv[c].file] = 0
                    => output[conv[c].file] = conv[c].obj.mapping

\* A row that is not there has no conversion state.
Blank == \A f \in File : files[f].at # "live" => files[f].state = "NONE"

Apart(obj) ==
  /\ obj.location_file # NoKey =>
       obj.location_file # obj.transform_file /\ obj.location_file # obj.exposure_run_file
  /\ obj.transform_file # NoKey => obj.transform_file # obj.exposure_run_file

Stored(f) == files[f].at = "live" /\ takenBy[f] = 0

RowOK ==
  /\ exists
  /\ \A f \in FileColumns(row) : Stored(f)
  /\ Apart(row)
  /\ row.exposure = "RUN_COMPLETED" => row.exposure_run_file # NoKey

\* A handler's or recorder's object differs from the row in the column it has
\* cleared at most; k is a request.
CopyOK(k) ==
  /\ k.pc \in {"begun", "rec_transform", "rec_removed", "rec_validate", "rec_file", "rec_marked",
               "rec_exposure"} => k.obj = row
  /\ k.pc = "cleared" =>
       /\ row = [k.obj EXCEPT !.location_file = NoKey]
       /\ Apart(k.obj)
       /\ k.op = "location_file" => k.new # k.obj.location_file
  /\ k.pc = "removed" \/ (k.pc = "cleared" /\ k.op = "location_file") =>
       k.new # NoKey /\ Stored(k.new) /\ k.new \notin FileColumns(row)
  /\ k.pc = "rec_cleared" =>
       row = [k.obj EXCEPT !.transform_file = NoKey] /\ Apart(k.obj)
  /\ k.pc = "rec_file" => k.obj.location_file # NoKey /\ k.file = files[k.obj.location_file]

\* Requests that are under way together know of each other.
RivalsKnown ==
  \A r, q \in Request : r # q /\ UnderWay(r) /\ UnderWay(q) => q \in req[r].rivals

\* The stored files a request needs were deleted by a rival, if at all; it does not
\* delete them itself.
SourceKept(k) ==
  k.pc \notin {"idle"} \cup Over =>
    /\ k.pc \notin InHandler /\ k.src # NoKey =>
         /\ takenBy[k.src] \in {0} \cup k.rivals
         /\ k.src # row.transform_file
         /\ k.pc = "rec_cleared" => k.src # k.obj.transform_file
    /\ k.pc = "transform" => k.new # NoKey /\ takenBy[k.new] \in {0} \cup k.rivals

AInv ==
  /\ PInv /\ Alone /\ Guarded /\ Written /\ Blank /\ RowOK /\ RivalsKnown
  /\ OneConversion /\ ConversionAttended /\ MappingIsUsed
  /\ \A r \in Request : CopyOK(req[r]) /\ SourceKept(req[r])

-----------------------------------------------------------------------------
(* Types.                                                                  *)

ConvPc  == {"idle", "begun", "unsent", "queued", "read", "converting", "written", "stuck", "done"}
ConvRec == [pc : ConvPc, file : 0..MaxFiles, retries : 0..MaxRetries, obj : FileRow]
ReqPc   == {"idle"} \cup Mid \cup AtWorker \cup ToRecord \cup Over

\* Rows of the file table as they are created and deleted.
LEMMA FreshType ==
  /\ Unused \in FileRow /\ Fresh \in FileRow /\ [Unused EXCEPT !.at = "deleted"] \in FileRow
  /\ Unused.at = "unused" /\ Fresh.at = "live" /\ Fresh.state = "NONE"
  /\ [Unused EXCEPT !.at = "deleted"].at = "deleted"
<1>1. Unused \in FileRow
  BY DEF Unused, FileRow, ConversionState, NoKey
<1>2. Fresh \in FileRow /\ [Unused EXCEPT !.at = "deleted"] \in FileRow
  BY <1>1 DEF Fresh, FileRow
<1> QED
  BY <1>1, <1>2 DEF Unused, Fresh

\* What requests to convert, tasks and recorders make of a row is a row.
LEMMA FileUpdates ==
  ASSUME NEW f \in FileRow
  PROVE  /\ \A c \in Conv : [f EXCEPT !.state = "PENDING", !.mapping = c] \in FileRow
         /\ \A s \in ConversionState : [f EXCEPT !.state = s] \in FileRow
         /\ [f EXCEPT !.state = "DONE", !.converted = TRUE] \in FileRow
         /\ [f EXCEPT !.validated = TRUE] \in FileRow
<1>1. \A c \in Conv : [f EXCEPT !.state = "PENDING", !.mapping = c] \in FileRow
  <2> SUFFICES ASSUME NEW c \in Conv
               PROVE  [f EXCEPT !.state = "PENDING", !.mapping = c] \in FileRow
    OBVIOUS
  <2>1. c \in 0..MaxConvs
    BY DEF Conv
  <2> QED
    BY <2>1 DEF FileRow, ConversionState
<1>2. \A s \in ConversionState : [f EXCEPT !.state = s] \in FileRow
  BY DEF FileRow
<1>3. [f EXCEPT !.state = "DONE", !.converted = TRUE] \in FileRow
  BY DEF FileRow, ConversionState
<1>4. [f EXCEPT !.validated = TRUE] \in FileRow
  BY DEF FileRow
<1> QED
  BY <1>1, <1>2, <1>3, <1>4

\* A conversion that ends, and one that is sent again.
LEMMA ConvUpdates ==
  ASSUME FilesTypeOK, NEW c \in Conv
  PROVE  /\ NoConv \in ConvRec /\ [NoConv EXCEPT !.pc = "done"] \in ConvRec
         /\ Retried(c) \in ConvRec
         /\ Retried(c).pc \in {"queued", "done"}
         /\ Retried(c).pc = "queued" => Retried(c).file = conv[c].file
<1>1. NoConv \in ConvRec /\ [NoConv EXCEPT !.pc = "done"] \in ConvRec
  BY FreshType DEF NoConv, ConvRec, ConvPc, NoKey
<1>2. conv[c] \in ConvRec
  BY DEF FilesTypeOK, ConvRec, ConvPc
<1>3. CASE conv[c].retries < MaxRetries
  <2> DEFINE n == conv[c].retries + 1
  <2>1. n \in 0..MaxRetries
    BY <1>2, <1>3 DEF ConvRec
  <2>2. Retried(c) = [conv[c] EXCEPT !.pc = "queued", !.retries = n, !.obj = Unused]
    BY <1>2, <1>3 DEF Retried, ConvRec
  <2> HIDE DEF n
  <2> QED
    BY <1>1, <1>2, <2>1, <2>2, FreshType DEF ConvRec, ConvPc
<1>4. CASE ~(conv[c].retries < MaxRetries)
  <2>1. Retried(c) = [NoConv EXCEPT !.pc = "done"]
    BY <1>4 DEF Retried
  <2> QED
    BY <1>1, <2>1 DEF NoConv
<1> QED
  BY <1>3, <1>4

-----------------------------------------------------------------------------
(* Room in the table.                                                      *)

\* An allowance is a number of files.
LEMMA RestType == \A r \in Request : Rest(r) \in 0..2 /\ Rest(r)' \in 0..2
  BY DEF Rest, Allowance

\* Nothing is created.
LEMMA RoomKept ==
  ASSUME Room, \A f \in File : Used(f)' <=> Used(f), \A r \in Request : Rest(r)' <= Rest(r)
  PROVE  Room'
<1>1. PICK n \in Nat, S \in Ledger : Fits(n, S)
  BY DEF Room
<1>2. \A r \in Request : S[r - 1] \in Nat /\ S[r] \in Nat
  BY DEF Ledger, Mark, Request
<1>3. \A r \in Request : S[r - 1] + Rest(r)' <= S[r]
  BY <1>1, <1>2, RestType DEF Fits
<1>4. Fits(n, S)'
  BY <1>1, <1>3 DEF Fits
<1> QED
  BY <1>4 DEF Room

\* A request that may still create a file finds an unused key.
LEMMA NewFileIs ==
  ASSUME NEW n \in Nat, NEW S \in Ledger, Fits(n, S),
         NEW r \in Request, Rest(r) >= 1
  PROVE  /\ NewFile \in File /\ files[NewFile].at = "unused" /\ NewFile = n + 1
         /\ S[MaxRequests] >= 1
<1>1. /\ r - 1 \in Mark /\ r \in Mark /\ MaxRequests \in Mark
      /\ \A k \in Mark : S[k] \in Nat
  BY DEF Request, Mark, Ledger
<1>2. S[MaxRequests] >= 1
  <2>1. S[r - 1] + Rest(r) <= S[r] /\ S[r] <= S[MaxRequests]
    BY <1>1 DEF Fits, Request, Mark
  <2> QED
    BY <1>1, <2>1, RestType
<1>3. n + 1 \in File
  BY <1>1, <1>2 DEF Fits, File
<1>4. files[n + 1].at = "unused"
  BY <1>3 DEF Fits, Used
<1>5. \A g \in 1..((n + 1) - 1) : files[g].at # "unused"
  <2> SUFFICES ASSUME NEW g \in 1..((n + 1) - 1) PROVE files[g].at # "unused"
    OBVIOUS
  <2>1. g \in File /\ g <= n
    BY <1>3 DEF File
  <2> QED
    BY <2>1 DEF Fits, Used
<1> DEFINE P(f) == /\ files[f].at = "unused"
                   /\ \A g \in 1..(f - 1) : files[g].at # "unused"
<1>6. NewFile \in File /\ P(NewFile)
  <2>1. NewFile = CHOOSE f \in File : P(f)
    BY DEF NewFile
  <2>2. \E f \in File : P(f)
    BY <1>3, <1>4, <1>5
  <2> HIDE DEF P
  <2> QED
    BY <2>1, <2>2
<1>7. NewFile = n + 1
  <2>1. NewFile > n
    BY <1>6 DEF Fits, Used, File
  <2>2. ~(n + 1 < NewFile)
    <3> SUFFICES ASSUME n + 1 < NewFile PROVE FALSE
      OBVIOUS
    <3>1. n + 1 \in 1..(NewFile - 1)
      BY <1>6 DEF File
    <3> QED
      BY <1>4, <1>6, <3>1
  <2> QED
    BY <1>6, <2>1, <2>2 DEF File
<1> QED
  BY <1>2, <1>6, <1>7

\* The same without the account.
LEMMA NewFileUnused ==
  ASSUME Room, NEW r \in Request, Rest(r) >= 1
  PROVE  NewFile \in File /\ files[NewFile].at = "unused"
<1>1. PICK n \in Nat, S \in Ledger : Fits(n, S)
  BY DEF Room
<1> QED
  BY <1>1, NewFileIs

\* Request r creates a file and has an allowance less.
LEMMA RoomTaken ==
  ASSUME Room, NEW r \in Request, Rest(r) >= 1,
         \A f \in File : Used(f)' <=> Used(f) \/ f = NewFile,
         Rest(r)' + 1 <= Rest(r),
         \A q \in Request : q # r => Rest(q)' <= Rest(q)
  PROVE  Room'
<1>1. PICK n \in Nat, S \in Ledger : Fits(n, S)
  BY DEF Room
<1>2. NewFile = n + 1 /\ NewFile \in File
  BY <1>1, NewFileIs
<1>3. /\ \A k \in Mark : S[k] \in Nat /\ k \in Nat
      /\ r \in Mark /\ r - 1 \in Mark /\ r \in Nat /\ MaxRequests \in Mark /\ r <= MaxRequests
  BY DEF Ledger, Mark, Request
<1> DEFINE T == [k \in Mark |-> IF k >= r THEN S[k] - 1 ELSE S[k]]
<1>4. S[r - 1] + Rest(r) <= S[r]
  BY <1>1 DEF Fits
<1>5. \A k \in Mark : k >= r => S[k] >= S[r - 1] + Rest(r)
  BY <1>1, <1>3, <1>4, RestType DEF Fits
<1>6. T \in Ledger
  BY <1>3, <1>5, RestType DEF Ledger
<1>7. ASSUME NEW k \in Mark, NEW l \in Mark, k <= l PROVE T[k] <= T[l]
  <2>1. S[k] <= S[l] /\ (k < r => S[k] <= S[r - 1])
    BY <1>1, <1>3, <1>7 DEF Fits
  <2> QED
    BY <1>3, <1>5, <1>7, <2>1, RestType
<1>8. ASSUME NEW q \in Request PROVE T[q - 1] + Rest(q)' <= T[q]
  <2>1. q \in Mark /\ q - 1 \in Mark /\ q \in Nat /\ q - 1 \in Nat /\ S[q - 1] + Rest(q) <= S[q]
    BY <1>1 DEF Fits, Mark, Request
  <2>2. CASE q = r
    BY <1>3, <1>4, <2>1, <2>2, RestType
  <2>3. CASE q < r
    BY <1>3, <2>1, <2>3, RestType
  <2>4. CASE q > r
    <3>1. q - 1 >= r
      BY <1>3, <2>1, <2>4
    <3>2. T[q - 1] = S[q - 1] - 1 /\ T[q] = S[q] - 1
      BY <1>3, <2>1, <2>4, <3>1
    <3> QED
      BY <1>3, <2>1, <2>4, <3>2, RestType
  <2> QED
    BY <1>3, <2>1, <2>2, <2>3, <2>4
<1>9. (n + 1) + T[MaxRequests] <= MaxFiles
  <2>1. T[MaxRequests] = S[MaxRequests] - 1 /\ S[MaxRequests] \in Nat
    BY <1>3
  <2> QED
    BY <1>1, <2>1 DEF Fits
<1>10. \A f \in File : Used(f)' <=> f <= n + 1
  BY <1>1, <1>2 DEF Fits, File
<1> HIDE DEF T
<1>11. Fits(n + 1, T)'
  BY <1>7, <1>8, <1>9, <1>10 DEF Fits
<1> QED
  BY <1>6, <1>11 DEF Room

-----------------------------------------------------------------------------
(* Conversions keep PInv.                                                  *)

\* What is left to show of a step of a conversion.
LEMMA ConvStep ==
  ASSUME PInv, UNCHANGED pvars, FilesTypeOK', \A f \in File : Used(f)' <=> Used(f),
         ConvKeys'
  PROVE  PInv'
<1>1. TypeOK'
  BY DEF PInv, TypeOK, pvars
<1>2. \A r \in Request : Rest(r)' = Rest(r)
  BY DEF Rest, pvars
<1>3. Room'
  BY <1>2, RoomKept, RestType DEF PInv
<1>4. \A obj \in Row : FileColumns(obj) \subseteq File
  BY DEF FileColumns, Row, File, NoKey
<1>5. ColumnsUsed(row)'
  BY <1>4 DEF PInv, KeysUsed, ColumnsUsed, pvars, TypeOK
<1>6. ReqKeys'
  <2> SUFFICES ASSUME NEW r \in Request
               PROVE  /\ \A f \in FileColumns(req[r].obj) : files'[f].at # "unused"
                      /\ req[r].new # NoKey => files'[req[r].new].at # "unused"
                      /\ req[r].src # NoKey => files'[req[r].src].at # "unused"
                      /\ req[r].pc = "rec_file" => req[r].file.at = "live"
    BY DEF ReqKeys, ColumnsUsed, pvars, Used
  <2>1. req[r].obj \in Row /\ req[r].new \in 0..MaxFiles /\ req[r].src \in 0..MaxFiles
    BY DEF PInv, TypeOK, ReqRec
  <2>2. \A f \in 0..MaxFiles : f # NoKey => f \in File
    BY DEF NoKey, File
  <2> QED
    BY <1>4, <2>1, <2>2 DEF PInv, KeysUsed, ReqKeys, ColumnsUsed, Used
<1>7. TakenKeys'
  BY DEF PInv, KeysUsed, TakenKeys, pvars
<1> QED
  BY <1>1, <1>3, <1>5, <1>6, <1>7 DEF PInv, KeysUsed

\* The conversion c and the file it works on.
LEMMA ConvTypes ==
  ASSUME PInv, NEW c \in Conv
  PROVE  /\ conv[c] \in ConvRec /\ conv \in [Conv -> ConvRec] /\ files \in [File -> FileRow]
         /\ conv[c].obj \in FileRow /\ conv[c].file \in 0..MaxFiles
         /\ conv[c].pc \in {"begun", "queued", "read", "converting", "written"} =>
              conv[c].file \in File /\ files[conv[c].file] \in FileRow
<1>1. conv[c] \in ConvRec /\ conv \in [Conv -> ConvRec] /\ files \in [File -> FileRow]
  BY DEF PInv, TypeOK, FilesTypeOK, ConvRec, ConvPc
<1>2. conv[c].obj \in FileRow /\ conv[c].file \in 0..MaxFiles
  BY <1>1 DEF ConvRec
<1> QED
  BY <1>1, <1>2 DEF PInv, KeysUsed, ConvKeys, File, NoKey

\* A step that leaves the table alone and, of the conversions, changes one that
\* nothing depends on, or that still attends to its file.
LEMMA ConvMoves ==
  ASSUME PInv, UNCHANGED pvars, NEW c \in Conv, NEW k \in ConvRec,
         files' = files, conv' = [conv EXCEPT ![c] = k], output' \in [File -> 0..MaxConvs],
         \/ conv[c].pc \in {"idle", "begun"}
         \/ conv[c].pc = "read" /\ ~MayConvert(conv[c].obj.state)
         \/ conv[c].pc = "queued" /\ ~Live(conv[c].file)
         \/ /\ conv[c].pc = "queued" /\ k.pc = "read" /\ k.file = conv[c].file
            /\ k.obj = files[k.file]
         \/ conv[c].pc = "converting" /\ k.pc \in {"written", "stuck"} /\ k.file = conv[c].file,
         k.pc \in {"begun", "queued", "read", "converting", "written"} =>
           k.file # NoKey /\ Used(k.file),
         k.pc \in {"begun", "read", "converting", "written"} => k.obj.at = "live"
  PROVE  PInv' /\ (ConversionAttended => ConversionAttended')
<1>0. conv \in [Conv -> ConvRec] /\ conv[c] \in ConvRec /\ conv'[c] = k
      /\ \A d \in Conv : d # c => conv'[d] = conv[d]
  BY ConvTypes
<1>1. FilesTypeOK'
  BY <1>0 DEF PInv, TypeOK, FilesTypeOK, ConvRec, ConvPc
<1>2. \A f \in File : Used(f)' <=> Used(f)
  BY DEF Used
<1>3. ConvKeys'
  BY <1>0 DEF PInv, KeysUsed, ConvKeys, Used
<1>4. ASSUME ConversionAttended PROVE ConversionAttended'
  <2> SUFFICES ASSUME NEW f \in File, files[f].at = "live"
               PROVE  /\ files[f].state = "PENDING" =>
                           \E d \in Conv : /\ conv'[d].file = f
                                           /\ \/ conv'[d].pc = "queued"
                                              \/ /\ conv'[d].pc = "read"
                                                 /\ MayConvert(conv'[d].obj.state)
                                              \/ conv'[d].pc = "unsent" /\ files[f].mapping = d
                      /\ files[f].state = "IN_PROGRESS" =>
                           \E d \in Conv : /\ conv'[d].file = f
                                           /\ conv'[d].pc \in Working \cup {"stuck"}
    BY DEF ConversionAttended
  <2>1. CASE files[f].state = "PENDING"
    <3>1. PICK d \in Conv : /\ conv[d].file = f
                            /\ \/ conv[d].pc = "queued"
                               \/ conv[d].pc = "read" /\ MayConvert(conv[d].obj.state)
                               \/ conv[d].pc = "unsent" /\ files[f].mapping = d
      BY <1>4, <2>1 DEF ConversionAttended
    <3>2. CASE d # c
      BY <1>0, <2>1, <3>1, <3>2
    <3>3. CASE d = c
      <4>1. conv[c].pc = "queued" /\ f # NoKey
        BY <3>1, <3>3 DEF PInv, KeysUsed, ConvKeys
      <4>2. k.pc = "read" /\ k.file = f /\ k.obj = files[f]
        BY <3>1, <3>3, <4>1 DEF Live
      <4>3. MayConvert(k.obj.state)
        BY <2>1, <4>2 DEF MayConvert
      <4> QED
        BY <1>0, <2>1, <4>2, <4>3
    <3> QED
      BY <3>2, <3>3
  <2>2. CASE files[f].state = "IN_PROGRESS"
    <3>1. PICK d \in Conv : conv[d].file = f /\ conv[d].pc \in Working \cup {"stuck"}
      BY <1>4, <2>2 DEF ConversionAttended
    <3>2. conv'[d].file = f /\ conv'[d].pc \in Working \cup {"stuck"}
      BY <1>0, <3>1 DEF Working
    <3> QED
      BY <2>2, <3>2
  <2> QED
    BY <2>1, <2>2
<1> QED
  BY <1>1, <1>2, <1>3, <1>4, ConvStep

\* A step that saves the row of the file that c works on, with the state that c
\* has after it, or a state that needs no task.
LEMMA ConvSaves ==
  ASSUME PInv, UNCHANGED pvars, NEW c \in Conv, NEW k \in ConvRec, NEW row0 \in FileRow,
         conv[c].pc \in {"begun", "read", "converting", "written"},
         files' = [files EXCEPT ![conv[c].file] = row0], conv' = [conv EXCEPT ![c] = k],
         output' = output,
         row0.at = "live",
         row0.state = "PENDING" => /\ k.file = conv[c].file
                                   /\ k.pc = "queued" \/ (k.pc = "unsent" /\ row0.mapping = c),
         row0.state = "IN_PROGRESS" => k.pc = "converting" /\ k.file = conv[c].file,
         k.pc \in {"done", "queued", "unsent", "converting"},
         k.pc # "done" => k.file = conv[c].file,
         k.pc = "converting" => k.obj.at = "live"
  PROVE  PInv' /\ (ConversionAttended => ConversionAttended')
<1> DEFINE f0 == conv[c].file
<1>0. /\ conv \in [Conv -> ConvRec] /\ conv'[c] = k
      /\ \A d \in Conv : d # c => conv'[d] = conv[d]
      /\ files \in [File -> FileRow] /\ f0 \in File /\ files'[f0] = row0 /\ Used(f0)
      /\ \A f \in File : f # f0 => files'[f] = files[f]
      /\ f0 # NoKey
  BY ConvTypes DEF PInv, KeysUsed, ConvKeys
<1>1. FilesTypeOK'
  BY <1>0 DEF PInv, TypeOK, FilesTypeOK, ConvRec, ConvPc
<1>2. \A f \in File : Used(f)' <=> Used(f)
  BY <1>0 DEF Used
<1> HIDE DEF f0
<1>3. ConvKeys'
  <2> SUFFICES ASSUME NEW d \in Conv
               PROVE  /\ conv'[d].pc \in {"begun", "queued", "read", "converting", "written"} =>
                           conv'[d].file # NoKey /\ files'[conv'[d].file].at # "unused"
                      /\ conv'[d].pc \in {"begun", "read", "converting", "written"} =>
                           conv'[d].obj.at = "live"
    BY DEF ConvKeys, Used
  <2>1. CASE d = c
    BY <1>0, <2>1 DEF f0
  <2>2. CASE d # c
    <3>1. conv[d].pc \in {"begun", "queued", "read", "converting", "written"} =>
            conv[d].file \in File /\ Used(conv[d].file) /\ conv[d].file # NoKey
      BY ConvTypes DEF PInv, KeysUsed, ConvKeys
    <3> QED
      BY <1>0, <2>2, <3>1 DEF PInv, KeysUsed, ConvKeys, Used
  <2> QED
    BY <2>1, <2>2
<1>4. ASSUME ConversionAttended PROVE ConversionAttended'
  <2> SUFFICES ASSUME NEW f \in File, files'[f].at = "live"
               PROVE  /\ files'[f].state = "PENDING" =>
                           \E d \in Conv : /\ conv'[d].file = f
                                           /\ \/ conv'[d].pc = "queued"
                                              \/ /\ conv'[d].pc = "read"
                                                 /\ MayConvert(conv'[d].obj.state)
                                              \/ conv'[d].pc = "unsent" /\ files'[f].mapping = d
                      /\ files'[f].state = "IN_PROGRESS" =>
                           \E d \in Conv : /\ conv'[d].file = f
                                           /\ conv'[d].pc \in Working \cup {"stuck"}
    BY DEF ConversionAttended
  <2>1. CASE f = f0
    BY <1>0, <2>1 DEF f0, Working
  <2>2. CASE f # f0
    <3>1. \A d \in Conv : conv[d].file = f => d # c
      BY <2>2 DEF f0
    <3> QED
      BY <1>0, <1>4, <2>2, <3>1 DEF ConversionAttended
  <2> QED
    BY <2>1, <2>2
<1> QED
  BY <1>1, <1>2, <1>3, <1>4, ConvStep

\* The convert view: reading the file, refusing, starting.
LEMMA ConvertView ==
  ASSUME PInv, UNCHANGED pvars, NEW c \in Conv,
         \/ BeginConvert(c, row.location_file)
         \/ StartConversion(c, TRUE)
         \/ StartConversion(c, FALSE)
         \/ RefuseConversion(c)
  PROVE  PInv' /\ (ConversionAttended => ConversionAttended')
<1>0. conv[c] \in ConvRec /\ conv[c].obj \in FileRow /\ conv \in [Conv -> ConvRec]
  BY ConvTypes
<1>b. output \in [File -> 0..MaxConvs]
  BY DEF PInv, TypeOK, FilesTypeOK
<1>1. CASE BeginConvert(c, row.location_file)
  <2> DEFINE f == row.location_file
             k == [NoConv EXCEPT !.pc = "begun", !.file = f, !.obj = files[f]]
  <2>1. f \in File /\ f \in 0..MaxFiles /\ files[f] \in FileRow /\ files[f].at = "live" /\ f # NoKey
    BY <1>1 DEF BeginConvert, Live, PInv, TypeOK, FilesTypeOK, Row, File, NoKey
  <2>2. k \in ConvRec
    BY <2>1, ConvUpdates DEF ConvRec, ConvPc, PInv, TypeOK
  <2>3. k.pc = "begun" /\ k.file = f /\ k.obj = files[f]
    BY DEF NoConv
  <2>4. conv' = [conv EXCEPT ![c] = k] /\ files' = files /\ output' = output /\ conv[c].pc = "idle"
    BY <1>1 DEF BeginConvert
  <2> HIDE DEF k, f
  <2> QED
    BY <1>b, <2>1, <2>2, <2>3, <2>4, ConvMoves DEF Used
<1>2. ASSUME NEW sent \in BOOLEAN, StartConversion(c, sent)
      PROVE  PInv' /\ (ConversionAttended => ConversionAttended')
  <2> DEFINE obj == [conv[c].obj EXCEPT !.state = "PENDING", !.mapping = c]
             pc0 == IF sent THEN "queued" ELSE "unsent"
             k   == [conv[c] EXCEPT !.pc = pc0, !.obj = Unused]
  <2>1. obj \in FileRow /\ obj.at = conv[c].obj.at /\ obj.state = "PENDING" /\ obj.mapping = c
    BY <1>0, FileUpdates DEF FileRow
  <2>2. k \in ConvRec /\ k.pc = pc0 /\ k.file = conv[c].file
    BY <1>0, FreshType DEF ConvRec, ConvPc
  <2>3. /\ conv' = [conv EXCEPT ![c] = k] /\ files' = [files EXCEPT ![conv[c].file] = obj]
        /\ conv[c].pc = "begun" /\ conv[c].obj.at = "live" /\ output' = output
    BY <1>0, <1>2 DEF StartConversion, PInv, KeysUsed, ConvKeys
  <2> HIDE DEF k, obj
  <2> QED
    BY <2>1, <2>2, <2>3, ConvSaves
<1>3. CASE RefuseConversion(c)
  <2> DEFINE k == [NoConv EXCEPT !.pc = "done"]
  <2>1. k \in ConvRec /\ k.pc = "done"
    BY ConvUpdates DEF PInv, TypeOK, NoConv
  <2>2. conv' = [conv EXCEPT ![c] = k] /\ files' = files /\ output' = output /\ conv[c].pc = "begun"
    BY <1>3 DEF RefuseConversion
  <2> HIDE DEF k
  <2> QED
    BY <1>b, <2>1, <2>2, ConvMoves
<1> QED
  BY <1>1, <1>2, <1>3

\* run_file_conversion up to the conversion itself.
LEMMA TaskBegins ==
  ASSUME PInv, UNCHANGED pvars, NEW c \in Conv,
         ReadFile(c) \/ AlreadyInProgress(c) \/ MarkInProgress(c)
  PROVE  PInv' /\ (ConversionAttended => ConversionAttended')
<1>0. /\ conv[c] \in ConvRec /\ conv[c].obj \in FileRow /\ conv \in [Conv -> ConvRec]
      /\ FilesTypeOK
  BY ConvTypes DEF PInv, TypeOK
<1>b. output \in [File -> 0..MaxConvs]
  BY DEF PInv, TypeOK, FilesTypeOK
<1>1. CASE ReadFile(c)
  <2> DEFINE f == conv[c].file
  <2>0. conv[c].pc = "queued" /\ files' = files /\ output' = output /\ f \in File /\ files[f] \in FileRow
        /\ Used(f) /\ f # NoKey
    BY <1>1, ConvTypes DEF ReadFile, PInv, KeysUsed, ConvKeys
  <2>1. CASE Live(f)
    <3> DEFINE k == [conv[c] EXCEPT !.pc = "read", !.obj = files[f]]
    <3>1. k \in ConvRec /\ k.pc = "read" /\ k.file = f /\ k.obj = files[f]
      BY <1>0, <2>0 DEF ConvRec, ConvPc
    <3>2. conv' = [conv EXCEPT ![c] = k]
      BY <1>0, <1>1, <2>1 DEF ReadFile
    <3>3. files[f].at = "live"
      BY <2>1 DEF Live
    <3> HIDE DEF k, f
    <3> QED
      BY <2>0, <3>1, <3>2, <3>3, <1>b, ConvMoves DEF f
  <2>2. CASE ~Live(f)
    <3>1. conv' = [conv EXCEPT ![c] = Retried(c)]
      BY <1>0, <1>1, <2>2 DEF ReadFile
    <3> QED
      BY <1>0, <2>0, <2>2, <3>1, <1>b, ConvUpdates, ConvMoves
  <2> QED
    BY <2>1, <2>2
<1>2. CASE AlreadyInProgress(c)
  <2> DEFINE k == [NoConv EXCEPT !.pc = "done"]
  <2>1. k \in ConvRec /\ k.pc = "done"
    BY <1>0, ConvUpdates DEF NoConv
  <2>2. /\ conv' = [conv EXCEPT ![c] = k] /\ files' = files /\ output' = output /\ conv[c].pc = "read"
        /\ ~MayConvert(conv[c].obj.state)
    BY <1>2 DEF AlreadyInProgress
  <2> HIDE DEF k
  <2> QED
    BY <1>b, <2>1, <2>2, ConvMoves
<1>3. CASE MarkInProgress(c)
  <2> DEFINE obj == [conv[c].obj EXCEPT !.state = "IN_PROGRESS"]
             k   == [conv[c] EXCEPT !.pc = "converting", !.obj = obj]
  <2>1. obj \in FileRow /\ obj.at = conv[c].obj.at /\ obj.state = "IN_PROGRESS"
    BY <1>0, FileUpdates DEF FileRow, ConversionState
  <2>2. /\ conv' = [conv EXCEPT ![c] = k] /\ files' = [files EXCEPT ![conv[c].file] = obj]
        /\ conv[c].pc = "read" /\ conv[c].obj.at = "live" /\ output' = output
    BY <1>0, <1>3 DEF MarkInProgress, PInv, KeysUsed, ConvKeys
  <2> HIDE DEF obj
  <2>3. k \in ConvRec /\ k.pc = "converting" /\ k.file = conv[c].file /\ k.obj = obj
    BY <1>0, <2>1 DEF ConvRec, ConvPc
  <2> HIDE DEF k
  <2> QED
    BY <2>1, <2>2, <2>3, ConvSaves
<1> QED
  BY <1>1, <1>2, <1>3

\* The output, and the end of a conversion, with an outcome or without.
LEMMA TaskEnds ==
  ASSUME PInv, UNCHANGED pvars, NEW c \in Conv,
         MappingFails(c) \/ WriteOutput(c) \/ EndConversion(c, TRUE) \/ EndConversion(c, FALSE)
  PROVE  PInv' /\ (ConversionAttended => ConversionAttended')
<1>0. /\ conv[c] \in ConvRec /\ conv[c].obj \in FileRow /\ conv \in [Conv -> ConvRec]
      /\ FilesTypeOK /\ conv[c].pc \in {"converting", "written"} /\ conv[c].obj.at = "live"
      /\ Used(conv[c].file) /\ conv[c].file # NoKey
  BY ConvTypes DEF MappingFails, WriteOutput, EndConversion, PInv, TypeOK, KeysUsed, ConvKeys, Working
<1>b. output \in [File -> 0..MaxConvs]
  BY DEF PInv, TypeOK, FilesTypeOK
<1>1. CASE MappingFails(c)
  <2> DEFINE k == [conv[c] EXCEPT !.pc = "stuck", !.obj = Unused]
  <2>1. k \in ConvRec /\ k.pc = "stuck" /\ k.file = conv[c].file
    BY <1>0, FreshType DEF ConvRec, ConvPc
  <2>2. conv' = [conv EXCEPT ![c] = k] /\ files' = files /\ output' = output /\ conv[c].pc = "converting"
    BY <1>0, <1>1 DEF MappingFails
  <2> HIDE DEF k
  <2> QED
    BY <1>b, <2>1, <2>2, ConvMoves
<1>2. CASE WriteOutput(c)
  <2> DEFINE k == [conv[c] EXCEPT !.pc = "written"]
  <2>1. k \in ConvRec /\ k.pc = "written" /\ k.file = conv[c].file /\ k.obj = conv[c].obj
    BY <1>0 DEF ConvRec, ConvPc
  <2>2. conv' = [conv EXCEPT ![c] = k] /\ files' = files /\ conv[c].pc = "converting"
    BY <1>0, <1>2 DEF WriteOutput
  <2>3. output' \in [File -> 0..MaxConvs]
    <3>1. conv[c].obj.mapping \in 0..MaxConvs
      BY <1>0 DEF FileRow
    <3> QED
      BY <1>2, <1>b, <3>1 DEF WriteOutput
  <2> HIDE DEF k
  <2> QED
    BY <1>0, <2>1, <2>2, <2>3, ConvMoves
<1>3. CASE EndConversion(c, TRUE)
  <2> DEFINE obj == [conv[c].obj EXCEPT !.state = "DONE", !.converted = TRUE]
             k   == [NoConv EXCEPT !.pc = "done"]
  <2>1. obj \in FileRow /\ obj.at = "live" /\ obj.state = "DONE"
    BY <1>0, FileUpdates DEF FileRow
  <2>2. k \in ConvRec /\ k.pc = "done"
    BY <1>0, ConvUpdates DEF NoConv
  <2>3. /\ conv' = [conv EXCEPT ![c] = k] /\ files' = [files EXCEPT ![conv[c].file] = obj]
        /\ output' = output
    BY <1>3 DEF EndConversion, SaveOutcome
  <2> HIDE DEF k, obj
  <2> QED
    BY <1>0, <2>1, <2>2, <2>3, ConvSaves
<1>4. CASE EndConversion(c, FALSE)
  <2> DEFINE obj == [conv[c].obj EXCEPT !.state = "ERROR"]
  <2>1. obj \in FileRow /\ obj.at = "live" /\ obj.state = "ERROR"
    BY <1>0, FileUpdates DEF FileRow, ConversionState
  <2>2. /\ conv' = [conv EXCEPT ![c] = Retried(c)] /\ files' = [files EXCEPT ![conv[c].file] = obj]
        /\ output' = output
    BY <1>4 DEF EndConversion, SaveOutcome
  <2> HIDE DEF obj
  <2> QED
    BY <1>0, <2>1, <2>2, ConvUpdates, ConvSaves
<1> QED
  BY <1>1, <1>2, <1>3, <1>4

\* All steps of conversions.
LEMMA ConversionPInv ==
  ASSUME PInv, NEW c \in Conv, UNCHANGED pvars,
         BeginConvert(c, row.location_file) \/ Converting(c)
  PROVE  PInv' /\ (ConversionAttended => ConversionAttended')
  BY ConvertView, TaskBegins, TaskEnds DEF Converting

-----------------------------------------------------------------------------
(* Steps of requests.                                                      *)

\* No key is taken back.
Grows == \A f \in File : files[f].at # "unused" => files'[f].at # "unused"

\* Undisturbed, a request only creates, deletes or marks files.
Quiet ==
  \A f \in File :
    \/ files'[f] = files[f]
    \/ files[f].at = "unused" /\ files'[f] = Fresh
    \/ files[f].at # "unused" /\ files'[f] = [Unused EXCEPT !.at = "deleted"]
    \/ files[f].at # "unused" /\ files'[f] = [files[f] EXCEPT !.validated = TRUE]

\* What a step of r may do to the stored files.
StoreOK ==
  /\ output' \in [File -> 0..MaxConvs] /\ takenBy' \in [File -> 0..MaxRequests]
  /\ \A f \in File : takenBy'[f] # 0 => files'[f].at # "unused"
Takes(r) ==
  \A f \in File : /\ takenBy'[f] \in {takenBy[f], r}
                  /\ takenBy'[f] = 0 => takenBy[f] = 0 /\ output'[f] = output[f]

\* The transform file goes, or a new one comes.
NewTransform ==
  LET f == row'.transform_file
  IN  f \in {row.transform_file, NoKey} \/ (f \in File /\ files[f].at = "unused")

\* Of a file, such a step keeps what conversions need.
LEMMA QuietIs ==
  ASSUME PInv, Quiet, NEW f \in File
  PROVE  /\ files[f].at # "unused" => files'[f].at # "unused"
         /\ files'[f].at = "live" /\ files[f].at # "unused" => files[f].at = "live"
         /\ files'[f].at # "live" =>
              \/ files'[f].state = "NONE"
              \/ files[f].at # "live" /\ files'[f].state = files[f].state
         /\ \/ files'[f].state = "NONE"
            \/ /\ files'[f].at = files[f].at /\ files'[f].state = files[f].state
               /\ files'[f].mapping = files[f].mapping
         /\ files[f].at # "unused" /\ files'[f].at = "live" => files'[f].state = files[f].state
<1>0. files[f] \in FileRow
  BY DEF PInv, TypeOK, FilesTypeOK
<1>1. [Unused EXCEPT !.at = "deleted"].state = "NONE"
  BY DEF Unused
<1>2. LET g == [files[f] EXCEPT !.validated = TRUE]
      IN  g.at = files[f].at /\ g.state = files[f].state /\ g.mapping = files[f].mapping
  BY <1>0 DEF FileRow
<1> QED
  BY <1>1, <1>2, FreshType DEF Quiet

\* A step that leaves the table alone.
LEMMA NothingQuiet ==
  ASSUME files' = files
  PROVE  Quiet /\ Grows
  BY DEF Quiet, Grows

\* A table that stays quiet only grows.
LEMMA QuietGrows ==
  ASSUME PInv, Quiet
  PROVE  Grows
  BY QuietIs DEF Grows

\* No stored file is touched.
LEMMA NothingTaken ==
  ASSUME PInv, Grows, UNCHANGED <<output, takenBy>>
  PROVE  StoreOK /\ \A r \in Request : Takes(r)
<1>1. output \in [File -> 0..MaxConvs] /\ takenBy \in [File -> 0..MaxRequests]
  BY DEF PInv, TypeOK, FilesTypeOK
<1>2. \A f \in File : takenBy[f] # 0 => files[f].at # "unused"
  BY DEF PInv, KeysUsed, TakenKeys, Used
<1> QED
  BY <1>1, <1>2 DEF StoreOK, Takes, Grows

\* What is left to show of PInv for a step of request r, which becomes k.
LEMMA RequestStep ==
  ASSUME PInv, NEW r \in Request, NEW k \in ReqRec, req' = [req EXCEPT ![r] = k],
         conv' = conv, Grows, files' \in [File -> FileRow], StoreOK,
         row' \in Row, exists' \in BOOLEAN, checked' \subseteq File,
         \/ /\ \A f \in File : files[f].at = "unused" => files'[f].at = "unused"
            /\ Allowance(k.pc) <= Allowance(req[r].pc)
         \/ /\ \A f \in File : files'[f].at = "unused" <=> files[f].at = "unused" /\ f # NewFile
            /\ Allowance(k.pc) + 1 <= Allowance(req[r].pc),
         \A f \in FileColumns(row') \cup FileColumns(k.obj) \cup ({k.new, k.src} \ {NoKey}) :
           files'[f].at # "unused",
         k.pc = "rec_file" => k.file.at = "live"
  PROVE  PInv'
<1>0. /\ req \in [Request -> ReqRec] /\ req'[r] = k
      /\ \A q \in Request : q # r => req'[q] = req[q]
  BY DEF PInv, TypeOK
<1>1. TypeOK'
  <2>1. FilesTypeOK'
    BY DEF PInv, TypeOK, FilesTypeOK, StoreOK
  <2>2. req' \in [Request -> ReqRec]
    BY <1>0
  <2> QED
    BY <2>1, <2>2 DEF TypeOK, StoreOK
<1>2. Room'
  <2>1. \A pc : Allowance(pc) \in 0..2
    BY DEF Allowance
  <2>2. /\ Rest(r)' = Allowance(k.pc) /\ Rest(r) = Allowance(req[r].pc)
        /\ \A q \in Request : q # r => Rest(q)' = Rest(q)
    BY <1>0 DEF Rest
  <2>3. \A f \in File : Used(f) => Used(f)'
    BY DEF Grows, Used
  <2>4. CASE /\ \A f \in File : files[f].at = "unused" => files'[f].at = "unused"
             /\ Allowance(k.pc) <= Allowance(req[r].pc)
    <3>1. \A f \in File : Used(f)' <=> Used(f)
      BY <2>3, <2>4 DEF Used
    <3>2. \A q \in Request : Rest(q)' <= Rest(q)
      BY <2>2, <2>4, RestType
    <3> QED
      BY <3>1, <3>2, RoomKept DEF PInv
  <2>5. CASE /\ \A f \in File : files'[f].at = "unused" <=> files[f].at = "unused" /\ f # NewFile
             /\ Allowance(k.pc) + 1 <= Allowance(req[r].pc)
    <3>1. \A f \in File : Used(f)' <=> Used(f) \/ f = NewFile
      BY <2>5 DEF Used
    <3>2. Rest(r) >= 1 /\ Rest(r)' + 1 <= Rest(r) /\ \A q \in Request : q # r => Rest(q)' <= Rest(q)
      BY <2>1, <2>2, <2>5, RestType
    <3> QED
      BY <3>1, <3>2, RoomTaken DEF PInv
  <2> QED
    BY <2>4, <2>5
<1>3. ColumnsUsed(row)'
  BY DEF ColumnsUsed, Used
<1>4. ReqKeys'
  <2> SUFFICES ASSUME NEW q \in Request
               PROVE  /\ \A f \in FileColumns(req'[q].obj) : files'[f].at # "unused"
                      /\ req'[q].new # NoKey => files'[req'[q].new].at # "unused"
                      /\ req'[q].src # NoKey => files'[req'[q].src].at # "unused"
                      /\ req'[q].pc = "rec_file" => req'[q].file.at = "live"
    BY DEF ReqKeys, ColumnsUsed, Used
  <2>1. CASE q = r
    BY <1>0, <2>1
  <2>2. CASE q # r
    <3>1. /\ FileColumns(req[q].obj) \subseteq File
          /\ req[q].new # NoKey => req[q].new \in File
          /\ req[q].src # NoKey => req[q].src \in File
      <4>1. req[q] \in ReqRec
        BY <1>0
      <4>2. req[q].obj \in Row /\ req[q].new \in 0..MaxFiles /\ req[q].src \in 0..MaxFiles
        BY <4>1 DEF ReqRec
      <4>3. PICK obj \in Row : obj = req[q].obj
        BY <4>2
      <4>4. {obj.location_file, obj.transform_file, obj.exposure_run_file} \subseteq 0..MaxFiles
        BY DEF Row
      <4>5. FileColumns(obj) \subseteq (0..MaxFiles) \ {0}
        BY <4>4 DEF FileColumns, NoKey
      <4>6. (0..MaxFiles) \ {0} \subseteq File
        BY DEF File
      <4> QED
        BY <4>2, <4>3, <4>5, <4>6 DEF NoKey
    <3>2. /\ \A f \in FileColumns(req[q].obj) : files[f].at # "unused"
          /\ req[q].new # NoKey => files[req[q].new].at # "unused"
          /\ req[q].src # NoKey => files[req[q].src].at # "unused"
          /\ req[q].pc = "rec_file" => req[q].file.at = "live"
      BY DEF PInv, KeysUsed, ReqKeys, ColumnsUsed, Used
    <3> QED
      BY <1>0, <2>2, <3>1, <3>2 DEF Grows
  <2> QED
    BY <2>1, <2>2
<1>5. ConvKeys'
  BY ConvTypes DEF PInv, KeysUsed, ConvKeys, Used, Grows
<1>6. TakenKeys'
  BY DEF TakenKeys, Used, StoreOK
<1> QED
  BY <1>1, <1>2, <1>3, <1>4, <1>5, <1>6 DEF PInv, KeysUsed

\* What is left to show of AInv for such a step.
LEMMA AtomicStep ==
  ASSUME Atomic, AInv, PInv', NEW r \in Request, NEW k \in ReqRec, req' = [req EXCEPT ![r] = k],
         conv' = conv, Quiet, Takes(r), NewTransform, UnderWay(r),
         k.pc \in Mid => req[r].pc \in Mid \/ (Idle /\ ConvIdle),
         k.pc # "idle",
         k.pc \notin Over => k.rivals = req[r].rivals,
         req[r].pc \in Mid \/ UNCHANGED <<row, files, takenBy>>,
         RowOK', CopyOK(k)', SourceKept(k)'
  PROVE  AInv'
<1>0. /\ req \in [Request -> ReqRec] /\ req'[r] = k /\ conv \in [Conv -> ConvRec]
      /\ \A q \in Request : q # r => req'[q] = req[q]
      /\ files \in [File -> FileRow] /\ PInv
  BY DEF AInv, PInv, TypeOK, FilesTypeOK, ConvRec, ConvPc
<1>1. Alone'
  <2>1. \A q \in Request : q # r => ~(k.pc \in Mid /\ req'[q].pc \in Mid)
    BY <1>0 DEF AInv, Alone, Idle
  <2>2. \A c \in Conv : ~(k.pc \in Mid /\ conv[c].pc \in {"begun", "read"})
    BY DEF AInv, Alone, ConvIdle
  <2> QED
    BY <1>0, <2>1, <2>2 DEF AInv, Alone
<1>2. ASSUME NEW d \in Conv, conv[d].pc \in Working
      PROVE  conv[d].file \in File /\ files[conv[d].file].at # "unused"
  BY <1>0, <1>2, ConvTypes DEF PInv, KeysUsed, ConvKeys, Used, Working
<1>3. Guarded'
  <2> SUFFICES ASSUME NEW d \in Conv, conv[d].pc \in Working
               PROVE  /\ files'[conv[d].file].at = "live" =>
                           files'[conv[d].file].state = "IN_PROGRESS"
                      /\ \A c \in Conv : Cleared(c)' => conv[c].file # conv[d].file
    BY DEF Guarded
  <2>1. files'[conv[d].file].at = "live" =>
          files'[conv[d].file].state = files[conv[d].file].state /\ files[conv[d].file].at = "live"
    BY <1>0, <1>2, QuietIs
  <2> QED
    BY <2>1 DEF AInv, Guarded, Cleared
<1>4. OneConversion'
  BY DEF AInv, OneConversion
<1>5. Written'
  <2> SUFFICES ASSUME NEW c \in Conv, conv[c].pc = "written", takenBy'[conv[c].file] = 0
               PROVE  output'[conv[c].file] = conv[c].obj.mapping
    BY DEF Written
  <2>1. conv[c].file \in File
    BY <1>2 DEF Working
  <2> QED
    BY <2>1 DEF Takes, AInv, Written
<1>6. Blank' /\ MappingIsUsed' /\ ConversionAttended'
  <2>1. Blank'
    BY <1>0, QuietIs DEF Blank, AInv
  <2>2. MappingIsUsed'
    <3> SUFFICES ASSUME NEW f \in File, takenBy'[f] = 0, files'[f].state = "DONE"
                 PROVE  output'[f] = files'[f].mapping
      BY DEF MappingIsUsed
    <3>1. files[f].state = "DONE" /\ files'[f].mapping = files[f].mapping
      BY <1>0, QuietIs
    <3> QED
      BY <3>1 DEF Takes, AInv, MappingIsUsed
  <2>3. ConversionAttended'
    <3>1. \A f \in File : \/ files'[f].state = "NONE"
                          \/ /\ files'[f].at = files[f].at /\ files'[f].state = files[f].state
                             /\ files'[f].mapping = files[f].mapping
      BY <1>0, QuietIs
    <3> QED
      BY <3>1 DEF AInv, ConversionAttended
  <2> QED
    BY <2>1, <2>2, <2>3
<1>7. RivalsKnown'
  BY <1>0 DEF AInv, RivalsKnown, UnderWay
<1>8. ASSUME NEW q \in Request PROVE (CopyOK(req[q]) /\ SourceKept(req[q]))'
  <2>1. CASE q = r
    BY <1>0, <2>1 DEF CopyOK, SourceKept, Stored
  <2>2. CASE q # r
    <3>0. req'[q] = req[q] /\ SourceKept(req[q])
      BY <1>0, <2>2 DEF AInv
    <3>1. SourceKept(req[q])'
      <4>1. UnderWay(q) => r \in req[q].rivals
        BY <2>2 DEF AInv, RivalsKnown
      <4>2. /\ req[q].src # NoKey => req[q].src \in File /\ files[req[q].src].at # "unused"
            /\ req[q].new # NoKey => req[q].new \in File
        <5>1. req[q].src \in 0..MaxFiles /\ req[q].new \in 0..MaxFiles
          BY <1>0 DEF ReqRec
        <5> QED
          BY <1>0, <5>1 DEF PInv, KeysUsed, ReqKeys, Used, File, NoKey
      <4>3. req[q].src # NoKey /\ req[q].src # row.transform_file =>
              req[q].src # row'.transform_file
        BY <4>2 DEF NewTransform
      <4>4. /\ req[q].src # NoKey => takenBy'[req[q].src] \in {takenBy[req[q].src], r}
            /\ req[q].new # NoKey => takenBy'[req[q].new] \in {takenBy[req[q].new], r}
        BY <4>2 DEF Takes
      <4> QED
        BY <3>0, <4>1, <4>3, <4>4 DEF SourceKept, UnderWay
    <3>2. CASE req[q].pc \in Mid
      <4>1. row' = row /\ files' = files /\ takenBy' = takenBy
        BY <2>2, <3>2 DEF AInv, Alone
      <4> QED
        BY <3>0, <3>1, <4>1 DEF AInv, CopyOK, Stored
    <3>3. CASE req[q].pc \notin Mid
      BY <3>0, <3>1, <3>3 DEF CopyOK, Mid, InHandler, InRecorder
    <3> QED
      BY <3>2, <3>3
  <2> QED
    BY <2>1, <2>2
<1> QED
  BY <1>1, <1>3, <1>4, <1>5, <1>6, <1>7, <1>8 DEF AInv

\* A new Portfolio object.
LEMMA NewRowType == NewRow \in Row /\ FileColumns(NewRow) = {}
  BY DEF NewRow, Row, PStatus, NoKey, FileColumns

\* Where requests are.
LEMMA Places ==
  /\ Mid \cap AtWorker = {} /\ Mid \cap ToRecord = {} /\ Mid \cap Over = {}
  /\ AtWorker \cap ToRecord = {} /\ AtWorker \cap Over = {} /\ ToRecord \cap Over = {}
  /\ "idle" \notin Mid \cup AtWorker \cup ToRecord \cup Over
  /\ InHandler \subseteq Mid /\ InRecorder \subseteq Mid /\ InHandler \cap InRecorder = {}
  BY DEF Mid, InHandler, InRecorder, AtWorker, ToRecord, Over

\* A request that has not begun.
LEMMA NoReqType ==
  /\ NoReq \in ReqRec /\ NoReq.pc = "idle" /\ NoReq.obj = NewRow /\ NoReq.new = NoKey
  /\ NoReq.src = NoKey /\ NoReq.rivals = {} /\ NoReq.file = Unused
  BY NewRowType, FreshType DEF NoReq, ReqRec, NoKey, AllOps

\* A handler or recorder that is over.
LEMMA CloseIs ==
  ASSUME TypeOK, NEW r \in Request, NEW pc \in ReqPc
  PROVE  \E k \in ReqRec :
           /\ Close(r, pc) = [req EXCEPT ![r] = k]
           /\ k.pc = pc /\ k.obj = NewRow
           /\ k.new \in {NoKey, req[r].new} /\ k.src \in {NoKey, req[r].src}
           /\ pc \notin Over => k.rivals = req[r].rivals /\ k.src = req[r].src
<1>0. req[r] \in ReqRec /\ req[r].op \in AllOps
  BY DEF TypeOK, ReqRec
<1>1. CASE pc \in Over
  <2> DEFINE k == [NoReq EXCEPT !.op = req[r].op, !.pc = pc]
  <2>1. Close(r, pc) = [req EXCEPT ![r] = k]
    BY <1>1 DEF Close
  <2>2. k \in ReqRec
    BY <1>0, NoReqType DEF ReqRec, ReqPc
  <2>3. k.pc = pc /\ k.obj = NewRow /\ k.new = NoKey /\ k.src = NoKey
    BY NoReqType DEF ReqRec
  <2> HIDE DEF k
  <2> QED
    BY <1>1, <2>1, <2>2, <2>3
<1>2. CASE pc \notin Over
  <2> DEFINE k == [req[r] EXCEPT !.pc = pc, !.obj = NewRow]
  <2>1. Close(r, pc) = [req EXCEPT ![r] = k]
    BY <1>2 DEF Close, TypeOK
  <2>2. k \in ReqRec
    BY <1>0, NewRowType DEF ReqRec, ReqPc
  <2>3. /\ k.pc = pc /\ k.obj = NewRow /\ k.new = req[r].new /\ k.rivals = req[r].rivals
        /\ k.src = req[r].src
    BY <1>0 DEF ReqRec
  <2> HIDE DEF k
  <2> QED
    BY <1>2, <2>1, <2>2, <2>3
<1> QED
  BY <1>1, <1>2

\* What a request knows of itself and its files.
LEMMA ReqTypes ==
  ASSUME PInv, NEW r \in Request
  PROVE  /\ req[r] \in ReqRec /\ req \in [Request -> ReqRec] /\ files \in [File -> FileRow]
         /\ row \in Row /\ exists \in BOOLEAN /\ checked \subseteq File
         /\ req[r].obj \in Row /\ req[r].new \in 0..MaxFiles /\ req[r].src \in 0..MaxFiles
         /\ req[r].pc \in ReqPc /\ req[r].op \in AllOps
         /\ \A f \in FileColumns(row) : f \in File /\ f # NoKey /\ files[f].at # "unused"
         /\ \A f \in FileColumns(req[r].obj) : f \in File /\ f # NoKey /\ files[f].at # "unused"
         /\ req[r].new # NoKey => req[r].new \in File /\ files[req[r].new].at # "unused"
         /\ req[r].src # NoKey => req[r].src \in File /\ files[req[r].src].at # "unused"
<1>1. \A obj \in Row : FileColumns(obj) \subseteq File /\ NoKey \notin FileColumns(obj)
  BY DEF FileColumns, Row, File, NoKey
<1>2. /\ req[r] \in ReqRec /\ req \in [Request -> ReqRec] /\ files \in [File -> FileRow]
      /\ row \in Row /\ exists \in BOOLEAN /\ checked \subseteq File
  BY DEF PInv, TypeOK, FilesTypeOK
<1>3. /\ req[r].obj \in Row /\ req[r].new \in 0..MaxFiles /\ req[r].src \in 0..MaxFiles
      /\ req[r].pc \in ReqPc /\ req[r].op \in AllOps
  BY <1>2 DEF ReqRec, ReqPc
<1>4. /\ req[r].new # NoKey => req[r].new \in File
      /\ req[r].src # NoKey => req[r].src \in File
  BY <1>3 DEF File, NoKey
<1> QED
  BY <1>1, <1>2, <1>3, <1>4 DEF PInv, KeysUsed, ReqKeys, ColumnsUsed, Used

-----------------------------------------------------------------------------
(* The worker.                                                             *)

\* What the worker does changes the request only.
LEMMA WorkerInv ==
  ASSUME PInv, NEW r \in Request, Worker(r)
  PROVE  PInv' /\ (Atomic /\ AInv => AInv')
<1>0. TypeOK /\ req[r] \in ReqRec
  BY ReqTypes DEF PInv
<1>1. ASSUME NEW ok \in BOOLEAN, RunTransform(r, ok) \/ RunValidation(r, ok) \/ RunExposure(r, ok)
      PROVE  PInv' /\ (Atomic /\ AInv => AInv')
  <2>0. PICK to \in ToRecord : /\ req' = [req EXCEPT ![r].pc = to, ![r].ok = ok]
                               /\ Allowance(to) <= Allowance(req[r].pc)
                               /\ req[r].pc \in AtWorker
    BY <1>1 DEF RunTransform, RunValidation, RunExposure, Answer, ToRecord, AtWorker, Allowance
  <2>1. UNCHANGED <<files, output, conv, row, exists, takenBy>>
    BY <1>1 DEF RunTransform, RunValidation, RunExposure, Answer
  <2>2. checked' \subseteq File
    <3>1. req[r].src # NoKey => req[r].src \in File
      BY ReqTypes DEF File, NoKey
    <3> QED
      BY <1>1, <3>1, ReqTypes DEF RunTransform, RunValidation, RunExposure
  <2>3. PICK k \in ReqRec : k = [req[r] EXCEPT !.pc = to, !.ok = ok]
    <3>1. to \in {"idle"} \cup Mid \cup AtWorker \cup ToRecord \cup Over
      OBVIOUS
    <3> QED
      BY <1>0, <3>1 DEF ReqRec
  <2>4. req' = [req EXCEPT ![r] = k]
    BY <2>0, <2>3, ReqTypes
  <2>5. /\ k.pc = to /\ k.obj = req[r].obj /\ k.new = req[r].new /\ k.src = req[r].src
        /\ k.rivals = req[r].rivals
    BY <1>0, <2>3 DEF ReqRec
  <2>b. /\ Quiet /\ Grows /\ StoreOK /\ Takes(r)
    BY <2>1, NothingQuiet, NothingTaken
  <2>c. NewTransform
    BY <2>1 DEF NewTransform
  <2>d. k.pc # "rec_file"
    BY <2>5 DEF ToRecord
  <2>6. PInv'
    <3>1. \A f \in FileColumns(row') \cup FileColumns(k.obj) \cup ({k.new, k.src} \ {NoKey}) :
            files'[f].at # "unused"
      BY <2>1, <2>5, ReqTypes
    <3>2. \A f \in File : files[f].at = "unused" => files'[f].at = "unused"
      BY <2>1
    <3> QED
      BY <2>0, <2>1, <2>2, <2>4, <2>5, <2>b, <2>d, <3>1, <3>2, ReqTypes, RequestStep
  <2>7. ASSUME Atomic, AInv PROVE AInv'
    <3>1. RowOK'
      BY <2>1, <2>7 DEF AInv, RowOK, Stored
    <3>2. CopyOK(k)'
      BY <2>5 DEF CopyOK, ToRecord
    <3>3. SourceKept(k)'
      <4>1. /\ req[r].pc \notin {"idle"} \cup Over /\ req[r].pc \notin InHandler
            /\ k.pc # "transform" /\ k.pc # "rec_cleared"
        BY <2>0, <2>5, Places DEF ToRecord, AtWorker, InHandler, Over
      <4>2. SourceKept(req[r])
        BY <2>7 DEF AInv
      <4> QED
        BY <2>1, <2>5, <4>1, <4>2 DEF SourceKept
    <3>4. UnderWay(r)
      BY <2>0, Places DEF UnderWay
    <3>5. k.pc \notin Mid /\ k.pc \notin Over /\ k.pc # "idle"
      BY <2>5, Places
    <3> QED
      BY <2>1, <2>4, <2>5, <2>6, <2>7, <2>b, <2>c, <3>1, <3>2, <3>3, <3>4, <3>5, AtomicStep
  <2> QED
    BY <2>6, <2>7
<1>2. CASE TaskDies(r)
  <2>1. PICK k \in ReqRec : /\ req' = [req EXCEPT ![r] = k] /\ k.pc = "dead"
                            /\ k.obj = NewRow /\ k.new \in {NoKey, req[r].new}
                            /\ k.src \in {NoKey, req[r].src}
    BY <1>0, <1>2, CloseIs DEF TaskDies, ReqPc, Over
  <2>2. UNCHANGED <<files, output, conv, row, exists, takenBy, checked>>
    BY <1>2 DEF TaskDies
  <2>b. /\ Quiet /\ Grows /\ StoreOK /\ Takes(r)
    BY <2>2, NothingQuiet, NothingTaken
  <2>c. NewTransform
    BY <2>2 DEF NewTransform
  <2>3. Allowance("dead") <= Allowance(req[r].pc)
    BY DEF Allowance
  <2>4. PInv'
    BY <2>1, <2>2, <2>3, <2>b, NewRowType, ReqTypes, RequestStep
  <2>5. ASSUME Atomic, AInv PROVE AInv'
    <3>1. UnderWay(r)
      BY <1>2, Places DEF TaskDies, UnderWay
    <3>2. RowOK' /\ CopyOK(k)' /\ SourceKept(k)'
      BY <2>1, <2>2, <2>5 DEF AInv, RowOK, CopyOK, SourceKept, Over, Stored
    <3>3. k.pc \notin Mid /\ k.pc \in Over /\ k.pc # "idle"
      BY <2>1, Places DEF Over
    <3> QED
      BY <2>1, <2>2, <2>4, <2>5, <2>b, <2>c, <3>1, <3>2, <3>3, AtomicStep
  <2> QED
    BY <2>4, <2>5
<1> QED
  BY <1>1, <1>2 DEF Worker

-----------------------------------------------------------------------------
(* The handlers.                                                           *)

\* save(update_fields) of a file column.
LEMMA SaveColumnIs ==
  ASSUME NEW row0 \in Row, NEW f \in 0..MaxFiles
  PROVE  /\ [row0 EXCEPT !["location_file"] = f] = [row0 EXCEPT !.location_file = f]
         /\ [row0 EXCEPT !["transform_file"] = f] = [row0 EXCEPT !.transform_file = f]
  BY DEF Row

\* A row with another location file or transform file.
LEMMA ColumnUpdates ==
  ASSUME NEW row0 \in Row, NEW f \in 0..MaxFiles
  PROVE  /\ LET a == [row0 EXCEPT !.location_file = f]
            IN  /\ a \in Row /\ a.location_file = f /\ a.transform_file = row0.transform_file
                /\ a.exposure_run_file = row0.exposure_run_file /\ a.exposure = row0.exposure
         /\ LET b == [row0 EXCEPT !.transform_file = f]
            IN  /\ b \in Row /\ b.transform_file = f /\ b.location_file = row0.location_file
                /\ b.exposure_run_file = row0.exposure_run_file /\ b.exposure = row0.exposure
  BY DEF Row

\* The upload is stored and the column of the old file cleared.
LEMMA ClearOldInv ==
  ASSUME PInv, NEW r \in Request, ClearOld(r)
  PROVE  PInv' /\ (Atomic /\ AInv => AInv')
<1> DEFINE old == req[r].obj.location_file
<1>0. /\ TypeOK /\ req[r] \in ReqRec /\ req[r].obj \in Row /\ req[r].pc = "begun"
      /\ req[r].op \in {"location_file", "delete_location_file"}
      /\ conv' = conv /\ checked' = checked /\ UNCHANGED <<output, takenBy>>
      /\ row \in Row /\ files \in [File -> FileRow]
  BY ReqTypes DEF PInv, ClearOld
<1>a. UnderWay(r) /\ req[r].pc \in Mid /\ Allowance(req[r].pc) = 2
  BY <1>0 DEF UnderWay, Over, Mid, InHandler, Allowance
<1>c. NewFile \in File /\ files[NewFile].at = "unused" /\ NewFile # NoKey /\ NewFile \in 0..MaxFiles
  BY <1>a, NewFileUnused DEF PInv, Rest, File, NoKey
<1>1. PICK new \in 0..MaxFiles :
        /\ new # NoKey => new \in File /\ files[new].at = "unused"
        /\ req[r].op = "location_file" => new = NewFile /\ new # NoKey
        /\ req[r].op # "location_file" => new = NoKey
        /\ files' = IF new = NoKey THEN files ELSE [files EXCEPT ![new] = Fresh]
        /\ req' = IF old = NoKey /\ new = NoKey THEN Close(r, "done")
                  ELSE [req EXCEPT ![r].new = new,
                                   ![r].pc = IF old # NoKey THEN "cleared" ELSE "removed"]
        /\ IF old # NoKey THEN SaveColumn("location_file", NoKey) ELSE UNCHANGED <<row, exists>>
  <2>1. CASE req[r].op = "location_file"
    BY <1>c, <2>1 DEF ClearOld
  <2>2. CASE req[r].op # "location_file"
    <3>1. NoKey \in 0..MaxFiles
      BY DEF NoKey
    <3> QED
      BY <2>2, <3>1 DEF ClearOld
  <2> QED
    BY <2>1, <2>2
<1>3. /\ files' \in [File -> FileRow] /\ Quiet
      /\ \A f \in File : f # new => files'[f] = files[f]
      /\ new # NoKey => files'[new] = Fresh
  <2>1. CASE new = NoKey
    BY <1>0, <1>1, <2>1, NothingQuiet
  <2>2. CASE new # NoKey
    BY <1>0, <1>1, <2>2, FreshType DEF Quiet
  <2> QED
    BY <2>1, <2>2
<1>4. \/ /\ \A f \in File : files[f].at = "unused" => files'[f].at = "unused"
         /\ new = NoKey
      \/ \A f \in File : files'[f].at = "unused" <=> files[f].at = "unused" /\ f # NewFile
  BY <1>1, <1>3, FreshType DEF File, NoKey
<1>d. Grows /\ StoreOK /\ Takes(r)
  BY <1>0, <1>3, QuietGrows, NothingTaken
<1>b. /\ \A f \in FileColumns(row) : f \in File /\ f # new /\ f # NoKey
      /\ \A f \in FileColumns(req[r].obj) : f \in File /\ f # new /\ f # NoKey
  BY <1>1, ReqTypes
<1>5. /\ exists' = exists
      /\ row' \in {row, [row EXCEPT !.location_file = NoKey]}
      /\ old # NoKey /\ exists => row' = [row EXCEPT !.location_file = NoKey]
      /\ old = NoKey => row' = row
  BY <1>0, <1>1, SaveColumnIs DEF SaveColumn, NoKey
<1>6. /\ row' \in Row /\ FileColumns(row') \subseteq FileColumns(row)
      /\ row'.exposure = row.exposure /\ row'.exposure_run_file = row.exposure_run_file
      /\ Apart(row) => Apart(row')
      /\ row'.transform_file = row.transform_file
  <2> DEFINE a == [row EXCEPT !.location_file = NoKey]
  <2>1. NoKey \in 0..MaxFiles
    BY DEF NoKey
  <2>2. /\ a \in Row /\ a.location_file = NoKey /\ a.transform_file = row.transform_file
        /\ a.exposure_run_file = row.exposure_run_file /\ a.exposure = row.exposure
    BY <1>0, <2>1, ColumnUpdates
  <2>3. row' = row \/ row' = a
    BY <1>5
  <2> HIDE DEF a
  <2> QED
    BY <1>0, <2>2, <2>3 DEF FileColumns, Apart
<1>e. NewTransform
  BY <1>6 DEF NewTransform
<1>7. CASE old = NoKey /\ new = NoKey
  <2>1. PICK k \in ReqRec : /\ req' = [req EXCEPT ![r] = k] /\ k.pc = "done"
                            /\ k.obj = NewRow /\ k.new \in {NoKey, req[r].new}
                            /\ k.src \in {NoKey, req[r].src}
    BY <1>0, <1>1, <1>7, CloseIs DEF ReqPc, Over
  <2>2. Allowance(k.pc) = 0 /\ files' = files /\ row' = row
    BY <1>1, <1>5, <1>7, <2>1 DEF Allowance
  <2>3. PInv'
    <3>1. \A f \in FileColumns(row') \cup FileColumns(k.obj) \cup ({k.new, k.src} \ {NoKey}) :
            files'[f].at # "unused"
      BY <2>1, <2>2, NewRowType, ReqTypes
    <3>2. Allowance(k.pc) <= Allowance(req[r].pc) /\ exists' \in BOOLEAN /\ checked' \subseteq File
      BY <1>0, <1>5, <1>a, <2>2, ReqTypes
    <3> QED
      BY <1>0, <1>3, <1>6, <1>d, <2>1, <2>2, <3>1, <3>2, RequestStep
  <2>4. ASSUME Atomic, AInv PROVE AInv'
    <3>1. RowOK' /\ CopyOK(k)' /\ SourceKept(k)'
      BY <1>0, <1>5, <2>1, <2>2, <2>4 DEF AInv, RowOK, CopyOK, SourceKept, Over, Stored
    <3> QED
      BY <1>0, <1>3, <1>a, <1>d, <1>e, <2>1, <2>3, <2>4, <3>1, AtomicStep DEF Over
  <2> QED
    BY <2>3, <2>4
<1>8. CASE ~(old = NoKey /\ new = NoKey)
  <2> DEFINE pc0 == IF old # NoKey THEN "cleared" ELSE "removed"
  <2>1. PICK k \in ReqRec : k = [req[r] EXCEPT !.new = new, !.pc = pc0]
    BY <1>0 DEF ReqRec, Mid, InHandler
  <2>2. req' = [req EXCEPT ![r] = k]
    BY <1>1, <1>8, <2>1, ReqTypes
  <2>3. /\ k.pc = pc0 /\ k.obj = req[r].obj /\ k.new = new /\ k.rivals = req[r].rivals
        /\ k.op = req[r].op /\ k.src = req[r].src
    BY <1>0, <2>1 DEF ReqRec
  <2>4. Allowance(k.pc) = 0 /\ k.pc \in {"cleared", "removed"}
    BY <2>3 DEF Allowance
  <2>5. \A f \in FileColumns(row') \cup FileColumns(k.obj) \cup ({k.new, k.src} \ {NoKey}) :
          files'[f].at # "unused"
    BY <1>3, <1>6, <1>b, <1>d, <2>3, FreshType, ReqTypes DEF Grows
  <2>6. PInv'
    <3>1. Allowance(k.pc) + 1 <= Allowance(req[r].pc) /\ Allowance(k.pc) <= Allowance(req[r].pc)
      BY <1>a, <2>4
    <3>2. exists' \in BOOLEAN /\ checked' \subseteq File
      BY <1>0, <1>5, ReqTypes
    <3> QED
      BY <1>0, <1>3, <1>4, <1>6, <1>d, <2>2, <2>4, <2>5, <3>1, <3>2, RequestStep
  <2>7. ASSUME Atomic, AInv PROVE AInv'
    <3>0. exists /\ req[r].obj = row /\ Apart(row)
      BY <1>0, <2>7 DEF AInv, RowOK, CopyOK
    <3>1. RowOK'
      <4>1. Apart(row')
        BY <1>6, <3>0
      <4>2. row'.exposure = row.exposure /\ row'.exposure_run_file = row.exposure_run_file
        BY <1>6
      <4>3. \A f \in FileColumns(row') : files'[f].at = "live" /\ takenBy'[f] = 0
        BY <1>0, <1>3, <1>6, <1>b, <2>7 DEF AInv, RowOK, Stored
      <4> QED
        BY <1>5, <2>7, <4>1, <4>2, <4>3 DEF AInv, RowOK, Apart, FileColumns, Stored
    <3>2. CopyOK(k)'
      <4>1. /\ new # NoKey => files'[new].at = "live" /\ new \notin FileColumns(row')
            /\ new # NoKey => takenBy'[new] = 0
        <5>1. new # NoKey => takenBy[new] = 0
          BY <1>1 DEF PInv, KeysUsed, TakenKeys, Used
        <5> QED
          BY <1>0, <1>3, <1>6, <1>b, <5>1, FreshType
      <4>2. k.pc = "cleared" => /\ row' = [k.obj EXCEPT !.location_file = NoKey]
                                /\ Apart(k.obj)
                                /\ k.op = "location_file" => k.new # k.obj.location_file
        <5>1. old # NoKey => old \in FileColumns(req[r].obj)
          BY DEF FileColumns
        <5> QED
          BY <1>5, <1>b, <2>3, <3>0, <5>1
      <4>3. k.pc = "removed" \/ (k.pc = "cleared" /\ k.op = "location_file") => k.new # NoKey
        BY <1>1, <1>8, <2>3
      <4> QED
        BY <2>3, <2>4, <4>1, <4>2, <4>3 DEF CopyOK, Stored, Apart, FileColumns
    <3>3. SourceKept(k)'
      BY <2>4 DEF SourceKept, InHandler
    <3>4. k.pc \notin Over /\ k.pc # "idle"
      BY <2>4 DEF Over
    <3> QED
      BY <1>0, <1>3, <1>a, <1>d, <1>e, <2>2, <2>3, <2>6, <2>7, <3>1, <3>2, <3>3, <3>4, AtomicStep
  <2> QED
    BY <2>6, <2>7
<1> QED
  BY <1>7, <1>8

\* delete() of a file row.
LEMMA DeleteFileIs ==
  ASSUME PInv, NEW r \in Request, NEW f, DeleteFile(r, f), f \in File => files[f].at # "unused"
  PROVE  /\ files' \in [File -> FileRow] /\ Quiet /\ Grows /\ StoreOK /\ Takes(r)
         /\ \A g \in File : g # f => takenBy'[g] = takenBy[g]
         /\ \A g \in File : g # f => files'[g] = files[g]
         /\ \A g \in File : files[g].at = "unused" => files'[g].at = "unused"
         /\ \A g \in File : files[g].at # "unused" => files'[g].at # "unused"
         /\ row' \in Row /\ exists' \in BOOLEAN /\ FileColumns(row') \subseteq FileColumns(row)
         /\ f \notin FileColumns(row) => row' = row /\ exists' = exists
         /\ NewTransform
<1>0. files \in [File -> FileRow] /\ row \in Row /\ exists \in BOOLEAN
  BY ReqTypes
<1> DEFINE gone == [Unused EXCEPT !.at = "deleted"]
<1>1. gone \in FileRow /\ gone.at = "deleted"
  BY FreshType
<1>2. files' = [files EXCEPT ![f] = gone]
  BY DEF DeleteFile
<1>3. Quiet
  BY <1>0, <1>2 DEF Quiet
<1> HIDE DEF gone
<1>4. /\ files' \in [File -> FileRow]
      /\ \A g \in File : g # f => files'[g] = files[g]
      /\ \A g \in File : files[g].at = "unused" => files'[g].at = "unused"
      /\ \A g \in File : files[g].at # "unused" => files'[g].at # "unused"
  BY <1>0, <1>1, <1>2
<1>5. exists' \in BOOLEAN /\ (f \notin FileColumns(row) => exists' = exists)
  BY <1>0, Zenon DEF DeleteFile
<1>6. /\ row' \in Row /\ FileColumns(row') \subseteq FileColumns(row)
      /\ f \notin FileColumns(row) => row' = row
  BY <1>0, NewRowType DEF DeleteFile
<1>7. NewTransform
  <2>1. row' = row \/ row' = NewRow
    BY DEF DeleteFile
  <2>2. NewRow.transform_file = NoKey
    BY DEF NewRow
  <2> QED
    BY <2>1, <2>2 DEF NewTransform
<1>8. /\ output' \in [File -> 0..MaxConvs] /\ takenBy' \in [File -> 0..MaxRequests]
      /\ \A g \in File : g # f => takenBy'[g] = takenBy[g] /\ output'[g] = output[g]
      /\ f \in File => takenBy'[f] = r
  <2>1. output \in [File -> 0..MaxConvs] /\ takenBy \in [File -> 0..MaxRequests]
    BY DEF PInv, TypeOK, FilesTypeOK
  <2>2. r \in 0..MaxRequests /\ NoKey \in 0..MaxConvs
    BY DEF Request, NoKey
  <2>3. PICK x : output' = [output EXCEPT ![f] = x] /\ (x = NoKey \/ x = output[f])
    <3>1. output' = [output EXCEPT ![f] = IF files[f].converted THEN NoKey ELSE output[f]]
      BY DEF DeleteFile
    <3> QED
      BY <3>1
  <2>4. takenBy' = [takenBy EXCEPT ![f] = r]
    BY DEF DeleteFile
  <2> QED
    BY <2>1, <2>2, <2>3, <2>4
<1>9. StoreOK
  <2>1. \A g \in File : takenBy[g] # 0 => files[g].at # "unused"
    BY DEF PInv, KeysUsed, TakenKeys, Used
  <2> QED
    BY <1>4, <1>8, <2>1 DEF StoreOK
<1>10. Takes(r)
  <2>1. r # 0
    BY DEF Request
  <2> QED
    BY <1>8, <2>1 DEF Takes
<1>11. Grows
  BY <1>4 DEF Grows
<1> QED
  BY <1>3, <1>4, <1>5, <1>6, <1>7, <1>8, <1>9, <1>10, <1>11

\* The old file is deleted after its column was cleared.
LEMMA RemoveOldInv ==
  ASSUME PInv, NEW r \in Request, RemoveOld(r)
  PROVE  PInv' /\ (Atomic /\ AInv => AInv')
<1> DEFINE f == req[r].obj.location_file
<1>0. /\ TypeOK /\ req[r] \in ReqRec /\ req[r].obj \in Row /\ req[r].pc = "cleared"
      /\ conv' = conv /\ checked' = checked /\ DeleteFile(r, f)
  BY ReqTypes DEF PInv, RemoveOld
<1>a. UnderWay(r) /\ req[r].pc \in Mid /\ Allowance(req[r].pc) = 0
  BY <1>0 DEF UnderWay, Over, Mid, InHandler, Allowance
<1>b. f \in File => files[f].at # "unused"
  <2>1. f \in File => f \in FileColumns(req[r].obj)
    BY DEF FileColumns, NoKey, File
  <2> QED
    BY <2>1, ReqTypes
<1>1. PICK k \in ReqRec : /\ req' = [req EXCEPT ![r] = k] /\ k.pc \in {"removed", "done"}
                          /\ k.obj \in {NewRow, req[r].obj} /\ k.new \in {NoKey, req[r].new}
                          /\ k.src \in {NoKey, req[r].src}
                          /\ k.pc = "removed" => /\ k.rivals = req[r].rivals /\ k.new = req[r].new
                                                 /\ req[r].op = "location_file"
  <2>1. CASE req[r].op = "location_file"
    <3>1. PICK k \in ReqRec : k = [req[r] EXCEPT !.pc = "removed"]
      BY <1>0 DEF ReqRec, Mid, InHandler
    <3>2. req' = [req EXCEPT ![r] = k]
      BY <2>1, <3>1, ReqTypes DEF RemoveOld
    <3>3. /\ k.pc = "removed" /\ k.obj = req[r].obj /\ k.new = req[r].new
          /\ k.rivals = req[r].rivals /\ k.src = req[r].src
      BY <1>0, <3>1 DEF ReqRec
    <3> QED
      BY <2>1, <3>2, <3>3
  <2>2. CASE req[r].op # "location_file"
    <3>1. req' = Close(r, "done") /\ "done" \in ReqPc
      BY <2>2 DEF RemoveOld, ReqPc, Over
    <3> QED
      BY <1>0, <3>1, CloseIs
  <2> QED
    BY <2>1, <2>2
<1>2. Allowance(k.pc) = 0
  BY <1>1 DEF Allowance
<1>3. PInv'
  <2>1. \A g \in FileColumns(row') \cup FileColumns(k.obj) \cup ({k.new, k.src} \ {NoKey}) :
          files'[g].at # "unused"
    BY <1>0, <1>1, <1>b, DeleteFileIs, NewRowType, ReqTypes DEF Grows
  <2>2. Allowance(k.pc) <= Allowance(req[r].pc) /\ checked' \subseteq File
    BY <1>0, <1>2, <1>a, ReqTypes
  <2> QED
    BY <1>0, <1>1, <1>b, <2>1, <2>2, DeleteFileIs, RequestStep
<1>4. ASSUME Atomic, AInv PROVE AInv'
  <2>1. row = [req[r].obj EXCEPT !.location_file = NoKey] /\ Apart(req[r].obj)
    BY <1>0, <1>4 DEF AInv, CopyOK
  <2>2. f \notin FileColumns(row)
    <3>1. /\ row.location_file = NoKey /\ row.transform_file = req[r].obj.transform_file
          /\ row.exposure_run_file = req[r].obj.exposure_run_file
      BY <1>0, <2>1 DEF Row
    <3> QED
      BY <2>1, <3>1 DEF Apart, FileColumns
  <2>3. row' = row /\ exists' = exists 
        /\ \A g \in FileColumns(row) : files'[g] = files[g] /\ takenBy'[g] = takenBy[g]
    BY <1>0, <1>b, <2>2, DeleteFileIs, ReqTypes
  <2>4. RowOK'
    BY <1>4, <2>3 DEF AInv, RowOK, Apart, Stored
  <2>5. CopyOK(k)'
    <3>1. k.pc = "removed" => /\ req[r].new # NoKey /\ Stored(req[r].new)
                              /\ req[r].new \notin FileColumns(row) /\ req[r].new # f
      BY <1>0, <1>1, <1>4 DEF AInv, CopyOK
    <3>2. k.pc = "removed" => files'[k.new] = files[k.new] /\ takenBy'[k.new] = takenBy[k.new]
      BY <1>0, <1>1, <1>b, <3>1, DeleteFileIs, ReqTypes
    <3> QED
      BY <1>1, <2>3, <3>1, <3>2 DEF CopyOK, Stored
  <2>6. SourceKept(k)'
    BY <1>1 DEF SourceKept, InHandler, Over
  <2>7. /\ Quiet /\ Takes(r) /\ NewTransform
        /\ k.pc # "idle" /\ (k.pc \notin Over => k.rivals = req[r].rivals)
    BY <1>0, <1>1, <1>b, DeleteFileIs DEF Over
  <2> QED
    BY <1>0, <1>1, <1>3, <1>4, <1>a, <2>4, <2>5, <2>6, <2>7, AtomicStep
<1> QED
  BY <1>3, <1>4

\* The new file takes the place of the old one.
LEMMA AttachNewInv ==
  ASSUME PInv, NEW r \in Request, AttachNew(r)
  PROVE  PInv' /\ (Atomic /\ AInv => AInv')
<1> DEFINE f == req[r].new
<1>0. /\ TypeOK /\ req[r] \in ReqRec /\ req[r].pc = "removed" /\ row \in Row /\ f \in 0..MaxFiles
      /\ conv' = conv /\ checked' = checked /\ files' = files /\ exists' = exists
      /\ files \in [File -> FileRow] /\ UNCHANGED <<output, takenBy>>
  BY ReqTypes DEF PInv, AttachNew, SaveColumn
<1>a. UnderWay(r) /\ req[r].pc \in Mid /\ Allowance(req[r].pc) = 0
  BY <1>0 DEF UnderWay, Over, Mid, InHandler, Allowance
<1>1. PICK k \in ReqRec : /\ req' = [req EXCEPT ![r] = k] /\ k.pc = "done"
                          /\ k.obj = NewRow /\ k.new \in {NoKey, req[r].new}
                          /\ k.src \in {NoKey, req[r].src}
  BY <1>0, CloseIs DEF AttachNew, ReqPc, Over
<1>2. row' = IF exists THEN [row EXCEPT !.location_file = f] ELSE row
  BY <1>0, SaveColumnIs DEF AttachNew, SaveColumn
<1> DEFINE a == [row EXCEPT !.location_file = f]
<1>b. /\ a \in Row /\ a.location_file = f /\ a.transform_file = row.transform_file
      /\ a.exposure_run_file = row.exposure_run_file /\ a.exposure = row.exposure
  BY <1>0, ColumnUpdates
<1>3. row' = row \/ row' = a
  BY <1>2
<1> HIDE DEF a, f
<1>4. row' \in Row /\ FileColumns(row') \subseteq FileColumns(row) \cup ({f} \ {NoKey})
  BY <1>0, <1>b, <1>3 DEF FileColumns
<1>c. Quiet /\ Grows /\ StoreOK /\ Takes(r)
  BY <1>0, NothingQuiet, NothingTaken
<1>d. NewTransform
  BY <1>b, <1>3 DEF NewTransform
<1>5. PInv'
  <2>1. \A g \in FileColumns(row') \cup FileColumns(k.obj) \cup ({k.new, k.src} \ {NoKey}) :
          files'[g].at # "unused"
    BY <1>0, <1>1, <1>4, NewRowType, ReqTypes DEF f
  <2>2. Allowance(k.pc) <= Allowance(req[r].pc) /\ checked' \subseteq File /\ exists' \in BOOLEAN
    BY <1>0, <1>1, <1>a, ReqTypes DEF Allowance
  <2> QED
    BY <1>0, <1>1, <1>4, <1>c, <2>1, <2>2, RequestStep
<1>6. ASSUME Atomic, AInv PROVE AInv'
  <2>1. files[f].at = "live" /\ takenBy[f] = 0 /\ f \notin FileColumns(row)
    BY <1>0, <1>6 DEF AInv, CopyOK, Stored, f
  <2>2. Apart(row) => Apart(row')
    BY <1>b, <1>3, <2>1 DEF Apart, FileColumns
  <2>3. row'.exposure = row.exposure /\ row'.exposure_run_file = row.exposure_run_file
    BY <1>b, <1>3
  <2>4. \A g \in FileColumns(row') : files'[g].at = "live" /\ takenBy'[g] = 0
    BY <1>0, <1>4, <1>6, <2>1 DEF AInv, RowOK, Stored
  <2>5. RowOK'
    BY <1>0, <1>6, <2>2, <2>3, <2>4 DEF AInv, RowOK, Apart, FileColumns, Stored
  <2>6. CopyOK(k)' /\ SourceKept(k)'
    BY <1>1 DEF CopyOK, SourceKept, Over
  <2> QED
    BY <1>0, <1>1, <1>5, <1>6, <1>a, <1>c, <1>d, <2>5, <2>6, AtomicStep DEF Over
<1> QED
  BY <1>5, <1>6

\* A row of the file table is created.
LEMMA CreateIs ==
  ASSUME PInv, NEW r \in Request, Allowance(req[r].pc) >= 1
  PROVE  LET t == [files EXCEPT ![NewFile] = Fresh]
         IN  /\ t \in [File -> FileRow]
             /\ NewFile \in File /\ NewFile # NoKey /\ NewFile \in 0..MaxFiles
             /\ files[NewFile].at = "unused" /\ t[NewFile].at = "live"
             /\ \A f \in File : f # NewFile => t[f] = files[f]
             /\ \A f \in File : t[f].at = "unused" <=> files[f].at = "unused" /\ f # NewFile
             /\ files' = t => Quiet
             /\ takenBy[NewFile] = 0
<1>1. /\ NewFile \in File /\ files[NewFile].at = "unused" /\ NewFile # NoKey
      /\ NewFile \in 0..MaxFiles
  BY NewFileUnused DEF PInv, Rest, File, NoKey
<1>2. files \in [File -> FileRow]
  BY ReqTypes
<1>3. takenBy[NewFile] = 0
  BY <1>1 DEF PInv, KeysUsed, TakenKeys, Used
<1> QED
  BY <1>1, <1>2, <1>3, FreshType DEF Quiet

\* The objects that validate(), exposure_run() and exposure_transform() save.
LEMMA StartedIs ==
  ASSUME PInv, NEW r \in Request, NEW f \in 0..MaxFiles,
         req[r].op \in {"validate", "exposure_run", "exposure_transform"}
  PROVE  LET obj == req[r].obj
             s == Started(r, f)
         IN  /\ s \in Row
             /\ s.location_file = obj.location_file /\ s.exposure_run_file = obj.exposure_run_file
             /\ s.transform_file = IF req[r].op = "exposure_transform" THEN f ELSE obj.transform_file
             /\ s.exposure = "RUN_COMPLETED" => obj.exposure = "RUN_COMPLETED"
<1>0. req[r].obj \in Row
  BY ReqTypes
<1>1. CASE req[r].op = "validate"
  <2>1. Started(r, f) = [req[r].obj EXCEPT !.validation = "STARTED"]
    BY <1>1 DEF Started
  <2> QED
    BY <1>0, <1>1, <2>1 DEF Row, PStatus
<1>2. CASE req[r].op = "exposure_run"
  <2>1. \E st \in {"INSUFFICIENT_DATA", "STARTED"} :
          Started(r, f) = [req[r].obj EXCEPT !.exposure = st]
    BY <1>2 DEF Started
  <2> QED
    BY <1>0, <1>2, <2>1 DEF Row, PStatus
<1>3. CASE req[r].op = "exposure_transform"
  <2>1. Started(r, f) = [req[r].obj EXCEPT !.transform_file = f, !.transform = "STARTED",
                                           !.validation = "STARTED"]
    BY <1>3 DEF Started
  <2> QED
    BY <1>0, <1>3, <2>1 DEF Row, PStatus
<1> QED
  BY <1>1, <1>2, <1>3

\* The row is saved with the status of work that has started, and its task sent.
LEMMA SaveAndSendInv ==
  ASSUME PInv, NEW r \in Request, SaveAndSend(r)
  PROVE  PInv' /\ (Atomic /\ AInv => AInv')
<1>0. /\ TypeOK /\ req[r] \in ReqRec /\ req[r].obj \in Row /\ req[r].pc = "begun" /\ row \in Row
      /\ req[r].op \in {"validate", "exposure_run", "exposure_transform"}
      /\ conv' = conv /\ checked' = checked /\ UNCHANGED <<output, takenBy>> /\ files \in [File -> FileRow]
      /\ req[r].src \in 0..MaxFiles /\ req \in [Request -> ReqRec]
  BY ReqTypes DEF PInv, SaveAndSend
<1>a. UnderWay(r) /\ req[r].pc \in Mid /\ Allowance(req[r].pc) = 2
  BY <1>0 DEF UnderWay, Over, Mid, InHandler, Allowance
<1>1. PICK f \in 0..MaxFiles :
        /\ f = IF req[r].op = "exposure_transform" THEN NewFile ELSE NoKey
        /\ f # NoKey => f = NewFile
        /\ req[r].op = "exposure_transform" <=> f # NoKey
  <2>1. NewFile \in 0..MaxFiles /\ NewFile # NoKey
    BY <1>a, CreateIs
  <2>2. NoKey \in 0..MaxFiles
    BY DEF NoKey
  <2> QED
    BY <2>1, <2>2
<1>2. files' = IF f = NoKey THEN files ELSE [files EXCEPT ![f] = Fresh]
  BY <1>1 DEF SaveAndSend
<1>3. /\ files' \in [File -> FileRow] /\ Quiet
      /\ \A g \in File : files[g].at # "unused" => files'[g] = files[g]
      /\ f # NoKey => f \in File /\ files[f].at = "unused" /\ files'[f].at = "live"
      /\ f # NoKey => takenBy[f] = 0
      /\ f = NoKey => files' = files
      /\ f # NoKey => \A g \in File : files'[g].at = "unused" <=> files[g].at = "unused" /\ g # NewFile
  <2>1. CASE f = NoKey
    BY <1>0, <1>2, <2>1, NothingQuiet
  <2>2. CASE f # NoKey
    <3>1. files' = [files EXCEPT ![NewFile] = Fresh] /\ f = NewFile
      BY <1>1, <1>2, <2>2
    <3> QED
      BY <1>a, <2>2, <3>1, CreateIs
  <2> QED
    BY <2>1, <2>2
<1>b. Grows /\ StoreOK /\ Takes(r)
  BY <1>0, <1>3, QuietGrows, NothingTaken
<1>4. PICK obj \in Row : /\ obj = Started(r, f)
                         /\ obj.location_file = req[r].obj.location_file
                         /\ obj.exposure_run_file = req[r].obj.exposure_run_file
                         /\ f # NoKey => obj.transform_file = f
                         /\ f = NoKey => obj.transform_file = req[r].obj.transform_file
                         /\ obj.exposure = "RUN_COMPLETED" => req[r].obj.exposure = "RUN_COMPLETED"
  BY <1>0, <1>1, StartedIs
<1>5. PICK pc \in {"validate", "done", "exposure", "transform"} :
        /\ pc = FirstTask(r) /\ (pc = "transform" <=> f # NoKey)
  BY <1>0, <1>1 DEF FirstTask
<1>6. \/ /\ row' = obj /\ exists' = TRUE
         /\ req' = IF pc = "done" THEN Close(r, "done")
                   ELSE [req EXCEPT ![r].pc = pc, ![r].obj = NewRow,
                                    ![r].src = req[r].obj.location_file, ![r].new = f]
      \/ /\ \E g \in FileColumns(obj) : files'[g].at # "live"
         /\ row' = row /\ exists' = exists /\ req' = Close(r, "done")
  <2>1. IF \A g \in FileColumns(obj) : files'[g].at = "live"
        THEN /\ row' = obj /\ exists' = TRUE
             /\ req' = IF pc = "done" THEN Close(r, "done")
                       ELSE [req EXCEPT ![r].pc = pc, ![r].obj = NewRow,
                                        ![r].src = req[r].obj.location_file, ![r].new = f]
        ELSE row' = row /\ exists' = exists /\ req' = Close(r, "done")
    BY <1>1, <1>4, <1>5 DEF SaveAndSend
  <2> QED
    BY <2>1
<1>7. PICK k \in ReqRec :
        /\ req' = [req EXCEPT ![r] = k] /\ k.pc \in {pc, "done"} /\ k.obj = NewRow
        /\ k.new \in {NoKey, req[r].new, f}
        /\ k.src \in {NoKey, req[r].src, req[r].obj.location_file}
        /\ k.pc # "done" => /\ k.new = f /\ k.src = req[r].obj.location_file
                            /\ k.rivals = req[r].rivals
  <2>1. CASE req' = Close(r, "done")
    <3>1. "done" \in ReqPc
      BY DEF ReqPc, Over
    <3> QED
      BY <1>0, <2>1, <3>1, CloseIs
  <2>2. CASE /\ req' = [req EXCEPT ![r].pc = pc, ![r].obj = NewRow,
                                   ![r].src = req[r].obj.location_file, ![r].new = f]
    <3> DEFINE src == req[r].obj.location_file
               k   == [req[r] EXCEPT !.pc = pc, !.obj = NewRow, !.src = src, !.new = f]
    <3>1. src \in 0..MaxFiles
      BY <1>0 DEF Row
    <3>2. req' = [req EXCEPT ![r] = k]
      BY <1>0, <2>2
    <3> HIDE DEF src
    <3>3. k \in ReqRec
      BY <1>0, <3>1, NewRowType DEF ReqRec, AtWorker, Over
    <3>4. k.pc = pc /\ k.obj = NewRow /\ k.new = f /\ k.src = src /\ k.rivals = req[r].rivals
      BY <1>0 DEF ReqRec
    <3> HIDE DEF k
    <3> QED
      BY <3>2, <3>3, <3>4 DEF src
  <2> QED
    BY <1>6, <2>1, <2>2
<1>8. FileColumns(obj) \subseteq FileColumns(req[r].obj) \cup ({f} \ {NoKey})
  BY <1>4 DEF FileColumns
<1>9. PInv'
  <2>1. \A g \in FileColumns(row') \cup FileColumns(k.obj) \cup ({k.new, k.src} \ {NoKey}) :
          files'[g].at # "unused"
    <3>1. \A g \in File : files[g].at # "unused" => files'[g].at # "unused"
      BY <1>b DEF Grows
    <3>2. req[r].obj.location_file # NoKey => req[r].obj.location_file \in FileColumns(req[r].obj)
      BY DEF FileColumns
    <3>3. \A g \in FileColumns(req[r].obj) \cup ({req[r].src, req[r].new, f} \ {NoKey}) :
            files'[g].at # "unused"
      BY <1>3, <3>1, ReqTypes
    <3>4. \A g \in FileColumns(row) : files'[g].at # "unused"
      BY <3>1, ReqTypes
    <3> QED
      BY <1>6, <1>7, <1>8, <3>2, <3>3, <3>4, NewRowType
  <2>2. checked' \subseteq File /\ exists' \in BOOLEAN /\ row' \in Row
    BY <1>0, <1>4, <1>6, ReqTypes
  <2>3. \/ /\ \A g \in File : files[g].at = "unused" => files'[g].at = "unused"
           /\ Allowance(k.pc) <= Allowance(req[r].pc)
        \/ /\ \A g \in File : files'[g].at = "unused" <=> files[g].at = "unused" /\ g # NewFile
           /\ Allowance(k.pc) + 1 <= Allowance(req[r].pc)
    <3>1. Allowance(k.pc) <= 1 /\ Allowance(k.pc) \in Nat
      BY <1>7 DEF Allowance
    <3> QED
      BY <1>3, <1>a, <3>1
  <2> QED
    <3>1. k.pc # "rec_file"
      BY <1>7
    <3> QED
      BY <1>0, <1>3, <1>7, <1>b, <2>1, <2>2, <2>3, <3>1, RequestStep
<1>10. ASSUME Atomic, AInv PROVE AInv'
  <2>0. req[r].obj = row /\ RowOK
    BY <1>0, <1>10 DEF AInv, CopyOK
  <2>1. \A g \in FileColumns(obj) : files'[g].at = "live" /\ takenBy'[g] = 0
    BY <1>0, <1>3, <1>8, <2>0, ReqTypes DEF RowOK, Stored
  <2>2. row' = obj /\ exists' = TRUE
    BY <1>6, <2>1
  <2>3. f \notin FileColumns(row)
    BY <1>3, ReqTypes
  <2>4. RowOK'
    <3>1. Apart(obj)
      BY <1>4, <2>0, <2>3 DEF RowOK, Apart, FileColumns
    <3>2. obj.exposure = "RUN_COMPLETED" => obj.exposure_run_file # NoKey
      BY <1>4, <2>0 DEF RowOK
    <3> QED
      BY <2>1, <2>2, <3>1, <3>2 DEF RowOK, Apart, FileColumns, Stored
  <2>5. CopyOK(k)'
    BY <1>7 DEF CopyOK
  <2>6. SourceKept(k)'
    <3>1. k.pc # "done" /\ k.src # NoKey => takenBy'[k.src] = 0 /\ k.src # row'.transform_file
      <4>1. k.pc # "done" => k.src = row'.location_file
        BY <1>4, <1>7, <2>2
      <4>2. row'.location_file # NoKey => /\ takenBy'[row'.location_file] = 0
                                          /\ row'.location_file # row'.transform_file
        BY <2>4 DEF RowOK, Apart, FileColumns, Stored
      <4> QED
        BY <4>1, <4>2
    <3>2. k.pc = "transform" => k.new # NoKey /\ takenBy'[k.new] = 0
      BY <1>0, <1>3, <1>5, <1>7
    <3>3. k.pc # "rec_cleared" /\ (k.pc = "done" <=> k.pc \in Over)
      BY <1>7 DEF Over
    <3> QED
      BY <3>1, <3>2, <3>3 DEF SourceKept
  <2>7. /\ k.pc \notin Mid /\ k.pc # "idle"
        /\ k.pc \notin Over => k.rivals = req[r].rivals
    BY <1>7 DEF Mid, InHandler, InRecorder, Over
  <2>8. NewTransform
    BY <1>3, <1>4, <2>0, <2>2 DEF NewTransform
  <2> QED
    BY <1>0, <1>3, <1>7, <1>9, <1>10, <1>a, <1>b, <2>4, <2>5, <2>6, <2>7, <2>8, AtomicStep
<1> QED
  BY <1>9, <1>10

-----------------------------------------------------------------------------
(* The recorders.                                                          *)

\* The recorder reads the row; without it, it dies.
LEMMA ReadRowInv ==
  ASSUME PInv, NEW r \in Request, ReadRow(r)
  PROVE  PInv' /\ (Atomic /\ AInv => AInv')
<1>0. /\ TypeOK /\ req[r] \in ReqRec /\ req[r].pc \in ToRecord /\ row \in Row
      /\ req \in [Request -> ReqRec] /\ UNCHANGED <<files, output, conv, row, exists, takenBy, checked>>
      /\ Idle /\ ConvIdle
  BY ReqTypes DEF PInv, ReadRow
<1>a. UnderWay(r)
  BY <1>0, Places DEF UnderWay
<1>1. PICK k \in ReqRec :
        /\ req' = [req EXCEPT ![r] = k] /\ k.obj \in {NewRow, row} /\ k.new \in {NoKey, req[r].new}
        /\ k.src \in {NoKey, req[r].src}
        /\ \/ k.pc = "dead" /\ ~exists
           \/ /\ k.pc = RecorderOf(req[r].pc) /\ k.obj = row /\ k.src = req[r].src
              /\ k.rivals = req[r].rivals
  <2>1. CASE exists
    <3> DEFINE pc == RecorderOf(req[r].pc)
               k  == [req[r] EXCEPT !.pc = pc, !.obj = row]
    <3>1. pc \in InRecorder
      BY <1>0 DEF RecorderOf, ToRecord, InRecorder
    <3>2. req' = [req EXCEPT ![r] = k]
      BY <1>0, <2>1 DEF ReadRow
    <3> HIDE DEF pc
    <3>3. k \in ReqRec
      BY <1>0, <3>1 DEF ReqRec, Mid
    <3>4. /\ k.pc = pc /\ k.obj = row /\ k.new = req[r].new /\ k.src = req[r].src
          /\ k.rivals = req[r].rivals
      BY <1>0 DEF ReqRec
    <3> HIDE DEF k
    <3> QED
      BY <3>2, <3>3, <3>4 DEF pc
  <2>2. CASE ~exists
    <3>1. req' = Close(r, "dead") /\ "dead" \in ReqPc
      BY <2>2 DEF ReadRow, ReqPc, Over
    <3> QED
      BY <1>0, <2>2, <3>1, CloseIs
  <2> QED
    BY <2>1, <2>2
<1>2. k.pc \in {"rec_transform", "rec_validate", "rec_exposure", "dead"}
      /\ Allowance(k.pc) <= Allowance(req[r].pc)
  BY <1>0, <1>1 DEF RecorderOf, ToRecord, Allowance
<1>b. Quiet /\ Grows /\ StoreOK /\ Takes(r)
  BY <1>0, NothingQuiet, NothingTaken
<1>c. NewTransform
  BY <1>0 DEF NewTransform
<1>3. PInv'
  <2>1. \A g \in FileColumns(row') \cup FileColumns(k.obj) \cup ({k.new, k.src} \ {NoKey}) :
          files'[g].at # "unused"
    BY <1>0, <1>1, NewRowType, ReqTypes
  <2>2. \A f \in File : files[f].at = "unused" => files'[f].at = "unused"
    BY <1>0
  <2> QED
    BY <1>0, <1>1, <1>2, <1>b, <2>1, <2>2, ReqTypes, RequestStep
<1>4. ASSUME Atomic, AInv PROVE AInv'
  <2>1. /\ exists /\ k.obj = row /\ k.src = req[r].src /\ k.pc # "dead"
        /\ k.rivals = req[r].rivals
    <3>1. RecorderOf(req[r].pc) # "dead" /\ exists
      BY <1>0, <1>4 DEF RecorderOf, ToRecord, AInv, RowOK
    <3> QED
      BY <1>1, <3>1
  <2>2. RowOK'
    BY <1>0, <1>4 DEF AInv, RowOK, Apart, Stored
  <2>3. CopyOK(k)'
    BY <1>0, <1>2, <2>1 DEF CopyOK
  <2>4. SourceKept(k)'
    <3>1. SourceKept(req[r]) /\ req[r].pc \notin {"idle"} \cup Over /\ req[r].pc \notin InHandler
      BY <1>0, <1>4, Places DEF AInv
    <3> QED
      BY <1>0, <1>1, <1>2, <2>1, <3>1 DEF SourceKept
  <2>5. k.pc # "idle"
    BY <1>2
  <2> QED
    BY <1>0, <1>1, <1>3, <1>4, <1>a, <2>1, <2>2, <2>3, <2>4, <2>5, <1>b, <1>c, AtomicStep
<1> QED
  BY <1>3, <1>4

\* The transform file is taken out of its column.
LEMMA ClearTransformInv ==
  ASSUME PInv, NEW r \in Request, ClearTransform(r)
  PROVE  PInv' /\ (Atomic /\ AInv => AInv')
<1>0. /\ TypeOK /\ req[r] \in ReqRec /\ req[r].pc = "rec_transform" /\ row \in Row
      /\ req \in [Request -> ReqRec] /\ UNCHANGED <<files, output, conv, takenBy, checked>>
  BY ReqTypes DEF PInv, ClearTransform
<1>a. UnderWay(r) /\ req[r].pc \in Mid
  BY <1>0 DEF UnderWay, Over, Mid, InRecorder
<1> DEFINE old == req[r].obj.transform_file
           pc0 == IF old = NoKey THEN "rec_removed" ELSE "rec_cleared"
           a   == [row EXCEPT !.transform_file = NoKey]
<1>1. PICK k \in ReqRec : k = [req[r] EXCEPT !.pc = pc0]
  BY <1>0 DEF ReqRec, Mid, InRecorder
<1>2. req' = [req EXCEPT ![r] = k]
  BY <1>0, <1>1 DEF ClearTransform
<1>3. /\ k.pc = pc0 /\ k.obj = req[r].obj /\ k.new = req[r].new /\ k.src = req[r].src
      /\ k.rivals = req[r].rivals
  BY <1>0, <1>1 DEF ReqRec
<1>b. NoKey \in 0..MaxFiles
  BY DEF NoKey
<1>c. /\ a \in Row /\ a.transform_file = NoKey /\ a.location_file = row.location_file
      /\ a.exposure_run_file = row.exposure_run_file /\ a.exposure = row.exposure
  BY <1>0, <1>b, ColumnUpdates
<1>4. /\ exists' = exists
      /\ old = NoKey => row' = row
      /\ old # NoKey => row' = IF exists THEN a ELSE row
  BY <1>0, <1>b, SaveColumnIs DEF ClearTransform, SaveColumn
<1> HIDE DEF a
<1>5. row' \in Row /\ FileColumns(row') \subseteq FileColumns(row) /\ (Apart(row) => Apart(row'))
      /\ row'.location_file = row.location_file /\ row'.exposure = row.exposure
      /\ row'.exposure_run_file = row.exposure_run_file
  BY <1>0, <1>4, <1>c DEF FileColumns, Apart
<1>d. Quiet /\ Grows /\ StoreOK /\ Takes(r)
  BY <1>0, NothingQuiet, NothingTaken
<1>e. NewTransform
  BY <1>4, <1>c DEF NewTransform
<1>6. PInv'
  <2>1. \A g \in FileColumns(row') \cup FileColumns(k.obj) \cup ({k.new, k.src} \ {NoKey}) :
          files'[g].at # "unused"
    BY <1>0, <1>3, <1>5, ReqTypes
  <2>2. Allowance(k.pc) <= Allowance(req[r].pc) /\ exists' \in BOOLEAN
    BY <1>0, <1>3, <1>4, ReqTypes DEF Allowance
  <2>3. \A f \in File : files[f].at = "unused" => files'[f].at = "unused"
    BY <1>0
  <2> QED
    <3>1. k.pc # "rec_file"
      BY <1>3
    <3> QED
      BY <1>0, <1>2, <1>5, <1>d, <2>1, <2>2, <2>3, <3>1, ReqTypes, RequestStep
<1>7. ASSUME Atomic, AInv PROVE AInv'
  <2>0. req[r].obj = row /\ RowOK
    BY <1>0, <1>7 DEF AInv, CopyOK
  <2>1. RowOK'
    BY <1>0, <1>4, <1>5, <2>0 DEF RowOK, Apart, FileColumns, Stored
  <2>2. CopyOK(k)'
    BY <1>3, <1>4, <2>0 DEF CopyOK, a, RowOK, Apart
  <2>3. SourceKept(k)'
    <3>1. SourceKept(req[r])
      BY <1>7 DEF AInv
    <3> QED
      BY <1>0, <1>3, <1>4, <1>c, <2>0, <3>1 DEF SourceKept, Over, InHandler
  <2>4. k.pc # "idle" 
    BY <1>3
  <2> QED
    BY <1>0, <1>2, <1>3, <1>6, <1>7, <1>a, <2>1, <2>2, <2>3, <2>4, <1>d, <1>e, AtomicStep
<1> QED
  BY <1>6, <1>7

\* The transform file is deleted.
LEMMA RemoveTransformInv ==
  ASSUME PInv, NEW r \in Request, RemoveTransform(r)
  PROVE  PInv' /\ (Atomic /\ AInv => AInv')
<1> DEFINE f == req[r].obj.transform_file
           obj == [req[r].obj EXCEPT !.transform_file = NoKey]
<1>0. /\ TypeOK /\ req[r] \in ReqRec /\ req[r].obj \in Row /\ req[r].pc = "rec_cleared"
      /\ conv' = conv /\ checked' = checked /\ DeleteFile(r, f) /\ req \in [Request -> ReqRec]
  BY ReqTypes DEF PInv, RemoveTransform
<1>a. UnderWay(r) /\ req[r].pc \in Mid
  BY <1>0 DEF UnderWay, Over, Mid, InRecorder
<1>b. f \in File => files[f].at # "unused"
  <2>1. f \in File => f \in FileColumns(req[r].obj)
    BY DEF FileColumns, NoKey, File
  <2> QED
    BY <2>1, ReqTypes
<1>c. NoKey \in 0..MaxFiles
  BY DEF NoKey
<1>d. /\ obj \in Row /\ obj.transform_file = NoKey /\ obj.location_file = req[r].obj.location_file
      /\ obj.exposure_run_file = req[r].obj.exposure_run_file
  BY <1>0, <1>c, ColumnUpdates
<1>1. req' = [req EXCEPT ![r] = [req[r] EXCEPT !.pc = "rec_removed", !.obj = obj]]
  BY <1>0 DEF RemoveTransform, ReqRec
<1>2. FileColumns(obj) \subseteq FileColumns(req[r].obj)
  BY <1>d DEF FileColumns
<1> HIDE DEF obj
<1>3. PICK k \in ReqRec : k = [req[r] EXCEPT !.pc = "rec_removed", !.obj = obj]
  BY <1>0, <1>d DEF ReqRec, Mid, InRecorder
<1>4. /\ k.pc = "rec_removed" /\ k.obj = obj /\ k.new = req[r].new /\ k.src = req[r].src
      /\ k.rivals = req[r].rivals
  BY <1>0, <1>3 DEF ReqRec
<1>5. PInv'
  <2>1. \A g \in FileColumns(row') \cup FileColumns(k.obj) \cup ({k.new, k.src} \ {NoKey}) :
          files'[g].at # "unused"
    BY <1>0, <1>2, <1>4, <1>b, DeleteFileIs, ReqTypes DEF Grows
  <2>2. Allowance(k.pc) <= Allowance(req[r].pc) /\ checked' \subseteq File
    BY <1>0, <1>4, ReqTypes DEF Allowance
  <2> QED
    BY <1>0, <1>1, <1>3, <1>4, <1>b, <2>1, <2>2, DeleteFileIs, RequestStep
<1>6. ASSUME Atomic, AInv PROVE AInv'
  <2>1. row = obj /\ Apart(req[r].obj)
    BY <1>0, <1>6 DEF AInv, CopyOK, obj
  <2>2. f \notin FileColumns(row)
    BY <1>d, <2>1 DEF Apart, FileColumns
  <2>3. row' = row /\ exists' = exists 
        /\ \A g \in FileColumns(row) : files'[g] = files[g] /\ takenBy'[g] = takenBy[g]
    BY <1>0, <1>b, <2>2, DeleteFileIs, ReqTypes
  <2>4. RowOK'
    BY <1>6, <2>3 DEF AInv, RowOK, Apart, Stored
  <2>5. CopyOK(k)'
    BY <1>4, <2>1, <2>3 DEF CopyOK
  <2>6. SourceKept(k)'
    <3>1. req[r].src # NoKey => /\ takenBy[req[r].src] \in {0} \cup req[r].rivals
                                /\ req[r].src # row.transform_file /\ req[r].src # f
      BY <1>0, <1>6, Places DEF AInv, SourceKept, Over, InHandler
    <3>2. req[r].src # NoKey => takenBy'[req[r].src] = takenBy[req[r].src]
      BY <1>0, <1>b, <3>1, DeleteFileIs, ReqTypes
    <3> QED
      BY <1>4, <2>3, <3>1, <3>2 DEF SourceKept
  <2>7. Quiet /\ Takes(r) /\ NewTransform /\ k.pc # "idle"
    BY <1>0, <1>4, <1>b, DeleteFileIs
  <2> QED
    BY <1>0, <1>1, <1>3, <1>4, <1>5, <1>6, <1>a, <2>4, <2>5, <2>6, <2>7, AtomicStep
<1> QED
  BY <1>5, <1>6

\* What a full save at the end of a recorder does: request r becomes k.
SavedAs(r, obj, table, next, k) ==
  /\ req' = [req EXCEPT ![r] = k]
  /\ k.obj = NewRow /\ k.pc \in {next, "dead"}
  /\ k.new \in {NoKey, req[r].new} /\ k.src \in {NoKey, req[r].src}
  /\ k.pc \notin Over => k.rivals = req[r].rivals /\ k.src = req[r].src
  /\ row' \in {row, obj} /\ row' \in Row /\ exists' \in BOOLEAN
  /\ (\A f \in FileColumns(obj) : table[f].at = "live") =>
       row' = obj /\ exists' = TRUE /\ k.pc = next

\* A full save at the end of a recorder.
LEMMA SaveAllIs ==
  ASSUME PInv, NEW r \in Request, NEW obj \in Row, NEW table, NEW next \in ReqPc,
         SaveAll(r, obj, table, next, "dead")
  PROVE  \E k \in ReqRec : SavedAs(r, obj, table, next, k)
<1>0. TypeOK /\ row \in Row /\ exists \in BOOLEAN /\ "dead" \in ReqPc
  BY ReqTypes DEF PInv, ReqPc, Over
<1>1. CASE \A f \in FileColumns(obj) : table[f].at = "live"
  <2>1. row' = obj /\ exists' = TRUE /\ req' = Close(r, next)
    BY <1>1 DEF SaveAll
  <2> QED
    BY <1>0, <2>1, CloseIs DEF SavedAs
<1>2. CASE ~(\A f \in FileColumns(obj) : table[f].at = "live")
  <2>1. row' = row /\ exists' = exists /\ req' = Close(r, "dead")
    BY <1>2 DEF SaveAll
  <2>2. "dead" \in Over
    BY DEF Over
  <2> QED
    BY <1>0, <1>2, <2>1, <2>2, CloseIs DEF SavedAs
<1> QED
  BY <1>1, <1>2

\* What is left to show of a recorder that ends with a full save of the row it
\* read, in which it changed statuses and perhaps put a file that is live.
LEMMA RecorderEnds ==
  ASSUME PInv, NEW r \in Request, NEW obj \in Row, NEW next \in {"done", "validate"},
         req[r].pc \in {"rec_removed", "rec_validate", "rec_marked", "rec_exposure"},
         NEW table, SaveAll(r, obj, table, next, "dead"),
         \A f \in File : table[f].at = "live" <=> files'[f].at = "live",
         conv' = conv, checked' = checked, UNCHANGED <<output, takenBy>>, Quiet, files' \in [File -> FileRow],
         \/ \A f \in File : files[f].at = "unused" => files'[f].at = "unused"
         \/ /\ \A f \in File : files'[f].at = "unused" <=> files[f].at = "unused" /\ f # NewFile
            /\ Allowance(req[r].pc) = 1,
         \A f \in File : files[f].at = "live" => files'[f].at = "live",
         \A f \in FileColumns(obj) :
           f \in FileColumns(req[r].obj) \/ (files'[f].at = "live" /\ takenBy[f] = 0),
         obj.transform_file = req[r].obj.transform_file,
         Apart(req[r].obj) /\ (\A f \in FileColumns(req[r].obj) : files[f].at = "live") => Apart(obj),
         obj.exposure = "RUN_COMPLETED" => \/ req[r].obj.exposure = "RUN_COMPLETED" /\
                                                obj.exposure_run_file = req[r].obj.exposure_run_file
                                           \/ obj.exposure_run_file # NoKey
  PROVE  PInv' /\ (Atomic /\ AInv => AInv')
<1>0. next \in ReqPc /\ \A g \in FileColumns(obj) : g \in File
  BY DEF ReqPc, Over, AtWorker, FileColumns, Row, File, NoKey
<1>a. PICK k \in ReqRec : SavedAs(r, obj, table, next, k)
  BY <1>0, SaveAllIs
<1>1. /\ req' = [req EXCEPT ![r] = k]
      /\ k.obj = NewRow /\ k.pc \in {next, "dead"}
      /\ k.new \in {NoKey, req[r].new} /\ k.src \in {NoKey, req[r].src}
      /\ k.pc \notin Over => k.rivals = req[r].rivals /\ k.src = req[r].src
      /\ row' \in {row, obj} /\ row' \in Row /\ exists' \in BOOLEAN
      /\ (\A f \in FileColumns(obj) : table[f].at = "live") =>
           row' = obj /\ exists' = TRUE /\ k.pc = next
  BY <1>a DEF SavedAs
<1>2. Allowance(k.pc) = 0 /\ Allowance(req[r].pc) \in Nat
  BY <1>1 DEF Allowance
<1>b. Grows /\ StoreOK /\ Takes(r)
  BY QuietGrows, NothingTaken
<1>3. \A f \in File : files[f].at # "unused" => files'[f].at # "unused"
  BY <1>b DEF Grows
<1>4. PInv'
  <2>1. \A g \in FileColumns(row') \cup FileColumns(k.obj) \cup ({k.new, k.src} \ {NoKey}) :
          files'[g].at # "unused"
    BY <1>0, <1>1, <1>3, NewRowType, ReqTypes
  <2>2. checked' \subseteq File
    BY ReqTypes
  <2>3. \/ /\ \A f \in File : files[f].at = "unused" => files'[f].at = "unused"
           /\ Allowance(k.pc) <= Allowance(req[r].pc)
        \/ /\ \A f \in File : files'[f].at = "unused" <=> files[f].at = "unused" /\ f # NewFile
           /\ Allowance(k.pc) + 1 <= Allowance(req[r].pc)
    BY <1>2
  <2> QED
    <3>1. k.pc # "rec_file"
      BY <1>1
    <3> QED
      BY <1>1, <1>b, <2>1, <2>2, <2>3, <3>1, RequestStep
<1>5. ASSUME Atomic, AInv PROVE AInv'
  <2>0. req[r].obj = row /\ RowOK
    BY <1>5 DEF AInv, CopyOK
  <2>1. \A f \in FileColumns(obj) : files'[f].at = "live" /\ table[f].at = "live" /\ takenBy[f] = 0
    BY <1>0, <2>0 DEF RowOK, Stored
  <2>2. row' = obj /\ exists' = TRUE /\ k.pc = next
    BY <1>1, <2>1
  <2>3. RowOK'
    <3>1. Apart(obj) /\ (obj.exposure = "RUN_COMPLETED" => obj.exposure_run_file # NoKey)
      BY <2>0 DEF RowOK, Stored
    <3> QED
      BY <2>1, <2>2, <3>1 DEF RowOK, Apart, FileColumns, Stored
  <2>4. CopyOK(k)'
    BY <2>2 DEF CopyOK
  <2>5. UnderWay(r) /\ req[r].pc \in Mid /\ req[r].pc \notin InHandler
    BY DEF UnderWay, Over, Mid, InRecorder, InHandler
  <2>6. SourceKept(k)'
    <3>1. k.pc = "validate" => k.rivals = req[r].rivals /\ k.src = req[r].src
      BY <1>1 DEF Over
    <3>2. req[r].src # NoKey => /\ takenBy[req[r].src] \in {0} \cup req[r].rivals
                                /\ req[r].src # row.transform_file
      BY <1>5, <2>5 DEF AInv, SourceKept, UnderWay
    <3>3. row'.transform_file = row.transform_file
      BY <2>0, <2>2
    <3> QED
      BY <2>2, <3>1, <3>2, <3>3 DEF SourceKept, Over
  <2>7. k.pc \notin Mid /\ k.pc # "idle"
    BY <2>2 DEF Mid, InHandler, InRecorder
  <2>8. NewTransform
    BY <2>0, <2>2 DEF NewTransform
  <2> QED
    BY <1>1, <1>4, <1>5, <1>b, <2>3, <2>4, <2>5, <2>6, <2>7, <2>8, AtomicStep
<1> QED
  BY <1>4, <1>5

\* record_transform_output stores the new location file, or the error.
LEMMA RecordTransformInv ==
  ASSUME PInv, NEW r \in Request, RecordTransform(r)
  PROVE  PInv' /\ (Atomic /\ AInv => AInv')
<1>0. /\ req[r] \in ReqRec /\ req[r].obj \in Row /\ req[r].pc = "rec_removed"
      /\ conv' = conv /\ checked' = checked /\ UNCHANGED <<output, takenBy>>
      /\ files \in [File -> FileRow]
  BY ReqTypes DEF RecordTransform
<1>a. Allowance(req[r].pc) = 1
  BY <1>0 DEF Allowance
<1>1. CASE req[r].ok
  <2> DEFINE t == [files EXCEPT ![NewFile] = Fresh]
  <2>1. PICK n : n = NewFile
    OBVIOUS
  <2>2. /\ t \in [File -> FileRow] /\ n \in File /\ n # NoKey /\ n \in 0..MaxFiles
        /\ files[n].at = "unused" /\ t[n].at = "live" /\ takenBy[n] = 0
        /\ \A f \in File : f # n => t[f] = files[f]
        /\ \A f \in File : t[f].at = "unused" <=> files[f].at = "unused" /\ f # NewFile
        /\ files' = t => Quiet
    BY <1>a, <2>1, CreateIs
  <2>3. PICK obj \in Row :
          obj = [req[r].obj EXCEPT !.location_file = n, !.transform = "RUN_COMPLETED"]
    BY <1>0, <2>2 DEF Row, PStatus
  <2>4. /\ obj.location_file = n /\ obj.transform_file = req[r].obj.transform_file
        /\ obj.exposure_run_file = req[r].obj.exposure_run_file
        /\ obj.exposure = req[r].obj.exposure
    BY <1>0, <2>3 DEF Row
  <2>5. files' = t /\ SaveAll(r, obj, t, "validate", "dead")
    BY <1>1, <2>1, <2>3 DEF RecordTransform
  <2> HIDE DEF t
  <2>6. \A f \in FileColumns(obj) :
          f \in FileColumns(req[r].obj) \/ (files'[f].at = "live" /\ takenBy[f] = 0)
    BY <2>2, <2>4, <2>5 DEF FileColumns
  <2>7. n \notin FileColumns(req[r].obj)
    BY <2>2, ReqTypes
  <2>8. Apart(req[r].obj) => Apart(obj)
    BY <2>4, <2>7 DEF Apart, FileColumns
  <2>9. \A f \in File : files[f].at = "live" => files'[f].at = "live"
    BY <2>2, <2>5
  <2>a. /\ \A f \in File : t[f].at = "live" <=> files'[f].at = "live"
        /\ \/ \A f \in File : files[f].at = "unused" => files'[f].at = "unused"
           \/ /\ \A f \in File : files'[f].at = "unused" <=> files[f].at = "unused" /\ f # NewFile
              /\ Allowance(req[r].pc) = 1
    BY <1>a, <2>2, <2>5
  <2>b. obj.exposure = "RUN_COMPLETED" => \/ req[r].obj.exposure = "RUN_COMPLETED" /\
                                               obj.exposure_run_file = req[r].obj.exposure_run_file
                                          \/ obj.exposure_run_file # NoKey
    BY <2>2, <2>4
  <2>c. Quiet /\ files' \in [File -> FileRow]
    BY <2>2, <2>5
  <2> QED
    BY <1>0, <2>4, <2>5, <2>6, <2>8, <2>9, <2>a, <2>b, <2>c, RecorderEnds
<1>2. CASE ~req[r].ok
  <2>1. PICK obj \in Row :
          obj = [req[r].obj EXCEPT !.transform = "ERROR", !.validation = "ERROR"]
    BY <1>0 DEF Row, PStatus
  <2>2. /\ obj.location_file = req[r].obj.location_file
        /\ obj.transform_file = req[r].obj.transform_file
        /\ obj.exposure_run_file = req[r].obj.exposure_run_file
        /\ obj.exposure = req[r].obj.exposure
    BY <1>0, <2>1 DEF Row
  <2>3. files' = files /\ SaveAll(r, obj, files, "done", "dead")
    BY <1>2, <2>1 DEF RecordTransform
  <2>4. FileColumns(obj) = FileColumns(req[r].obj) /\ (Apart(req[r].obj) => Apart(obj))
    BY <2>2 DEF FileColumns, Apart
  <2> QED
    BY <1>0, <2>2, <2>3, <2>4, NothingQuiet, RecorderEnds
<1> QED
  BY <1>1, <1>2

\* set_portfolio_valid reads the file that the portfolio names.
LEMMA FetchAttachedInv ==
  ASSUME PInv, NEW r \in Request, FetchAttached(r)
  PROVE  PInv' /\ (Atomic /\ AInv => AInv')
<1> DEFINE f == req[r].obj.location_file
<1>0. /\ TypeOK /\ req[r] \in ReqRec /\ req[r].obj \in Row /\ req[r].pc = "rec_validate"
      /\ UNCHANGED <<files, output, conv, row, exists, takenBy, checked>> /\ f # NoKey
      /\ files \in [File -> FileRow] /\ req \in [Request -> ReqRec]
  BY ReqTypes DEF FetchAttached, PInv
<1>a. UnderWay(r) /\ req[r].pc \in Mid /\ req[r].pc \notin InHandler
  BY <1>0 DEF UnderWay, Over, Mid, InRecorder, InHandler
<1>b. Quiet /\ Grows /\ StoreOK /\ Takes(r)
  BY <1>0, NothingQuiet, NothingTaken
<1>c. NewTransform
  BY <1>0 DEF NewTransform
<1>d. f \in File /\ files[f] \in FileRow
  <2>1. f \in 0..MaxFiles
    BY <1>0 DEF Row
  <2> QED
    BY <1>0, <2>1 DEF File, NoKey
<1>1. PICK k \in ReqRec :
        /\ req' = [req EXCEPT ![r] = k] /\ k.obj \in {NewRow, req[r].obj}
        /\ k.new \in {NoKey, req[r].new} /\ k.src \in {NoKey, req[r].src}
        /\ \/ k.pc = "dead" /\ ~Live(f)
           \/ /\ k.pc = "rec_file" /\ k.obj = req[r].obj /\ k.src = req[r].src
              /\ k.rivals = req[r].rivals /\ k.file = files[f] /\ Live(f)
  <2>1. CASE Live(f)
    <3> DEFINE k == [req[r] EXCEPT !.pc = "rec_file", !.file = files[f]]
    <3>1. k \in ReqRec
      BY <1>0, <1>d DEF ReqRec, Mid, InRecorder
    <3>2. /\ k.pc = "rec_file" /\ k.obj = req[r].obj /\ k.src = req[r].src /\ k.new = req[r].new
          /\ k.rivals = req[r].rivals /\ k.file = files[f]
      BY <1>0 DEF ReqRec
    <3>3. req' = [req EXCEPT ![r] = k]
      BY <1>0, <2>1 DEF FetchAttached
    <3> HIDE DEF k, f
    <3> QED
      BY <2>1, <3>1, <3>2, <3>3
  <2>2. CASE ~Live(f)
    <3>1. req' = Close(r, "dead") /\ "dead" \in ReqPc
      BY <2>2 DEF FetchAttached, ReqPc, Over
    <3> QED
      BY <1>0, <2>2, <3>1, CloseIs
  <2> QED
    BY <2>1, <2>2
<1>2. Allowance(k.pc) <= Allowance(req[r].pc) /\ (k.pc = "rec_file" => k.file.at = "live")
  BY <1>0, <1>1 DEF Allowance, Live
<1>3. PInv'
  <2>1. \A g \in FileColumns(row') \cup FileColumns(k.obj) \cup ({k.new, k.src} \ {NoKey}) :
          files'[g].at # "unused"
    BY <1>0, <1>1, NewRowType, ReqTypes
  <2>2. \A g \in File : files[g].at = "unused" => files'[g].at = "unused"
    BY <1>0
  <2> QED
    BY <1>0, <1>1, <1>2, <1>b, <2>1, <2>2, ReqTypes, RequestStep
<1>4. ASSUME Atomic, AInv PROVE AInv'
  <2>0. req[r].obj = row /\ RowOK /\ SourceKept(req[r])
    BY <1>0, <1>4 DEF AInv, CopyOK
  <2>1. Live(f)
    BY <1>0, <2>0 DEF RowOK, Stored, Live, FileColumns
  <2>2. /\ k.pc = "rec_file" /\ k.obj = row /\ k.src = req[r].src
        /\ k.rivals = req[r].rivals /\ k.file = files[f]
    BY <1>1, <2>0, <2>1
  <2>3. RowOK'
    BY <1>0, <2>0 DEF RowOK, Apart, Stored
  <2>4. CopyOK(k)'
    BY <1>0, <2>0, <2>2 DEF CopyOK
  <2>5. SourceKept(k)'
    BY <1>0, <1>a, <2>0, <2>2 DEF SourceKept, UnderWay
  <2> QED
    BY <1>0, <1>1, <1>3, <1>4, <1>a, <1>b, <1>c, <2>2, <2>3, <2>4, <2>5, AtomicStep
<1> QED
  BY <1>3, <1>4

\* set_portfolio_valid saves the file row: undisturbed, it only marks it.
LEMMA MarkValidInv ==
  ASSUME PInv, NEW r \in Request, MarkValid(r)
  PROVE  PInv' /\ (Atomic /\ AInv => AInv')
<1> DEFINE f == req[r].obj.location_file
           v == [req[r].file EXCEPT !.validated = TRUE]
<1>0. /\ TypeOK /\ req[r] \in ReqRec /\ req[r].obj \in Row /\ req[r].pc = "rec_file"
      /\ UNCHANGED <<output, conv, row, exists, takenBy, checked>>
      /\ files \in [File -> FileRow] /\ req \in [Request -> ReqRec]
      /\ files' = [files EXCEPT ![f] = v]
  BY ReqTypes DEF MarkValid, PInv
<1>a. UnderWay(r) /\ req[r].pc \in Mid /\ req[r].pc \notin InHandler
  BY <1>0 DEF UnderWay, Over, Mid, InRecorder, InHandler
<1>b. v \in FileRow /\ v.at = "live"
  <2>1. req[r].file \in FileRow
    BY <1>0 DEF ReqRec
  <2>2. req[r].file.at = "live"
    BY <1>0 DEF PInv, KeysUsed, ReqKeys
  <2> QED
    BY <2>1, <2>2, FileUpdates DEF FileRow
<1>c. f \in File => files[f].at # "unused"
  <2>1. f \in File => f \in FileColumns(req[r].obj)
    BY DEF FileColumns, NoKey, File
  <2> QED
    BY <2>1, ReqTypes
<1>1. PICK k \in ReqRec : k = [req[r] EXCEPT !.pc = "rec_marked", !.file = Unused]
  BY <1>0, FreshType DEF ReqRec, Mid, InRecorder
<1>2. req' = [req EXCEPT ![r] = k]
  BY <1>0, <1>1 DEF MarkValid
<1>3. /\ k.pc = "rec_marked" /\ k.obj = req[r].obj /\ k.new = req[r].new /\ k.src = req[r].src
      /\ k.rivals = req[r].rivals
  BY <1>0, <1>1 DEF ReqRec
<1> HIDE DEF v
<1>4. /\ files' \in [File -> FileRow]
      /\ \A g \in File : files[g].at = "unused" <=> files'[g].at = "unused"
      /\ \A g \in File : g # f => files'[g] = files[g]
      /\ f \in File => files'[f] = v
  <2> HIDE DEF f
  <2> QED
    BY <1>0, <1>b, <1>c
<1>d. Grows
  BY <1>4 DEF Grows
<1>e. StoreOK /\ Takes(r)
  BY <1>0, <1>d, NothingTaken
<1>f. NewTransform
  BY <1>0 DEF NewTransform
<1>5. PInv'
  <2>1. \A g \in FileColumns(row') \cup FileColumns(k.obj) \cup ({k.new, k.src} \ {NoKey}) :
          files'[g].at # "unused"
    BY <1>0, <1>3, <1>d, ReqTypes DEF Grows
  <2>2. Allowance(k.pc) <= Allowance(req[r].pc)
    BY <1>0, <1>3 DEF Allowance
  <2> QED
    BY <1>0, <1>2, <1>3, <1>4, <1>d, <1>e, <2>1, <2>2, ReqTypes, RequestStep
<1>6. ASSUME Atomic, AInv PROVE AInv'
  <2>0. /\ req[r].obj = row /\ RowOK /\ SourceKept(req[r])
        /\ f # NoKey /\ req[r].file = files[f]
    BY <1>0, <1>6 DEF AInv, CopyOK
  <2>1. f \in File
    BY <1>0, <2>0 DEF Row, File, NoKey
  <2>2. files'[f] = [files[f] EXCEPT !.validated = TRUE]
    BY <1>4, <2>0, <2>1 DEF v
  <2>3. Quiet
    BY <1>4, <1>c, <2>1, <2>2 DEF Quiet
  <2>4. \A g \in FileColumns(row) : files'[g].at = "live"
    BY <1>4, <1>b, <2>0, ReqTypes DEF RowOK, Stored
  <2>5. RowOK'
    BY <1>0, <2>0, <2>4 DEF RowOK, Apart, Stored
  <2>6. CopyOK(k)'
    BY <1>0, <1>3, <2>0 DEF CopyOK
  <2>7. SourceKept(k)'
    BY <1>0, <1>3, <1>a, <2>0 DEF SourceKept, UnderWay
  <2>8. k.pc # "idle"
    BY <1>3
  <2> QED
    BY <1>0, <1>2, <1>3, <1>5, <1>6, <1>a, <1>e, <1>f, <2>3, <2>5, <2>6, <2>7, <2>8, AtomicStep
<1> QED
  BY <1>5, <1>6

\* record_validation_output saves the portfolio.
LEMMA RecordValidationInv ==
  ASSUME PInv, NEW r \in Request, RecordValidation(r)
  PROVE  PInv' /\ (Atomic /\ AInv => AInv')
<1>0. /\ req[r] \in ReqRec /\ req[r].obj \in Row /\ req[r].pc \in {"rec_validate", "rec_marked"}
      /\ UNCHANGED <<files, output, conv, takenBy, checked>> /\ files \in [File -> FileRow]
  BY ReqTypes DEF RecordValidation
<1>1. PICK obj \in Row :
        obj = [req[r].obj EXCEPT !.validation = IF req[r].ok THEN "RUN_COMPLETED" ELSE "ERROR"]
  BY <1>0 DEF Row, PStatus
<1>2. /\ obj.location_file = req[r].obj.location_file
      /\ obj.transform_file = req[r].obj.transform_file
      /\ obj.exposure_run_file = req[r].obj.exposure_run_file
      /\ obj.exposure = req[r].obj.exposure
  BY <1>0, <1>1 DEF Row
<1>3. SaveAll(r, obj, files, "done", "dead")
  BY <1>1 DEF RecordValidation
<1>4. FileColumns(obj) = FileColumns(req[r].obj) /\ (Apart(req[r].obj) => Apart(obj))
  BY <1>2 DEF FileColumns, Apart
<1> QED
  BY <1>0, <1>2, <1>3, <1>4, NothingQuiet, RecorderEnds

\* record_exposure_output.
LEMMA RecordExposureInv ==
  ASSUME PInv, NEW r \in Request, RecordExposure(r)
  PROVE  PInv' /\ (Atomic /\ AInv => AInv')
<1>0. /\ req[r] \in ReqRec /\ req[r].obj \in Row /\ req[r].pc = "rec_exposure"
      /\ conv' = conv /\ checked' = checked /\ UNCHANGED <<output, takenBy>>
      /\ files \in [File -> FileRow]
  BY ReqTypes DEF RecordExposure
<1>a. Allowance(req[r].pc) = 1
  BY <1>0 DEF Allowance
<1>1. CASE req[r].ok
  <2> DEFINE t == [files EXCEPT ![NewFile] = Fresh]
  <2>1. PICK n : n = NewFile
    OBVIOUS
  <2>2. /\ t \in [File -> FileRow] /\ n \in File /\ n # NoKey /\ n \in 0..MaxFiles
        /\ files[n].at = "unused" /\ t[n].at = "live" /\ takenBy[n] = 0
        /\ \A f \in File : f # n => t[f] = files[f]
        /\ \A f \in File : t[f].at = "unused" <=> files[f].at = "unused" /\ f # NewFile
        /\ files' = t => Quiet
    BY <1>a, <2>1, CreateIs
  <2>3. PICK obj \in Row :
          obj = [req[r].obj EXCEPT !.exposure = "RUN_COMPLETED", !.exposure_run_file = n]
    BY <1>0, <2>2 DEF Row, PStatus
  <2>4. /\ obj.location_file = req[r].obj.location_file
        /\ obj.transform_file = req[r].obj.transform_file
        /\ obj.exposure_run_file = n
    BY <1>0, <2>3 DEF Row
  <2>5. files' = t /\ SaveAll(r, obj, t, "done", "dead")
    BY <1>1, <2>1, <2>3 DEF RecordExposure, Exposed
  <2> HIDE DEF t
  <2>6. \A f \in FileColumns(obj) :
          f \in FileColumns(req[r].obj) \/ (files'[f].at = "live" /\ takenBy[f] = 0)
    BY <2>2, <2>4, <2>5 DEF FileColumns
  <2>7. n \notin FileColumns(req[r].obj)
    BY <2>2, ReqTypes
  <2>8. Apart(req[r].obj) => Apart(obj)
    BY <2>4, <2>7 DEF Apart, FileColumns
  <2>9. \A f \in File : files[f].at = "live" => files'[f].at = "live"
    BY <2>2, <2>5
  <2>a. /\ \A f \in File : t[f].at = "live" <=> files'[f].at = "live"
        /\ \/ \A f \in File : files[f].at = "unused" => files'[f].at = "unused"
           \/ /\ \A f \in File : files'[f].at = "unused" <=> files[f].at = "unused" /\ f # NewFile
              /\ Allowance(req[r].pc) = 1
    BY <1>a, <2>2, <2>5
  <2>b. obj.exposure = "RUN_COMPLETED" => \/ req[r].obj.exposure = "RUN_COMPLETED" /\
                                               obj.exposure_run_file = req[r].obj.exposure_run_file
                                          \/ obj.exposure_run_file # NoKey
    BY <2>2, <2>4
  <2>c. Quiet /\ files' \in [File -> FileRow]
    BY <2>2, <2>5
  <2> QED
    BY <1>0, <2>4, <2>5, <2>6, <2>8, <2>9, <2>a, <2>b, <2>c, RecorderEnds
<1>2. CASE ~req[r].ok
  <2>1. PICK obj \in Row : obj = [req[r].obj EXCEPT !.exposure = "ERROR"]
    BY <1>0 DEF Row, PStatus
  <2>2. /\ obj.location_file = req[r].obj.location_file
        /\ obj.transform_file = req[r].obj.transform_file
        /\ obj.exposure_run_file = req[r].obj.exposure_run_file
        /\ obj.exposure = "ERROR"
    BY <1>0, <2>1 DEF Row
  <2>3. files' = files /\ SaveAll(r, obj, files, "done", "dead")
    BY <1>2, <2>1 DEF RecordExposure, Exposed
  <2>4. FileColumns(obj) = FileColumns(req[r].obj) /\ (Apart(req[r].obj) => Apart(obj))
    BY <2>2 DEF FileColumns, Apart
  <2> QED
    BY <1>0, <2>2, <2>3, <2>4, NothingQuiet, RecorderEnds
<1> QED
  BY <1>1, <1>2

\* get_object(): the new request and those it finds under way know of each other.
LEMMA BeginRequestInv ==
  ASSUME PInv, NEW r \in Request, NEW op \in Ops, BeginRequest(r, op)
  PROVE  PInv' /\ (Atomic /\ AInv => AInv')
<1> DEFINE found == {p \in Request : UnderWay(p)}
           k == [NoReq EXCEPT !.op = op, !.pc = "begun", !.obj = row, !.rivals = found]
<1>0. /\ req \in [Request -> ReqRec] /\ row \in Row /\ req[r].pc = "idle" /\ Idle /\ ConvIdle
      /\ UNCHANGED <<files, output, conv, row, exists, takenBy, checked>>
      /\ files \in [File -> FileRow]
  BY ReqTypes DEF BeginRequest
<1>1. /\ k \in ReqRec /\ k.pc = "begun" /\ k.obj = row /\ k.rivals = found /\ k.new = NoKey
      /\ k.src = NoKey
  <2>1. found \in SUBSET Request /\ op \in AllOps
    OBVIOUS
  <2> HIDE DEF found
  <2>2. k \in ReqRec
    BY <1>0, <2>1, NoReqType DEF ReqRec, Mid, InHandler
  <2>3. k.pc = "begun" /\ k.obj = row /\ k.rivals = found /\ k.new = NoKey /\ k.src = NoKey
    BY NoReqType DEF ReqRec
  <2> QED
    BY <2>2, <2>3
<1>2. req' = [q \in Request |->
                IF q = r THEN k
                ELSE IF UnderWay(q) THEN [req[q] EXCEPT !.rivals = @ \cup {r}] ELSE req[q]]
  BY DEF BeginRequest
<1> HIDE DEF k
<1>3. ASSUME NEW q \in Request, q # r
      PROVE  /\ req'[q] \in ReqRec
             /\ req'[q].pc = req[q].pc /\ req'[q].obj = req[q].obj /\ req'[q].new = req[q].new
             /\ req'[q].src = req[q].src /\ req'[q].op = req[q].op /\ req'[q].file = req[q].file
             /\ req[q].rivals \subseteq req'[q].rivals
             /\ UnderWay(q) => r \in req'[q].rivals
  <2>1. req[q] \in ReqRec /\ req[q].rivals \cup {r} \in SUBSET Request
    BY <1>0 DEF ReqRec
  <2>2. CASE UnderWay(q)
    <3> DEFINE R == req[q].rivals \cup {r}
    <3>1. req'[q] = [req[q] EXCEPT !.rivals = R]
      BY <1>2, <1>3, <2>2
    <3>2. R \in SUBSET Request /\ req[q].rivals \subseteq R /\ r \in R
      BY <2>1
    <3> HIDE DEF R
    <3>3. req'[q] \in ReqRec /\ req'[q].rivals = R
      BY <2>1, <3>1, <3>2 DEF ReqRec
    <3>4. /\ req'[q].pc = req[q].pc /\ req'[q].obj = req[q].obj /\ req'[q].new = req[q].new
          /\ req'[q].src = req[q].src /\ req'[q].op = req[q].op /\ req'[q].file = req[q].file
      BY <2>1, <3>1 DEF ReqRec
    <3> QED
      BY <3>2, <3>3, <3>4
  <2>3. CASE ~UnderWay(q)
    BY <1>2, <1>3, <2>1, <2>3
  <2> QED
    BY <2>2, <2>3
<1>4. req' \in [Request -> ReqRec] /\ req'[r] = k
  BY <1>1, <1>2, <1>3
<1>5. PInv'
  <2>1. TypeOK'
    BY <1>0, <1>4 DEF PInv, TypeOK, FilesTypeOK
  <2>2. \A q \in Request : Rest(q)' <= Rest(q)
    BY <1>0, <1>1, <1>3, <1>4, RestType DEF Rest, Allowance
  <2>3. Room'
    BY <1>0, <2>2, RoomKept DEF PInv, Used
  <2>4. KeysUsed'
    <3>1. ColumnsUsed(row)' /\ ConvKeys' /\ TakenKeys'
      BY <1>0 DEF PInv, KeysUsed, ColumnsUsed, ConvKeys, TakenKeys, Used
    <3>2. ASSUME NEW q \in Request
          PROVE  /\ \A f \in FileColumns(req'[q].obj) : files[f].at # "unused"
                 /\ req'[q].new # NoKey => files[req'[q].new].at # "unused"
                 /\ req'[q].src # NoKey => files[req'[q].src].at # "unused"
                 /\ req'[q].pc = "rec_file" => req'[q].file.at = "live"
      <4>1. CASE q = r
        BY <1>1, <1>4, <4>1 DEF PInv, KeysUsed, ColumnsUsed, Used
      <4>2. CASE q # r
        BY <1>3, <4>2 DEF PInv, KeysUsed, ReqKeys, ColumnsUsed, Used
      <4> QED
        BY <4>1, <4>2
    <3> QED
      BY <1>0, <3>1, <3>2 DEF KeysUsed, ReqKeys, ColumnsUsed, Used
  <2> QED
    BY <2>1, <2>3, <2>4 DEF PInv
<1>6. ASSUME Atomic, AInv PROVE AInv'
  <2>1. Alone'
    <3>1. \A q \in Request : q # r => req'[q].pc \notin Mid
      BY <1>0, <1>3, <1>6 DEF Idle
    <3>2. \A c \in Conv : conv'[c].pc \notin {"begun", "read"}
      BY <1>0, <1>6 DEF ConvIdle
    <3> QED
      BY <3>1, <3>2 DEF Alone
  <2>2. Guarded' /\ OneConversion' /\ RowOK' /\ Written' /\ Blank' /\ MappingIsUsed'
    BY <1>0, <1>6 DEF AInv, Guarded, OneConversion, RowOK, Cleared, Apart, Stored, Written,
                      Blank, MappingIsUsed
  <2>3. ConversionAttended'
    BY <1>0, <1>6 DEF AInv, ConversionAttended
  <2>4. RivalsKnown'
    <3> SUFFICES ASSUME NEW q \in Request, NEW p \in Request, q # p, UnderWay(q)', UnderWay(p)'
                 PROVE  p \in req'[q].rivals
      BY DEF RivalsKnown
    <3>1. CASE q = r
      BY <1>1, <1>3, <1>4, <3>1 DEF UnderWay
    <3>2. CASE q # r /\ p = r
      BY <1>3, <3>2 DEF UnderWay
    <3>3. CASE q # r /\ p # r
      BY <1>3, <1>6, <3>3 DEF UnderWay, AInv, RivalsKnown
    <3> QED
      BY <3>1, <3>2, <3>3
  <2>5. ASSUME NEW q \in Request PROVE (CopyOK(req[q]) /\ SourceKept(req[q]))'
    <3>1. CASE q = r
      BY <1>0, <1>1, <1>4, <3>1 DEF CopyOK, SourceKept, InHandler
    <3>2. CASE q # r
      <4>1. CopyOK(req[q])'
        <5>1. req'[q].pc \notin Mid
          BY <1>0, <1>3, <1>6, <3>2 DEF Idle
        <5> QED
          BY <5>1 DEF CopyOK, Mid, InHandler, InRecorder
      <4>2. SourceKept(req[q])'
        <5>1. SourceKept(req[q])
          BY <1>6 DEF AInv
        <5> QED
          BY <1>0, <1>3, <3>2, <5>1 DEF SourceKept
      <4> QED
        BY <4>1, <4>2
    <3> QED
      BY <3>1, <3>2
  <2> QED
    BY <1>5, <2>1, <2>2, <2>3, <2>4, <2>5 DEF AInv
<1> QED
  BY <1>5, <1>6

-----------------------------------------------------------------------------
(* Conversions keep AInv.                                                  *)

\* What is left to show of AInv for a step of a conversion: portfolios only see
\* that no live file goes away.
LEMMA ConvStepAtomic ==
  ASSUME Atomic, AInv, PInv', Idle, UNCHANGED pvars, ConversionAttended',
         \A f \in File : files[f].at = "live" => files'[f].at = "live",
         Alone', Guarded', OneConversion', Written', Blank', MappingIsUsed'
  PROVE  AInv'
<1>0. /\ row' = row /\ exists' = exists /\ req' = req /\ takenBy' = takenBy
      /\ row \in Row
  BY DEF pvars, AInv, PInv, TypeOK
<1>1. FileColumns(row) \subseteq File
  BY <1>0 DEF FileColumns, Row, File, NoKey
<1>2. RowOK'
  BY <1>0, <1>1 DEF AInv, RowOK, Apart, Stored
<1>3. RivalsKnown'
  BY <1>0 DEF AInv, RivalsKnown, UnderWay
<1>4. ASSUME NEW r \in Request PROVE (CopyOK(req[r]) /\ SourceKept(req[r]))'
  <2>1. req'[r].pc \notin Mid
    BY <1>0 DEF Idle
  <2>2. CopyOK(req[r])'
    BY <2>1 DEF CopyOK, Mid, InHandler, InRecorder
  <2>3. SourceKept(req[r])'
    BY <1>0 DEF AInv, SourceKept
  <2> QED
    BY <2>2, <2>3
<1> QED
  BY <1>2, <1>3, <1>4 DEF AInv

\* A step that leaves the table and the stored files alone: a conversion that reads
\* its file does so when nobody else is between a read and a save.
LEMMA ConvMovesAtomic ==
  ASSUME Atomic, AInv, PInv', ConversionAttended', Idle, UNCHANGED pvars, NEW c \in Conv,
         NEW k \in ConvRec, files' = files, conv' = [conv EXCEPT ![c] = k], output' = output,
         k.pc \notin Working,
         k.pc \in {"begun", "read"} =>
           ConvIdle /\ k.obj = files[k.file] /\ files[k.file].at = "live"
  PROVE  AInv'
<1>0. conv \in [Conv -> ConvRec] /\ conv'[c] = k /\ req' = req /\ takenBy' = takenBy
      /\ \A d \in Conv : d # c => conv'[d] = conv[d]
  BY ConvTypes DEF AInv, pvars
<1>1. Alone'
  <2>1. CASE k.pc \in {"begun", "read"}
    <3>1. /\ \A r \in Request : req'[r].pc \notin Mid
          /\ \A d \in Conv : d # c => conv'[d].pc \notin {"begun", "read"}
      BY <1>0, <2>1 DEF Idle, ConvIdle
    <3> QED
      BY <3>1 DEF Alone
  <2>2. CASE k.pc \notin {"begun", "read"}
    BY <1>0, <2>2 DEF AInv, Alone
  <2> QED
    BY <2>1, <2>2
<1>2. Guarded'
  <2> SUFFICES ASSUME NEW d \in Conv, conv'[d].pc \in Working
               PROVE  /\ files[conv'[d].file].at = "live" =>
                           files[conv'[d].file].state = "IN_PROGRESS"
                      /\ \A e \in Conv : Cleared(e)' => conv'[e].file # conv'[d].file
    BY DEF Guarded
  <2>1. d # c /\ conv'[d] = conv[d]
    BY <1>0
  <2>2. /\ files[conv[d].file].at = "live" => files[conv[d].file].state = "IN_PROGRESS"
        /\ \A e \in Conv : Cleared(e) => conv[e].file # conv[d].file
    BY <2>1 DEF AInv, Guarded
  <2>3. ASSUME NEW e \in Conv, Cleared(e)' PROVE conv'[e].file # conv[d].file
    <3>1. CASE e # c
      BY <1>0, <2>2, <2>3, <3>1 DEF Cleared
    <3>2. CASE e = c
      <4>1. k.pc \in {"begun", "read"} /\ k.obj.state # "IN_PROGRESS"
        BY <1>0, <2>3, <3>2 DEF Cleared, MayConvert, Ready
      <4> QED
        BY <1>0, <2>2, <3>2, <4>1
    <3> QED
      BY <3>1, <3>2
  <2> QED
    BY <2>1, <2>2, <2>3
<1>3. OneConversion'
  BY <1>0 DEF AInv, OneConversion
<1>4. Written' /\ Blank' /\ MappingIsUsed'
  BY <1>0 DEF AInv, Written, Blank, MappingIsUsed, Working
<1> QED
  BY <1>1, <1>2, <1>3, <1>4, ConvStepAtomic

\* A step that saves the row of the file that c works on: c has seen that it may,
\* or it is the one that converts the file.
LEMMA ConvSavesAtomic ==
  ASSUME Atomic, AInv, PInv', ConversionAttended', Idle, UNCHANGED pvars, NEW c \in Conv,
         NEW k \in ConvRec, NEW row0 \in FileRow, row0.at = "live",
         files' = [files EXCEPT ![conv[c].file] = row0], conv' = [conv EXCEPT ![c] = k],
         output' = output,
         conv[c].pc \in Working \/ Cleared(c),
         row0.state = "DONE" => conv[c].pc = "written" /\ row0.mapping = conv[c].obj.mapping,
         k.pc \notin {"begun", "read", "written"},
         k.pc = "converting" => /\ row0.state = "IN_PROGRESS" /\ k.file = conv[c].file
                                /\ conv[c].pc = "read"
  PROVE  AInv'
<1> DEFINE f0 == conv[c].file
<1>0. /\ conv \in [Conv -> ConvRec] /\ conv'[c] = k /\ req' = req /\ takenBy' = takenBy
      /\ \A d \in Conv : d # c => conv'[d] = conv[d]
      /\ files \in [File -> FileRow] /\ f0 \in File /\ files'[f0] = row0
      /\ \A f \in File : f # f0 => files'[f] = files[f]
  BY ConvTypes DEF AInv, Cleared, pvars, Working
<1> HIDE DEF f0
<1>1. Alone'
  BY <1>0 DEF AInv, Alone
<1>2. ASSUME NEW d \in Conv, d # c, conv[d].pc \in Working
      PROVE  conv[d].file # f0 /\ conv[d].file \in File
  <2>1. conv[d].file \in File
    BY <1>2, ConvTypes DEF AInv, Working
  <2> QED
    BY <1>2, <2>1 DEF AInv, Guarded, OneConversion, f0
<1>3. ASSUME NEW e \in Conv, Cleared(e)' PROVE e # c /\ Cleared(e)
  BY <1>0, <1>3 DEF Cleared
<1>4. Guarded'
  <2> SUFFICES ASSUME NEW d \in Conv, conv'[d].pc \in Working
               PROVE  /\ files'[conv'[d].file].at = "live" =>
                           files'[conv'[d].file].state = "IN_PROGRESS"
                      /\ \A e \in Conv : Cleared(e)' => conv'[e].file # conv'[d].file
    BY DEF Guarded
  <2>1. CASE d = c
    <3>1. k.pc = "converting" /\ k.file = f0 /\ conv[c].pc = "read"
      BY <1>0, <2>1 DEF f0, Working
    <3>2. \A e \in Conv : ~Cleared(e)'
      BY <1>3, <3>1 DEF AInv, Alone, Cleared
    <3> QED
      BY <1>0, <2>1, <3>1, <3>2
  <2>2. CASE d # c
    <3>1. conv'[d] = conv[d] /\ files'[conv[d].file] = files[conv[d].file]
      BY <1>0, <1>2, <2>2
    <3> QED
      BY <1>0, <1>3, <2>2, <3>1 DEF AInv, Guarded
  <2> QED
    BY <2>1, <2>2
<1>5. OneConversion'
  <2>1. \A d \in Conv : d # c /\ conv[d].pc \in Working => conv[d].file # f0
    BY <1>2
  <2>2. k.pc \in Working => k.file = f0
    BY DEF Working, f0
  <2> QED
    BY <1>0, <2>1, <2>2 DEF AInv, OneConversion
<1>6. \A f \in File : files[f].at = "live" => files'[f].at = "live"
  BY <1>0
<1>7. Written'
  BY <1>0 DEF AInv, Written
<1>8. Blank'
  BY <1>0 DEF AInv, Blank
<1>9. MappingIsUsed'
  BY <1>0 DEF AInv, MappingIsUsed, Written, f0
<1> QED
  BY <1>1, <1>4, <1>5, <1>6, <1>7, <1>8, <1>9, ConvStepAtomic

\* A task writes its output: the path is its own while the file is IN_PROGRESS.
LEMMA ConvWritesAtomic ==
  ASSUME Atomic, AInv, PInv', ConversionAttended', Idle, UNCHANGED pvars, NEW c \in Conv,
         WriteOutput(c)
  PROVE  AInv'
<1> DEFINE f0 == conv[c].file
           k  == [conv[c] EXCEPT !.pc = "written"]
<1>0. /\ conv \in [Conv -> ConvRec] /\ conv[c] \in ConvRec /\ conv[c].pc = "converting"
      /\ req' = req /\ takenBy' = takenBy /\ files' = files /\ f0 \in File
      /\ output \in [File -> 0..MaxConvs]
      /\ output' = [output EXCEPT ![f0] = conv[c].obj.mapping]
      /\ conv' = [conv EXCEPT ![c] = k]
  BY ConvTypes DEF AInv, PInv, TypeOK, FilesTypeOK, pvars, WriteOutput
<1>1. k.pc = "written" /\ k.file = f0 /\ k.obj = conv[c].obj
  BY <1>0 DEF ConvRec
<1> HIDE DEF k, f0
<1>2. conv'[c] = k /\ \A d \in Conv : d # c => conv'[d] = conv[d]
  BY <1>0
<1>3. /\ \A d \in Conv : conv'[d].file = conv[d].file /\ conv'[d].obj = conv[d].obj
      /\ \A d \in Conv : conv'[d].pc \in Working <=> conv[d].pc \in Working
      /\ \A d \in Conv : \A pc \in {"begun", "read"} : conv'[d].pc = pc <=> conv[d].pc = pc
  BY <1>0, <1>1, <1>2 DEF f0, Working
<1>4. Alone'
  BY <1>0, <1>3 DEF AInv, Alone
<1>5. \A d \in Conv : Cleared(d)' <=> Cleared(d)
  BY <1>3 DEF Cleared
<1>6. Guarded'
  BY <1>0, <1>3, <1>5 DEF AInv, Guarded
<1>7. OneConversion'
  BY <1>3 DEF AInv, OneConversion
<1>8. Written'
  <2> SUFFICES ASSUME NEW d \in Conv, conv'[d].pc = "written", takenBy[conv[d].file] = 0
               PROVE  output'[conv[d].file] = conv[d].obj.mapping
    BY <1>0, <1>3 DEF Written
  <2>1. CASE d = c
    BY <1>0, <2>1 DEF f0
  <2>2. CASE d # c
    <3>1. conv[d].pc = "written" /\ conv[d].file # f0 /\ conv[d].file \in File
      BY <1>0, <1>2, <2>2, ConvTypes DEF AInv, OneConversion, Working, f0
    <3> QED
      BY <1>0, <3>1 DEF AInv, Written
  <2> QED
    BY <2>1, <2>2
<1>9. Blank'
  BY <1>0 DEF AInv, Blank
<1>10. MappingIsUsed'
  <2>1. files[f0].state # "DONE"
    BY <1>0 DEF AInv, Guarded, Blank, Working, f0
  <2> QED
    BY <1>0, <2>1 DEF AInv, MappingIsUsed
<1> QED
  BY <1>0, <1>4, <1>6, <1>7, <1>8, <1>9, <1>10, ConvStepAtomic

\* All steps of conversions, with the requests and recorders at rest.
LEMMA ConversionAInv ==
  ASSUME Atomic, AInv, Idle, NEW c \in Conv, UNCHANGED pvars,
         BeginConvert(c, row.location_file) \/ Converting(c)
  PROVE  AInv'
<1>0. /\ PInv /\ PInv' /\ ConversionAttended' /\ TypeOK /\ FilesTypeOK
      /\ conv[c] \in ConvRec /\ conv[c].obj \in FileRow /\ conv \in [Conv -> ConvRec]
      /\ conv[c].pc \in {"begun", "read", "converting", "written"} => conv[c].obj.at = "live"
  BY ConversionPInv, ConvTypes DEF AInv, PInv, TypeOK, KeysUsed, ConvKeys
<1>1. CASE BeginConvert(c, row.location_file)
  <2> DEFINE f == row.location_file
             k == [NoConv EXCEPT !.pc = "begun", !.file = f, !.obj = files[f]]
  <2>1. f \in File /\ f \in 0..MaxFiles /\ files[f] \in FileRow /\ files[f].at = "live"
    BY <1>0, <1>1 DEF BeginConvert, Live, TypeOK, FilesTypeOK, Row, File, NoKey
  <2>2. k \in ConvRec
    BY <1>0, <2>1, ConvUpdates DEF ConvRec, ConvPc
  <2>3. k.pc = "begun" /\ k.file = f /\ k.obj = files[f]
    BY DEF NoConv
  <2>4. conv' = [conv EXCEPT ![c] = k] /\ files' = files /\ output' = output /\ ConvIdle
    BY <1>1 DEF BeginConvert
  <2> HIDE DEF k, f
  <2> QED
    BY <1>0, <2>1, <2>2, <2>3, <2>4, ConvMovesAtomic DEF Working
<1>2. ASSUME NEW sent \in BOOLEAN, StartConversion(c, sent) PROVE AInv'
  <2> DEFINE obj == [conv[c].obj EXCEPT !.state = "PENDING", !.mapping = c]
             pc0 == IF sent THEN "queued" ELSE "unsent"
             k   == [conv[c] EXCEPT !.pc = pc0, !.obj = Unused]
  <2>1. obj \in FileRow /\ obj.at = conv[c].obj.at /\ obj.state = "PENDING"
    BY <1>0, FileUpdates DEF FileRow
  <2>2. k \in ConvRec /\ k.pc \in {"queued", "unsent"}
    BY <1>0, FreshType DEF ConvRec, ConvPc
  <2>3. /\ conv' = [conv EXCEPT ![c] = k] /\ files' = [files EXCEPT ![conv[c].file] = obj]
        /\ conv[c].pc = "begun" /\ Cleared(c) /\ output' = output
    BY <1>0, <1>2 DEF StartConversion, Cleared
  <2> HIDE DEF k, obj
  <2> QED
    BY <1>0, <2>1, <2>2, <2>3, ConvSavesAtomic
<1>3. CASE RefuseConversion(c) \/ AlreadyInProgress(c)
  <2> DEFINE k == [NoConv EXCEPT !.pc = "done"]
  <2>1. k \in ConvRec /\ k.pc = "done"
    BY <1>0, ConvUpdates DEF NoConv
  <2>2. conv' = [conv EXCEPT ![c] = k] /\ files' = files /\ output' = output
    BY <1>3 DEF RefuseConversion, AlreadyInProgress
  <2> HIDE DEF k
  <2> QED
    BY <1>0, <2>1, <2>2, ConvMovesAtomic DEF Working
<1>4. CASE ReadFile(c)
  <2> DEFINE f == conv[c].file
  <2>0. files' = files /\ output' = output /\ ConvIdle /\ f \in File /\ files[f] \in FileRow
    BY <1>0, <1>4, ConvTypes DEF ReadFile
  <2>1. CASE Live(f)
    <3> DEFINE k == [conv[c] EXCEPT !.pc = "read", !.obj = files[f]]
    <3>1. k \in ConvRec /\ k.pc = "read" /\ k.file = f /\ k.obj = files[f]
      BY <1>0, <2>0 DEF ConvRec, ConvPc
    <3>2. conv' = [conv EXCEPT ![c] = k] /\ files[f].at = "live"
      BY <1>0, <1>4, <2>1 DEF ReadFile, Live
    <3> HIDE DEF k, f
    <3> QED
      BY <1>0, <2>0, <3>1, <3>2, ConvMovesAtomic DEF Working
  <2>2. CASE ~Live(f)
    <3>1. conv' = [conv EXCEPT ![c] = Retried(c)]
      BY <1>0, <1>4, <2>2 DEF ReadFile
    <3>2. Retried(c) \in ConvRec /\ Retried(c).pc \in {"queued", "done"}
      BY <1>0, ConvUpdates
    <3> QED
      BY <1>0, <2>0, <3>1, <3>2, ConvMovesAtomic DEF Working
  <2> QED
    BY <2>1, <2>2
<1>5. CASE MarkInProgress(c)
  <2> DEFINE obj == [conv[c].obj EXCEPT !.state = "IN_PROGRESS"]
             k   == [conv[c] EXCEPT !.pc = "converting", !.obj = obj]
  <2>1. obj \in FileRow /\ obj.at = conv[c].obj.at /\ obj.state = "IN_PROGRESS"
    BY <1>0, FileUpdates DEF FileRow, ConversionState
  <2>2. /\ conv' = [conv EXCEPT ![c] = k] /\ files' = [files EXCEPT ![conv[c].file] = obj]
        /\ conv[c].pc = "read" /\ Cleared(c) /\ output' = output
    BY <1>0, <1>5 DEF MarkInProgress, Cleared
  <2> HIDE DEF obj
  <2>3. k \in ConvRec /\ k.pc = "converting" /\ k.file = conv[c].file
    BY <1>0, <2>1 DEF ConvRec, ConvPc
  <2> HIDE DEF k
  <2> QED
    BY <1>0, <2>1, <2>2, <2>3, ConvSavesAtomic
<1>6. CASE MappingFails(c)
  <2> DEFINE k == [conv[c] EXCEPT !.pc = "stuck", !.obj = Unused]
  <2>1. k \in ConvRec /\ k.pc = "stuck"
    BY <1>0, FreshType DEF ConvRec, ConvPc
  <2>2. conv' = [conv EXCEPT ![c] = k] /\ files' = files /\ output' = output
    BY <1>0, <1>6 DEF MappingFails
  <2> HIDE DEF k
  <2> QED
    BY <1>0, <2>1, <2>2, ConvMovesAtomic DEF Working
<1>7. CASE WriteOutput(c)
  BY <1>0, <1>7, ConvWritesAtomic
<1>8. CASE EndConversion(c, TRUE)
  <2> DEFINE obj == [conv[c].obj EXCEPT !.state = "DONE", !.converted = TRUE]
             k   == [NoConv EXCEPT !.pc = "done"]
  <2>0. conv[c].pc = "written"
    BY <1>8 DEF EndConversion
  <2>1. obj \in FileRow /\ obj.at = "live" /\ obj.mapping = conv[c].obj.mapping
    BY <1>0, <2>0, FileUpdates DEF FileRow
  <2>2. k \in ConvRec /\ k.pc = "done"
    BY <1>0, ConvUpdates DEF NoConv
  <2>3. /\ conv' = [conv EXCEPT ![c] = k] /\ files' = [files EXCEPT ![conv[c].file] = obj]
        /\ output' = output
    BY <1>8 DEF EndConversion, SaveOutcome
  <2> HIDE DEF k, obj
  <2> QED
    BY <1>0, <2>0, <2>1, <2>2, <2>3, ConvSavesAtomic DEF Working
<1>9. CASE EndConversion(c, FALSE)
  <2> DEFINE obj == [conv[c].obj EXCEPT !.state = "ERROR"]
  <2>0. conv[c].pc \in Working /\ conv[c].pc \in {"converting", "written"}
    BY <1>9 DEF EndConversion, Working
  <2>1. obj \in FileRow /\ obj.at = "live" /\ obj.state = "ERROR"
    BY <1>0, <2>0, FileUpdates DEF FileRow, ConversionState
  <2>2. /\ conv' = [conv EXCEPT ![c] = Retried(c)] /\ files' = [files EXCEPT ![conv[c].file] = obj]
        /\ output' = output
    BY <1>9 DEF EndConversion, SaveOutcome
  <2>3. Retried(c) \in ConvRec /\ Retried(c).pc \in {"queued", "done"}
    BY <1>0, ConvUpdates
  <2> HIDE DEF obj
  <2> QED
    BY <1>0, <2>0, <2>1, <2>2, <2>3, ConvSavesAtomic
<1> QED
  BY <1>1, <1>2, <1>3, <1>4, <1>5, <1>6, <1>7, <1>8, <1>9 DEF Converting

-----------------------------------------------------------------------------
(* The theorems.                                                           *)

\* A portfolio with its location file, before the first request.
LEMMA InitPInv == ASSUME Init PROVE PInv
<1>0. /\ files \in [File -> FileRow] /\ 1 \in File /\ 1 \in 0..MaxFiles
      /\ \A f \in File : files[f] = IF f = 1 THEN Fresh ELSE Unused
      /\ conv \in [Conv -> ConvRec] /\ \A c \in Conv : conv[c] = NoConv
      /\ req = [r \in Request |-> NoReq] /\ checked = {} /\ exists = TRUE
      /\ row = [NewRow EXCEPT !.location_file = 1]
      /\ output \in [File -> 0..MaxConvs]
      /\ takenBy \in [File -> 0..MaxRequests] /\ \A f \in File : takenBy[f] = 0
  <2>1. 1 \in File /\ 1 \in 0..MaxFiles
    BY DEF File
  <2>2. NoConv \in ConvRec
    BY FreshType DEF NoConv, ConvRec, ConvPc, NoKey
  <2> QED
    BY <2>1, <2>2, FreshType DEF Init, NoKey
<1>1. row \in Row /\ FileColumns(row) = {1}
  BY <1>0 DEF NewRow, Row, PStatus, NoKey, FileColumns
<1>3. TypeOK
  BY <1>0, <1>1, NoReqType DEF TypeOK, FilesTypeOK, ConvRec, ConvPc
<1>4. \A f \in File : Used(f) <=> f <= 1
  <2> SUFFICES ASSUME NEW f \in File PROVE Used(f) <=> f <= 1
    OBVIOUS
  <2>1. files[f] = IF f = 1 THEN Fresh ELSE Unused
    BY <1>0
  <2>2. f = 1 <=> f <= 1
    BY DEF File
  <2> QED
    BY <2>1, <2>2, FreshType DEF Used
<1>5. KeysUsed
  <2>1. ColumnsUsed(row) /\ TakenKeys
    BY <1>0, <1>1, <1>4 DEF ColumnsUsed, TakenKeys
  <2>2. ReqKeys
    BY <1>0, NoReqType, NewRowType DEF ColumnsUsed, ReqKeys
  <2>3. ConvKeys
    BY <1>0 DEF ConvKeys, NoConv
  <2> QED
    BY <2>1, <2>2, <2>3 DEF KeysUsed
<1>6. Room
  <2> DEFINE S == [k \in Mark |-> 2 * k]
  <2>1. S \in Ledger /\ MaxRequests \in Mark
    BY DEF Ledger, Mark
  <2>2. \A k, l \in Mark : k <= l => S[k] <= S[l]
    BY DEF Mark
  <2>3. \A r \in Request : S[r - 1] + Rest(r) <= S[r]
    <3>1. \A r \in Request : Rest(r) = 2
      BY <1>0, NoReqType DEF Rest, Allowance
    <3> QED
      BY <3>1 DEF Mark, Request
  <2>4. 1 + S[MaxRequests] <= MaxFiles
    BY <2>1
  <2> HIDE DEF S
  <2>5. Fits(1, S)
    BY <1>4, <2>2, <2>3, <2>4 DEF Fits
  <2> QED
    BY <2>1, <2>5 DEF Room
<1> QED
  BY <1>3, <1>5, <1>6 DEF PInv

\* Nothing is under way yet.
LEMMA InitAInv == ASSUME Init PROVE AInv
<1>0. /\ req = [r \in Request |-> NoReq] /\ exists = TRUE
      /\ row = [NewRow EXCEPT !.location_file = 1]
      /\ \A c \in Conv : conv[c].pc = "idle"
      /\ files = [f \in File |-> IF f = 1 THEN Fresh ELSE Unused]
  BY DEF Init, NoConv
<1>1. \A r \in Request : req[r].pc = "idle"
  BY <1>0 DEF NoReq
<1>2. 1 \in File /\ files[1].at = "live" /\ takenBy[1] = 0
  <2>1. 1 \in File
    BY DEF File
  <2> QED
    BY <1>0, <2>1, FreshType DEF Init
<1>3. RowOK
  BY <1>0, <1>2 DEF RowOK, Stored, FileColumns, Apart, NewRow, NoKey
<1>4. Alone /\ Guarded /\ OneConversion /\ Written
  BY <1>0, <1>1, Places DEF Alone, Guarded, OneConversion, Written, Working
<1>5. RivalsKnown
  BY <1>1 DEF RivalsKnown, UnderWay
<1>6. \A r \in Request : CopyOK(req[r]) /\ SourceKept(req[r])
  BY <1>1 DEF CopyOK, SourceKept
<1>7. \A f \in File : files[f].state = "NONE"
  BY <1>0 DEF Fresh, Unused
<1>8. Blank /\ MappingIsUsed /\ ConversionAttended
  BY <1>7 DEF Blank, MappingIsUsed, ConversionAttended
<1> QED
  BY <1>3, <1>4, <1>5, <1>6, <1>8, InitPInv DEF AInv

\* Each step, of whatever handler, task or recorder.
LEMMA StepPInv == ASSUME PInv, [Next]_vars PROVE PInv'
<1>1. ASSUME NEW r \in Request, Handler(r) PROVE PInv'
  BY <1>1, ClearOldInv, RemoveOldInv, AttachNewInv, SaveAndSendInv DEF Handler
<1>2. ASSUME NEW r \in Request, Worker(r) PROVE PInv'
  BY <1>2, WorkerInv
<1>3. ASSUME NEW r \in Request, Recorder(r) PROVE PInv'
  BY <1>3, ReadRowInv, ClearTransformInv, RemoveTransformInv, RecordTransformInv,
     FetchAttachedInv, MarkValidInv, RecordValidationInv, RecordExposureInv DEF Recorder
<1>4. ASSUME NEW c \in Conv, UNCHANGED pvars,
             BeginConvert(c, row.location_file) \/ Converting(c)
      PROVE  PInv'
  BY <1>4, ConversionPInv
<1>5. CASE UNCHANGED vars
  BY <1>5 DEF vars, PInv, TypeOK, FilesTypeOK, KeysUsed, ColumnsUsed, ReqKeys, ConvKeys,
              TakenKeys, Used, Room, Fits, Rest
<1> QED
  BY <1>1, <1>2, <1>3, <1>4, <1>5, BeginRequestInv DEF Next, System, Conversion

\* The same of AInv.
LEMMA StepAInv == ASSUME Atomic, AInv, [Next]_vars PROVE AInv'
<1>0. PInv
  BY DEF AInv
<1>1. ASSUME NEW r \in Request, Handler(r) PROVE AInv'
  BY <1>0, <1>1, ClearOldInv, RemoveOldInv, AttachNewInv, SaveAndSendInv DEF Handler
<1>2. ASSUME NEW r \in Request, Worker(r) PROVE AInv'
  BY <1>0, <1>2, WorkerInv
<1>3. ASSUME NEW r \in Request, Recorder(r) PROVE AInv'
  BY <1>0, <1>3, ReadRowInv, ClearTransformInv, RemoveTransformInv, RecordTransformInv,
     FetchAttachedInv, MarkValidInv, RecordValidationInv, RecordExposureInv DEF Recorder
<1>4. ASSUME NEW c \in Conv, UNCHANGED pvars, Idle,
             BeginConvert(c, row.location_file) \/ Converting(c)
      PROVE  AInv'
  BY <1>4, ConversionAInv
<1>5. CASE UNCHANGED vars
  <2>1. PInv'
    BY <1>0, <1>5, StepPInv
  <2>2. (Alone /\ Guarded /\ OneConversion /\ Written /\ Blank)'
    BY <1>5 DEF vars, AInv, Alone, Guarded, Cleared, OneConversion, Written, Blank
  <2>3. (MappingIsUsed /\ ConversionAttended)'
    BY <1>5 DEF vars, AInv, MappingIsUsed, ConversionAttended
  <2>4. (RowOK /\ RivalsKnown)'
    BY <1>5 DEF vars, AInv, RowOK, Stored, RivalsKnown, UnderWay
  <2>5. \A r \in Request : (CopyOK(req[r]) /\ SourceKept(req[r]))'
    BY <1>5 DEF vars, AInv, CopyOK, Stored, SourceKept
  <2> QED
    BY <2>1, <2>2, <2>3, <2>4, <2>5 DEF AInv
<1> QED
  BY <1>0, <1>1, <1>2, <1>3, <1>4, <1>5, BeginRequestInv DEF Next, System, Conversion

\* Whatever overlaps.
THEOREM PInvariant == Spec => []PInv
<1>1. Init => PInv
  BY InitPInv
<1>2. PInv /\ [Next]_vars => PInv'
  BY StepPInv
<1> QED
  BY <1>1, <1>2, PTL DEF Spec

\* With what lies between a read and its save uninterrupted.
THEOREM AInvariant == Atomic => (Spec => []AInv)
<1> SUFFICES ASSUME Atomic PROVE Spec => []AInv
  OBVIOUS
<1>1. Init => AInv
  BY InitAInv
<1>2. AInv /\ [Next]_vars => AInv'
  BY StepAInv
<1> QED
  BY <1>1, <1>2, PTL DEF Spec

\* The portfolio row, its files, requests and conversions keep their types; what a
\* request stores always finds a key of the table.
THEOREM TypeCorrect == Spec => []TypeOK
<1>1. PInv => TypeOK
  BY DEF PInv
<1> QED
  BY <1>1, PInvariant, PTL

\* What lies at the output path of a file that run_file_conversion left DONE was made
\* with the mapping file its row names: the tasks that share the path, the failed ones
\* that wrote to it and the retries of older requests do not disturb it.
THEOREM MappingsAreUsed == Atomic => (Spec => []MappingIsUsed)
<1>1. AInv => MappingIsUsed
  BY DEF AInv
<1> QED
  BY <1>1, AInvariant, PTL

\* A file that is PENDING or IN_PROGRESS, so that convert refuses it, has a task of
\* run_file_conversion that ends the state, or one that was never sent or is stuck at
\* its mapping file; the full saves of set_portfolio_valid bring no such state back.
THEOREM ConversionsAttended == Atomic => (Spec => []ConversionAttended)
<1>1. AInv => ConversionAttended
  BY DEF AInv
<1> QED
  BY <1>1, AInvariant, PTL

\* Two tasks of run_file_conversion never convert the same file at once.
THEOREM ConversionsAlone == Atomic => (Spec => []OneConversion)
<1>1. AInv => OneConversion
  BY DEF AInv
<1> QED
  BY <1>1, AInvariant, PTL

\* _delete_related_file and the recorders never delete the portfolio with a file.
THEOREM PortfolioSurvives == Atomic => (Spec => []Survives)
<1>1. AInv => Survives
  BY DEF AInv, RowOK, Survives
<1> QED
  BY <1>1, AInvariant, PTL

\* An exposure run that record_exposure_output completed has its result file.
THEOREM ExposuresHaveFiles == Atomic => (Spec => []ExposureHasFile)
<1>1. AInv => ExposureHasFile
  BY DEF AInv, RowOK, Stored, ExposureHasFile, FileColumns, Live
<1> QED
  BY <1>1, AInvariant, PTL

\* A task of the internal worker whose file is gone lost it to a request that deleted
\* it while both were under way, never to the recorder of its own transformation.
THEOREM FilesLostToRivals == Atomic => (Spec => []LostToRival)
<1>1. AInv => LostToRival
  <2> SUFFICES ASSUME AInv, NEW r \in Request, req[r].pc \in AtWorker, Fetched(r) # NoKey,
                      takenBy[Fetched(r)] # 0
               PROVE  takenBy[Fetched(r)] \in req[r].rivals
    BY DEF LostToRival
  <2>1. SourceKept(req[r]) /\ req[r].pc \notin {"idle"} \cup Over /\ req[r].pc \notin InHandler
    BY Places DEF AInv
  <2> QED
    BY <2>1 DEF SourceKept, Fetched
<1> QED
  BY <1>1, AInvariant, PTL
=============================================================================
