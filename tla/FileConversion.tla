--------------------------- MODULE FileConversion ---------------------------
(***************************************************************************)
(* The RelatedFile table and the conversion of an uploaded file with a     *)
(* mapping file.  The convert view marks the file PENDING and sends        *)
(* run_file_conversion, which marks it IN_PROGRESS, converts for a long    *)
(* time to a path that is the same for every conversion of the file, and   *)
(* saves the object it read at the start, with the outcome.                *)
(* An exception of the task is retried (autoretry_for), and the retry goes *)
(* through the same door: it looks at the state the file is in.            *)
(***************************************************************************)
EXTENDS Naturals

CONSTANTS
  MaxFiles,    \* bound: rows of the file table
  MaxConvs,    \* bound: conversion requests
  MaxRetries,  \* max_retries of run_file_conversion (2 in the code)
  Atomic       \* TRUE: what a request or a recorder does between its read and
               \* its save is not interrupted (each takes milliseconds)

ASSUME FilesAssumption ==
  /\ MaxFiles \in Nat
  /\ MaxConvs \in Nat
  /\ MaxRetries \in Nat
  /\ Atomic \in BOOLEAN

VARIABLES
  files,   \* the file table
  output,  \* the storage: the request whose mapping made what lies at the output path
  conv     \* the conversion requests and their tasks

File  == 1..MaxFiles
Conv  == 1..MaxConvs
NoKey == 0             \* the null foreign key, of files and of mappings

ConversionState == {"NONE", "PENDING", "IN_PROGRESS", "DONE", "ERROR"}

\* is_ready of the code.
Ready == {"NONE", "ERROR", "DONE"}

\* mapping: the request whose mapping file is recorded; converted: whether
\* converted_file names the output path.
FileRow == [at : {"unused", "live", "deleted"}, validated : BOOLEAN,
            state : ConversionState, mapping : 0..MaxConvs, converted : BOOLEAN]

Unused == [at |-> "unused", validated |-> FALSE, state |-> "NONE",
           mapping |-> NoKey, converted |-> FALSE]
Fresh  == [Unused EXCEPT !.at = "live"]

NoConv == [pc |-> "idle", file |-> NoKey, retries |-> 0, obj |-> Unused]

\* The next free key of the table; a row that exists.
NewFile == CHOOSE f \in File : /\ files[f].at = "unused"
                               /\ \A g \in 1..(f - 1) : files[g].at # "unused"
Live(f) == f # NoKey /\ files[f].at = "live"

\* A task past the state check, until it has saved its outcome.
Working == {"converting", "written"}

\* The restriction named by Atomic, for this module's own requests and tasks.
ConvIdle == Atomic => \A c \in Conv : conv[c].pc \notin {"begun", "read"}

-----------------------------------------------------------------------------
\* Mutant: the retries have no end.
RetriedAlways(c) == [conv[c] EXCEPT !.pc = "queued", !.retries = @ + 1, !.obj = Unused]

\* A task that raised is sent again while it has retries left.
Retried(c) == IF conv[c].retries < MaxRetries
              THEN [conv[c] EXCEPT !.pc = "queued", !.retries = @ + 1, !.obj = Unused]
              ELSE [NoConv EXCEPT !.pc = "done"]

\* convert: the view reads the file ...
BeginConvert(c, f) ==
  /\ conv[c].pc = "idle"
  /\ \A d \in 1..(c - 1) : conv[d].pc # "idle"
  /\ ConvIdle
  /\ Live(f)
  /\ conv' = [conv EXCEPT ![c] = [NoConv EXCEPT !.pc = "begun", !.file = f, !.obj = files[f]]]
  /\ UNCHANGED <<files, output>>

\* ... and starts the conversion if the state it read allows that: the save, then
\* the message, which may not get out.
StartConversion(c, sent) ==
  LET obj == [conv[c].obj EXCEPT !.state = "PENDING", !.mapping = c] IN
  /\ conv[c].pc = "begun"
  /\ conv[c].obj.state \in Ready
  /\ files' = [files EXCEPT ![conv[c].file] = obj]
  /\ conv' = [conv EXCEPT ![c].pc = IF sent THEN "queued" ELSE "unsent", ![c].obj = Unused]
  /\ output' = output

RefuseConversion(c) ==
  /\ conv[c].pc = "begun"
  /\ conv[c].obj.state \notin Ready
  /\ conv' = [conv EXCEPT ![c] = [NoConv EXCEPT !.pc = "done"]]
  /\ UNCHANGED <<files, output>>

\* run_file_conversion: the row is read, if it is still there (the task raises if not) ...
ReadFile(c) ==
  /\ conv[c].pc = "queued"
  /\ ConvIdle
  /\ conv' = [conv EXCEPT ![c] = IF Live(@.file)
                                 THEN [@ EXCEPT !.pc = "read", !.obj = files[conv[c].file]]
                                 ELSE Retried(c)]
  /\ UNCHANGED <<files, output>>

\* Mutant: a conversion in progress is not in the way.
MayConvertAlways(state) == TRUE

\* ... "already in progress" ends the task without an error ...
MayConvert(state) == state \in Ready \cup {"PENDING"}

AlreadyInProgress(c) ==
  /\ conv[c].pc = "read"
  /\ ~MayConvert(conv[c].obj.state)
  /\ conv' = [conv EXCEPT ![c] = [NoConv EXCEPT !.pc = "done"]]
  /\ UNCHANGED <<files, output>>

\* ... and otherwise the file is marked.
MarkInProgress(c) ==
  LET obj == [conv[c].obj EXCEPT !.state = "IN_PROGRESS"] IN
  /\ conv[c].pc = "read"
  /\ MayConvert(conv[c].obj.state)
  /\ files' = [files EXCEPT ![conv[c].file] = obj]
  /\ conv' = [conv EXCEPT ![c].pc = "converting", ![c].obj = obj]
  /\ output' = output

\* The mapping file is read outside the try block: its error leaves the file
\* IN_PROGRESS, and every retry takes the task for a double.
MappingFails(c) ==
  /\ conv[c].pc = "converting"
  /\ conv' = [conv EXCEPT ![c].pc = "stuck", ![c].obj = Unused]
  /\ UNCHANGED <<files, output>>

\* Mutant: the task converts with the mapping file of the request it was sent for.
WriteOutputOfRequest(c) ==
  /\ conv[c].pc = "converting"
  /\ output' = [output EXCEPT ![conv[c].file] = c]
  /\ conv' = [conv EXCEPT ![c].pc = "written"]
  /\ files' = files

\* The converter writes its output, with the mapping of the row that was read.
WriteOutput(c) ==
  /\ conv[c].pc = "converting"
  /\ output' = [output EXCEPT ![conv[c].file] = conv[c].obj.mapping]
  /\ conv' = [conv EXCEPT ![c].pc = "written"]
  /\ files' = files

\* Mutant: the outcome of a failed conversion is not saved.
SaveOutcomeOfSuccess(c, ok) ==
  IF ok THEN [conv[c].obj EXCEPT !.state = "DONE", !.converted = TRUE]
  ELSE conv[c].obj

\* The object as the finally block saves it, every column of it: a row that was
\* deleted during the conversion is inserted again.
SaveOutcome(c, ok) ==
  IF ok THEN [conv[c].obj EXCEPT !.state = "DONE", !.converted = TRUE]
  ELSE [conv[c].obj EXCEPT !.state = "ERROR"]

\* A conversion fails before its output is written, or with it written already.
EndConversion(c, ok) ==
  /\ conv[c].pc \in IF ok THEN {"written"} ELSE Working
  /\ files' = [files EXCEPT ![conv[c].file] = SaveOutcome(c, ok)]
  /\ conv' = [conv EXCEPT ![c] = IF ok THEN [NoConv EXCEPT !.pc = "done"] ELSE Retried(c)]
  /\ output' = output

Converting(c) ==
  \/ StartConversion(c, TRUE) \/ StartConversion(c, FALSE) \/ RefuseConversion(c)
  \/ ReadFile(c) \/ AlreadyInProgress(c) \/ MarkInProgress(c) \/ MappingFails(c)
  \/ WriteOutput(c) \/ EndConversion(c, TRUE) \/ EndConversion(c, FALSE)

-----------------------------------------------------------------------------
FilesTypeOK ==
  /\ files \in [File -> FileRow]
  /\ output \in [File -> 0..MaxConvs]
  /\ conv \in [Conv -> [pc : {"idle", "begun", "unsent", "queued", "read", "converting",
                              "written", "stuck", "done"},
                        file : 0..MaxFiles, retries : 0..MaxRetries, obj : FileRow]]

\* A file is converted by one task at a time: both would write the same output
\* path, and the state is the only thing that keeps a second request, or the retry
\* of a failed task, from working beside the first.
OneConversion ==
  \A c, d \in Conv : c # d /\ conv[c].pc \in Working /\ conv[d].pc \in Working
                       => conv[c].file # conv[d].file

\* No conversion is forgotten.  convert refuses a file that is PENDING or
\* IN_PROGRESS; such a file has a task that will still end the state, whatever
\* failures, retries, rival requests and validations came before.  There are two
\* exceptions: the last request saved its PENDING and could not send its task, or
\* the task could not read its mapping file.
ConversionAttended ==
  \A f \in File : files[f].at = "live" =>
    /\ files[f].state = "PENDING" =>
         \E c \in Conv : /\ conv[c].file = f
                         /\ \/ conv[c].pc = "queued"
                            \/ conv[c].pc = "read" /\ MayConvert(conv[c].obj.state)
                            \/ conv[c].pc = "unsent" /\ files[f].mapping = c
    /\ files[f].state = "IN_PROGRESS" =>
         \E c \in Conv : conv[c].file = f /\ conv[c].pc \in Working \cup {"stuck"}
=============================================================================
