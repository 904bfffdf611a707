--------------------------- MODULE ChunkedLookup ---------------------------
(***************************************************************************)
(* One request for generate_and_run in run mode V2, from its validation to *)
(* the merged keys: how many chunks the work is split into, which rows     *)
(* each lookup chunk gets, and what collect_keys makes of them.            *)
(*                                                                         *)
(* The request counts locations and events and sends the counts along; the *)
(* start task reads the chunking options again, and the links to the files *)
(* of the portfolio, whatever became of them in between.  The hook may     *)
(* change the exposure and splits it once for all the chunks; an older API *)
(* does not tell it how many there are, and then each chunk loads the full *)
(* exposure and keeps its own rows.                                        *)
(***************************************************************************)
EXTENDS Integers, FiniteSets, SequencesExt

CONSTANTS
  MaxRows,     \* bound: rows of an exposure file
  MaxCount,    \* bound: chunk counts and sizes in the options, and events
  MaxEdits,    \* bound: edits between the request and the start task
  SentOptions, \* the chunking options that clients post
  Null         \* None

ASSUME ChunkAssumption ==
  /\ MaxRows \in Nat /\ MaxCount \in Nat \ {0} /\ MaxEdits \in Nat
  /\ Null \notin Nat
  /\ \A o \in SentOptions : \* what the serializer lets through: only the fixed counts
                             \* may be null, and no number is below one
       /\ {o.lookup_strategy, o.loss_strategy} \subseteq {"FIXED_CHUNKS", "DYNAMIC_CHUNKS"}
       /\ {o.dynamic_locations_per_lookup, o.dynamic_events_per_analysis,
           o.dynamic_chunks_max} \subseteq 1..MaxCount
       /\ {o.fixed_lookup_chunks, o.fixed_analysis_chunks} \subseteq {Null} \cup 1..MaxCount

VARIABLES
  options,    \* the ModelChunkingOptions row that get_chunking_options finds
  portfolio,  \* the rows of its exposure, and whether they are in a location file
  edits,      \* how often options or portfolio were edited since the request
  run,        \* the request: its arguments, then its chain of tasks
  keys        \* the rows for which each lookup chunk has stored keys

vars == <<options, portfolio, edits, run, keys>>

-----------------------------------------------------------------------------
(* Chunk counts.                                                           *)

Least(a, b)   == IF a <= b THEN a ELSE b
Ceil(a, b)    == (a + b - 1) \div b

\* Mutants: dynamic_chunks_max is forgotten; the rows do not bound a fixed count.
UncappedLookupChunks(o, loc_lines) ==
  IF o.lookup_strategy = "FIXED_CHUNKS"
  THEN IF o.fixed_lookup_chunks = Null \/ loc_lines = Null THEN o.fixed_lookup_chunks
       ELSE Least(o.fixed_lookup_chunks, loc_lines)
  ELSE IF loc_lines = Null THEN Null ELSE Ceil(loc_lines, o.dynamic_locations_per_lookup)
UnscaledLookupChunks(o, loc_lines) ==
  IF o.lookup_strategy = "FIXED_CHUNKS" THEN o.fixed_lookup_chunks
  ELSE IF loc_lines = Null THEN Null
       ELSE Least(Ceil(loc_lines, o.dynamic_locations_per_lookup), o.dynamic_chunks_max)

\* Null stands for the TypeError of arithmetic on None.
get_inputs_generation_chunks(o, loc_lines) ==
  IF o.lookup_strategy = "FIXED_CHUNKS"
  THEN IF o.fixed_lookup_chunks = Null \/ loc_lines = Null THEN o.fixed_lookup_chunks
       ELSE Least(o.fixed_lookup_chunks, loc_lines)
  ELSE IF loc_lines = Null THEN Null
       ELSE Least(Ceil(loc_lines, o.dynamic_locations_per_lookup), o.dynamic_chunks_max)

get_loss_generation_chunks(o, events_total) ==
  IF o.loss_strategy = "FIXED_CHUNKS" THEN o.fixed_analysis_chunks
  ELSE IF events_total = Null THEN Null
       ELSE Least(Ceil(events_total, o.dynamic_events_per_analysis), o.dynamic_chunks_max)

\* A chord needs chunks: zip(*[]) cannot be unpacked.
Dispatchable(chunks) == chunks # Null /\ chunks > 0

-----------------------------------------------------------------------------
(* The split of the exposure.                                              *)

\* An exposure is its column loc_id, with the subjects named in the order they
\* first appear (what pd.factorize makes of any names).
Subjects(rows) == {rows[i] : i \in DOMAIN rows}
Exposure == {rows \in BoundedSeq(1..MaxRows, MaxRows) :
               \A i \in DOMAIN rows : rows[i] <= 1 + Cardinality({rows[j] : j \in 1..(i - 1)})}

\* np.array_split: the first (total % chunks) blocks are one larger.
BlockStart(total, chunks, c) == (c - 1) * (total \div chunks) + Least(c - 1, total % chunks)

\* Mutant: the split is by row.
ChunkOfRow(rows, chunks, i) ==
  CHOOSE c \in 1..chunks : /\ BlockStart(Len(rows), chunks, c) < i
                           /\ i <= BlockStart(Len(rows), chunks, c + 1)

\* np.repeat(...)[codes]
ChunkOf(rows, chunks, i) ==
  LET total == Cardinality(Subjects(rows)) IN
  CHOOSE c \in 1..chunks : /\ BlockStart(total, chunks, c) < rows[i]
                           /\ rows[i] <= BlockStart(total, chunks, c + 1)

\* The positions S in the order of the file.
Ascending(S) ==
  CHOOSE s \in [1..Cardinality(S) -> S] : \A i, j \in DOMAIN s : i < j => s[i] < s[j]

\* The row positions of chunk c, in the order of the file (the sort is stable).
subject_at_risk_chunk_rows(rows, chunks, c) ==
  Ascending({i \in DOMAIN rows : ChunkOf(rows, chunks, i) = c})
-----------------------------------------------------------------------------
(* The request.                                                            *)

\* What analysis and model settings say of events: how many event_ids are listed,
\* and the number_of_events of the selected event set, if the model gives one.
Selection == [ids : 0..MaxCount, set : {Null} \cup 0..MaxCount]

\* accepted: the options the request was checked against; version, rows: the
\* exposure in use, the portfolio's or the hook's; keys_data: the merged keys.
NoRun(o) ==
  [pc |-> "idle", loc_lines |-> Null, events_total |-> Null, accepted |-> o,
   selection |-> [ids |-> 0, set |-> Null], lookups |-> 0, losses |-> 0,
   version |-> "portfolio", rows |-> <<>>, sar_chunks |-> <<>>, keys_data |-> <<>>]

Init ==
  /\ options \in SentOptions
  /\ portfolio \in [location_file : BOOLEAN, rows : Exposure]
  /\ edits = 0
  /\ run = NoRun(options)
  /\ keys = <<>>

\* validate_v2_location_file: the row count, and whether it is in order.  The rows
\* that are split later are taken to be the location rows, as for property and
\* marine business; without a location file they are those of the account file.
LocLines == IF portfolio.location_file THEN Len(portfolio.rows) ELSE Null

\* Mutant: the count is not needed.
LocationsValidAlways == LocLines # Null => LocLines >= 1

LocationsValid ==
  IF portfolio.location_file THEN LocLines >= 1
  ELSE options.lookup_strategy # "DYNAMIC_CHUNKS"

\* validate_loss_generation, which looks at the event set only if no event_ids are
\* listed, and get_num_events, which uses event_ids only if there are two or more.
EventsValid(sel) ==
  options.loss_strategy = "DYNAMIC_CHUNKS" =>
    CASE sel.ids = 0 -> sel.set \notin {Null, 0}
      [] sel.ids = 1 -> sel.set # Null
      [] OTHER       -> TRUE

get_num_events(sel) ==
  IF options.loss_strategy # "DYNAMIC_CHUNKS" THEN Null
  ELSE IF sel.ids > 1 THEN sel.ids ELSE sel.set

generate_and_run(sel) ==
  /\ run.pc = "idle"
  /\ run' = IF LocationsValid /\ EventsValid(sel)
            THEN [run EXCEPT !.pc = "queued", !.loc_lines = LocLines, !.selection = sel,
                             !.events_total = get_num_events(sel)]
            ELSE [run EXCEPT !.pc = "rejected"]
  /\ UNCHANGED <<options, portfolio, edits, keys>>

\* POST chunking_configuration, of the model or the analysis; a new location file,
\* or none any more.
EditOptions(o) ==
  /\ run.pc = "queued" /\ edits < MaxEdits /\ o # options
  /\ options' = o
  /\ edits' = edits + 1
  /\ UNCHANGED <<portfolio, run, keys>>

ReplaceExposure(p) ==
  /\ run.pc = "queued" /\ edits < MaxEdits /\ p # portfolio
  /\ portfolio' = p
  /\ edits' = edits + 1
  /\ UNCHANGED <<options, run, keys>>

-----------------------------------------------------------------------------
(* The chain.                                                              *)

\* generate_input_and_losses
StartChain ==
  LET lookups == get_inputs_generation_chunks(options, run.loc_lines)
      losses  == get_loss_generation_chunks(options, run.events_total) IN
  /\ run.pc = "queued"
  /\ IF Dispatchable(lookups) /\ Dispatchable(losses)
     THEN /\ run' = [run EXCEPT !.pc = "hook", !.lookups = lookups, !.losses = losses,
                                !.rows = portfolio.rows]
          /\ keys' = [c \in 1..lookups |-> Null]
     ELSE run' = [run EXCEPT !.pc = "start_failed"] /\ keys' = keys
  /\ UNCHANGED <<options, portfolio, edits>>

\* The version and the rows of chunk c, of the chunks the exposure is split into.
Chunk(version, rows, chunks, c) ==
  [version |-> version, rows |-> subject_at_risk_chunk_rows(rows, chunks, c)]

\* Mutant: the hook's own files are not the ones that are split.
StoredRaw(version, rows, told) ==
  IF told /\ run.lookups > 1
  THEN [c \in 1..run.lookups |-> Chunk(run.version, run.rows, run.lookups, c)] ELSE <<>>

\* store_subject_at_risk_chunks, if the hook knows of two chunks or more.
Stored(version, rows, told) ==
  IF told /\ run.lookups > 1
  THEN [c \in 1..run.lookups |-> Chunk(version, rows, run.lookups, c)] ELSE <<>>

\* pre_analysis_hook; told: the API sent num_chunks to it.  The arguments of the
\* request are of no more use.
pre_analysis_hook(version, rows, told) ==
  /\ run.pc = "hook"
  /\ version = "portfolio" => rows = run.rows
  /\ run' = [NoRun(options) EXCEPT !.pc = "lookup", !.lookups = run.lookups,
                                   !.version = version, !.rows = rows,
                                   !.sar_chunks = Stored(version, rows, told)]
  /\ UNCHANGED <<options, portfolio, edits, keys>>

\* load_subject_at_risk_chunk: the stored chunk, or the own rows of the full exposure.
LoadChunk(c) ==
  IF Len(run.sar_chunks) = run.lookups THEN run.sar_chunks[c]
  ELSE Chunk(run.version, run.rows, run.lookups, c)

\* prepare_keys_file_chunk, on any worker, in any order.
prepare_keys_file_chunk(c) ==
  /\ run.pc = "lookup"
  /\ c \in DOMAIN keys /\ keys[c] = Null
  /\ keys' = [keys EXCEPT ![c] = LoadChunk(c)]
  /\ UNCHANGED <<options, portfolio, edits, run>>

\* collect_keys, the body of the chord, merges what the chunks stored, in the order
\* of the chunks.  The code then drops rows that repeat another (unique); that is
\* left out, so that a row two chunks looked up shows as one looked up twice.
collect_keys ==
  /\ run.pc = "lookup"
  /\ \A c \in DOMAIN keys : keys[c] # Null
  /\ run' = [run EXCEPT !.pc = "collected",
                        !.keys_data = FlattenSeq([c \in DOMAIN keys |-> keys[c].rows])]
  /\ UNCHANGED <<options, portfolio, edits, keys>>

Next ==
  \/ \E sel \in Selection : generate_and_run(sel)
  \/ \E o \in SentOptions : EditOptions(o)
  \/ \E p \in [location_file : BOOLEAN, rows : Exposure] : ReplaceExposure(p)
  \/ StartChain
  \/ \E version \in {"portfolio", "hook"}, rows \in Exposure, told \in BOOLEAN :
       pre_analysis_hook(version, rows, told)
  \/ \E c \in 1..MaxCount : prepare_keys_file_chunk(c)
  \/ collect_keys

Spec == Init /\ [][Next]_vars
-----------------------------------------------------------------------------
(* Properties.                                                             *)

TypeOK ==
  /\ options \in SentOptions
  /\ portfolio \in [location_file : BOOLEAN, rows : Exposure]
  /\ edits \in 0..MaxEdits
  /\ run.pc \in {"idle", "rejected", "queued", "start_failed", "hook", "lookup", "collected"}
  /\ run.loc_lines \in {Null} \cup 1..MaxRows
  /\ run.events_total \in {Null} \cup 0..MaxCount
  /\ run.rows \in Exposure
  /\ {run.lookups, run.losses} \subseteq 0..MaxCount
  /\ DOMAIN keys = 1..run.lookups

\* dynamic_chunks_max bounds the chunks of both stages when they are dynamic, and a
\* fixed lookup never has more chunks than the location file has rows.
ChunksBounded ==
  run.pc = "hook" =>
    /\ options.lookup_strategy = "DYNAMIC_CHUNKS" => run.lookups <= options.dynamic_chunks_max
    /\ options.loss_strategy = "DYNAMIC_CHUNKS" => run.losses <= options.dynamic_chunks_max
    /\ run.loc_lines # Null => run.lookups <= run.loc_lines

\* A request that was accepted can be started, unless the options were edited while
\* it was queued ("validation only allows this when the strategy is FIXED_CHUNKS"
\* does not look at an edit), a fixed count is null, or its only event id sent it
\* to an event set with no events.
AcceptedStarts ==
  run.pc = "start_failed" =>
    \/ options # run.accepted
    \/ options.lookup_strategy = "FIXED_CHUNKS" /\ options.fixed_lookup_chunks = Null
    \/ options.loss_strategy = "FIXED_CHUNKS" /\ options.fixed_analysis_chunks = Null
    \/ run.selection.ids = 1 /\ run.selection.set = 0

\* The merged keys stand for every row of the exposure in use, the one the hook made
\* if it made one, once, whoever split it and however the chunks were run.
EveryRowOnce ==
  run.pc = "collected" =>
    /\ \A c \in DOMAIN keys : keys[c].version = run.version
    /\ Len(run.keys_data) = Len(run.rows)
    /\ ToSet(run.keys_data) = DOMAIN run.rows

\* "Split by subject id rather than by row, so that every row for a subject is looked
\* up in the same chunk", and "into even blocks": no chunk has two subjects more than
\* another, so a chunk is empty only if there are more chunks than subjects.
SubjectsTogether ==
  LET Of(c) == {run.rows[i] : i \in ToSet(keys[c].rows)} IN
  run.pc = "collected" =>
    \A c, d \in DOMAIN keys : c # d =>
      /\ Of(c) \cap Of(d) = {}
      /\ Cardinality(Of(c)) <= Cardinality(Of(d)) + 1
=============================================================================
