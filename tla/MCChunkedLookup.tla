-------------------------- MODULE MCChunkedLookup --------------------------
(* Instances of ChunkedLookup for TLC. *)
EXTENDS ChunkedLookup

\* Chunking options, one per way of counting and at its limits: fixed counts that
\* are null, one, or more than there are rows; dynamic ones that meet the maximum.
MCOptions ==
  {[lookup_strategy |-> l, loss_strategy |-> s, dynamic_locations_per_lookup |-> p,
    dynamic_events_per_analysis |-> 1, dynamic_chunks_max |-> 4 - p,
    fixed_lookup_chunks |-> f, fixed_analysis_chunks |-> f] :
     l \in {"FIXED_CHUNKS", "DYNAMIC_CHUNKS"}, s \in {"FIXED_CHUNKS", "DYNAMIC_CHUNKS"},
     p \in {1, 2}, f \in {Null, 3}}
=============================================================================
