--------------------------- MODULE MCFetchSources ---------------------------
(***************************************************************************)
(* Model values for FetchSources.  Sources are listed out of id order so  *)
(* that the final sort matters; two pool threads, fewer than sources, so  *)
(* that a thread fetches twice and completions interleave; four outcomes  *)
(* per GET covering the three branches of fetch_one and both error paths. *)
(***************************************************************************)
EXTENDS FetchSources, MCData
=============================================================================
