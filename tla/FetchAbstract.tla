---------------------------- MODULE FetchAbstract ---------------------------
(***************************************************************************)
(* What the fetch stage promises (spec 4.1, 5): given the manifest and    *)
(* the live response of every source, one step writes exactly one record  *)
(* per submitted source, sorted by source id, the same list whatever the  *)
(* completion order of the requests.  Each record carries the UTC date   *)
(* its fetch read on entry; a run may cross midnight, and then any of the *)
(* sources may be the ones with the later date.                          *)
(***************************************************************************)
EXTENDS FetchRecord, ListSort

CONSTANTS Manifest, IncludeExternal, Responses,
          RunDays   \* the UTC dates the clock shows during one run

VARIABLES
  response,  \* response[i]: what the GET of source i returns in this run
  out,       \* the "records" list of the written artifact
  finished   \* the artifact has been written

vars == <<response, out, finished>>

Selected == SelectSources(Manifest, IncludeExternal)

\* The capture dates the submitted sources may get, in submission order.
Captures == [DOMAIN Selected -> RunDays]

\* The records of the submitted sources, in submission order, captured on
\* the dates `cap`.
Records(cap) ==
  [k \in DOMAIN Selected |->
     FetchOneAt(Manifest[Selected[k]], response[Selected[k]], cap[k])]

Init ==
  /\ response \in [DOMAIN Manifest -> Responses]
  /\ out = << >>
  /\ finished = FALSE

Fetch ==
  /\ ~finished
  /\ \E cap \in Captures :
       \E recs \in {Records(cap)} : out' = SortById(recs)  \* evaluated once
  /\ finished' = TRUE
  /\ UNCHANGED response

SafetySpec == Init /\ [][Fetch]_vars
=============================================================================
