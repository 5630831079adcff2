------------------------------ MODULE DocChecks ------------------------------
(***************************************************************************)
(* What check_markers_and_dates of scripts/codex/validate.py asks of one  *)
(* document (lines 54-66).  Validate runs these checks; Publish states    *)
(* that a finished render leaves documents that pass them.               *)
(***************************************************************************)
EXTENDS DocTokens

\* `re.search(r'last_updated:\s*"([^"]+)"', content)` finds the first stamp
\* line of either form; DATE_RE.fullmatch accepts it only if it is a date.
LastUpdatedValid(content) ==
  LET i == SelectInSeq(content, LAMBDA t : t.k \in {"stamp", "bad_stamp"})
  IN i # 0 /\ IsStamp(content[i])

\* Lines 56-62, in order, for one auto-generated document.
DOC_CHECKS == <<"markers", "not_populated", "last_updated">>

DocPasses(c, content) ==
  CASE c = "markers"       -> HasMarkers(content)
    [] c = "not_populated" -> ~Contains(content, AWAITING)
    [] c = "last_updated"  -> LastUpdatedValid(content)
=============================================================================
