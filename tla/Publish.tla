------------------------------ MODULE Publish -------------------------------
(***************************************************************************)
(* update_docs.py followed by the document checks of validate.py: the     *)
(* renderer's runs (UpdateDocs) and what check_markers_and_dates asks of  *)
(* the documents they leave (DocChecks).                                  *)
(***************************************************************************)
EXTENDS UpdateDocs, DocChecks

\* A run of update_docs.py has finished: it rendered every document and
\* stamped README.md, and no run has started since.
RunFinished == pc = Idle /\ runs > 0 /\ stamped = runs

\* Spec 4.5/4.6: once a run of update_docs.py has finished, validate.py's
\* document checks pass: every document has both markers, no
\* "_自動更新待ち_" placeholder and a valid first last_updated line, and so
\* has README.md.
FinishedRunPassesValidation ==
  RunFinished =>
    /\ \A sec \in Sections : \A i \in DOMAIN DOC_CHECKS :
         DocPasses(DOC_CHECKS[i], docs[sec])
    /\ LastUpdatedValid(readme)
=============================================================================
