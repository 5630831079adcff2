\* Renderer runs, one of which may be killed inside write_text: a later
\* run that finishes can leave a document validate.py rejects.
CONSTANTS
  DocKeys <- MCDocKeys
  Digests <- MCDigests
  Dates = {3, 4}
  MaxRuns = 3
  InitialDocs <- MCInitialDocs
  InitialReadme <- MCReadme
  Embedded <- MCEmbedded
SPECIFICATION CrashSpec
INVARIANT FinishedRunPassesValidation
CHECK_DEADLOCK FALSE
