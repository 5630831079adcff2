\* Renderer on documents with one marker pair, or a lost END marker: the
\* written documents keep one pair, re-rendering is idempotent, and the
\* index is stamped only after every document was rendered.
CONSTANTS
  DocKeys <- MCDocKeys
  Digests <- MCDigests
  Dates = {3, 4}
  MaxRuns = 3
  InitialDocs <- MCInitialDocs
  InitialReadme <- MCReadme
  Embedded <- MCEmbedded
SPECIFICATION Spec
INVARIANT ReadmeStampedLast FinishedRunPassesValidation
PROPERTY WrittenDocsWellFormed RenderIdempotent
\* Runs are bounded by MaxRuns; the system stops after the last one.
CHECK_DEADLOCK FALSE
