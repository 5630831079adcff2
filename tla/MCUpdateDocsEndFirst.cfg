\* A document whose END marker precedes its START marker passes the
\* presence check, and the rendered document has two marker pairs.
CONSTANTS
  DocKeys <- MCDocKeys
  Digests <- MCDigests
  Dates = {3, 4}
  MaxRuns = 3
  InitialDocs <- MCInitialDocsEndFirst
  InitialReadme <- MCReadme
  Embedded <- MCEmbedded
SPECIFICATION Spec
PROPERTY WrittenDocsWellFormed
\* Runs are bounded by MaxRuns; the system stops after the last one.
CHECK_DEADLOCK FALSE
