\* Claim dates and the timeline document, end to end, for every outcome
\* of every GET and a second run of update_docs.py.
CONSTANTS
  NoValue = NoValue
  Today = 9
  PdfUrls <- MCPdfUrls
  Manifest <- ManifestDigest
  IncludeExternal = TRUE
  Responses <- MCResponses
  DocKeys <- MCDocKeys
  MaxRuns = 2
  InitialDocs <- MCInitialDocs
  InitialReadme <- MCReadme
SPECIFICATION Spec
INVARIANT ClaimDatesResolved TimelineDocComplete
\* The scripts exit after writing their output.
CHECK_DEADLOCK FALSE
