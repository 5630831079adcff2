\* A page title that decodes to the END marker, rendered twice: the
\* second render keeps the rows after the injected marker.
CONSTANTS
  NoValue = NoValue
  Today = 9
  PdfUrls <- MCPdfUrls
  Manifest <- ManifestDigest
  IncludeExternal = TRUE
  Responses <- MCInjectedResponses
  DocKeys <- MCDocKeys
  MaxRuns = 2
  InitialDocs <- MCInitialDocs
  InitialReadme <- MCReadme
SPECIFICATION Spec
INVARIANT TimelineDocComplete
\* The scripts exit after writing their output.
CHECK_DEADLOCK FALSE
