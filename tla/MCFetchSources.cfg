\* Worker pool on a validated manifest, with a clock that may pass midnight:
\* count invariant and refinement of the one-step abstract fetch.
CONSTANTS
  NoValue = NoValue
  Today = 9
  PdfUrls <- MCPdfUrls
  Responses <- MCResponses
  Manifest <- ManifestDistinct
  IncludeExternal = TRUE
  Workers = {w1, w2}
  RunDays = {9, 10}
SPECIFICATION Spec
INVARIANT TypeOK OneRecordPerSource
PROPERTY FetchRefinesAbstract
\* main() returns once the artifact is written.
CHECK_DEADLOCK FALSE
