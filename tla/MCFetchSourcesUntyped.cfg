\* With --include-external false, a source without source_type is fetched
\* and its record says source_type "external".
CONSTANTS
  NoValue = NoValue
  Today = 9
  PdfUrls <- MCPdfUrls
  Responses <- MCResponses
  Manifest <- ManifestUntyped
  IncludeExternal = FALSE
  Workers = {w1, w2}
  RunDays = {9, 10}
SPECIFICATION Spec
INVARIANT NoExternalWhenExcluded
\* main() returns once the artifact is written.
CHECK_DEADLOCK FALSE
