\* The end-to-end example of spec 8: the claim should read "Foo / Bar".
CONSTANTS
  NoValue = NoValue
  Today = 9
  PdfUrls <- MCPdfUrls
  Manifest <- ManifestSpecExample
  IncludeExternal = TRUE
  Responses <- MCFooBarResponses
  DocKeys <- MCDocKeys
  MaxRuns = 2
  InitialDocs <- MCInitialDocs
  InitialReadme <- MCReadme
SPECIFICATION Spec
INVARIANT HeadingsReachClaims
\* The scripts exit after writing their output.
CHECK_DEADLOCK FALSE
