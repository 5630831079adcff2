\* A document whose markers are out of order, or doubled, passes the
\* validator, which only looks for the presence of each marker.
CONSTANTS
  NoValue = NoValue
  NonStrId = NonStrId
  NonStrName = NonStrName
  ScalarTags = ScalarTags
  StrTags = StrTags
  DateTimeKnown = DateTimeKnown
  BadKnown = BadKnown
  Today = 9
  PdfUrls <- MCPdfUrls
  AutoFiles <- MCAutoFiles
  FileSets <- MCFileSets
  DocContents <- MCDocContentsMisordered
  Readmes <- MCReadmes
  Manifests <- MCManifestsValid
  HttpUrls <- MCHttpUrls
  LinkOutcomes <- MCLinkOutcomes
SPECIFICATION Spec
INVARIANT AcceptedDocsWellFormed
\* main() returns or exits after one pass over the checks.
CHECK_DEADLOCK FALSE
