\* A manifest check_sources accepts, with a number for a name or for
\* tags, raises in build_digest.py.
CONSTANTS
  NoValue = NoValue
  NonStrId = NonStrId
  NonStrName = NonStrName
  ScalarTags = ScalarTags
  StrTags = StrTags
  DateTimeKnown = DateTimeKnown
  BadKnown = BadKnown
  Today = 9
  PdfUrls <- MCPdfUrls
  AutoFiles <- MCAutoFiles
  FileSets <- MCFileSets
  DocContents <- MCDocContents
  Readmes <- MCReadmes
  Manifests <- MCManifests
  HttpUrls <- MCHttpUrls
  LinkOutcomes <- MCLinkOutcomes
SPECIFICATION Spec
INVARIANT AcceptedManifestProcessable
\* main() returns or exits after one pass over the checks.
CHECK_DEADLOCK FALSE
