\* check_sources against the manifest invariant, over every manifest of up
\* to three sources; the known_dates it accepts against fetch_one's
\* normalize_known_date; check_links over every mix of HEAD outcomes.
CONSTANTS
  NoValue = NoValue
  NonStrId = NonStrId
  NonStrName = NonStrName
  ScalarTags = ScalarTags
  StrTags = StrTags
  DateTimeKnown = DateTimeKnown
  BadKnown = BadKnown
  Today = 9
  PdfUrls <- MCPdfUrls
  AutoFiles <- MCAutoFiles
  FileSets <- MCFileSets
  DocContents <- MCDocContents
  Readmes <- MCReadmes
  Manifests <- MCManifests
  HttpUrls <- MCHttpUrls
  LinkOutcomes <- MCLinkOutcomes
SPECIFICATION Spec
INVARIANT AcceptedKnownDatesNormalized SourcesVerdictMatchesReference
          BrokenLinksAllReported
\* main() returns or exits after one pass over the checks.
CHECK_DEADLOCK FALSE
