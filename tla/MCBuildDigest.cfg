\* Section coverage and the stable newest-first order of every section.
CONSTANTS
  NoValue = NoValue
  Today = 9
  PdfUrls <- MCPdfUrls
  Artifacts <- MCArtifacts
SPECIFICATION Spec
INVARIANT TypeOK SectionCoverage SectionsNewestFirstStable
\* build_digest.py exits after writing the digest.
CHECK_DEADLOCK FALSE
