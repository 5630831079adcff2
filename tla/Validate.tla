------------------------------ MODULE Validate ------------------------------
(***************************************************************************)
(* scripts/codex/validate.py: main() checks, in order, that the required  *)
(* files exist, that every auto-generated document has both markers, no   *)
(* "_自動更新待ち_" placeholder and a valid last_updated date, that       *)
(* README.md has a valid date, that sources.yaml has a "sources" list,    *)
(* that every source is well formed (check_sources), and, when            *)
(* CHECK_LINKS=1, that no url is broken (check_links).  The first failed  *)
(* check ends the run (fail() raises SystemExit(1)), except the link      *)
(* check, which collects every broken url and fails once.                 *)
(*                                                                        *)
(* Sources are the manifest records of MCData: an id is a natural (0 when *)
(* missing or empty), or NonStrId for a YAML scalar that is not a string; *)
(* a url is in HttpUrls when it matches ^https?://; a known_date is       *)
(* NoValue (absent or null), a natural (a YYYY-MM-DD string or a YAML     *)
(* date), DateTimeKnown (a YAML timestamp: a datetime, whose isoformat()  *)
(* has a time part) or BadKnown (a string with no date in it).          *)
(* A HEAD outcome is [exc, code]: the request raised, or the final status.*)
(* A name may be NonStrName, tags ScalarTags or StrTags (see Handoff):   *)
(* validate.py reads neither field.                                      *)
(***************************************************************************)
EXTENDS DocChecks, Handoff, FiniteSets

CONSTANTS
  AutoFiles,      \* auto_files, in order: DOC_MAP's documents (section keys)
  FileSets,       \* the sets of required files that may exist
  DocContents,    \* the contents an auto-generated document may have
  Readmes,        \* the contents README.md may have
  Manifests,      \* the "sources" lists sources.yaml may hold; NoValue when
                  \* it is not a mapping with a "sources" key
  HttpUrls,       \* urls that match URL_RE
  LinkOutcomes    \* what requests.head(url) may give

VARIABLES
  present,     \* the required files that exist under docs/codex
  docs,        \* docs[f]: the content of auto file f
  readme,      \* README.md
  manifest,    \* load_manifest(...)["sources"]
  checkLinks,  \* os.getenv("CHECK_LINKS", "0") == "1"
  pc,          \* the check main() is at, or "done"
  verdict,     \* [check, at]: "ok", or the failed check and where
  urls,        \* the source_urls check_sources returned
  next,        \* check_links: the index of the next url
  status,      \* status[k]: the HEAD outcome of urls[k], once requested
  failures     \* check_links: the indices of the broken urls, in order

vars == <<present, docs, readme, manifest, checkLinks, pc, verdict, urls,
          next, status, failures>>

\* REQUIRED_FILES: README.md, the auto files, sources.yaml.
REQUIRED_FILES == <<"README.md">> \o AutoFiles \o <<"sources.yaml">>

\* The first of `checks` that `Passes` fails, 0 when all pass.
FirstFailing(checks, Passes(_)) == SelectInSeq(checks, LAMBDA c : ~Passes(c))

\* Lines 77-99, in order, for one source, given the ids and urls before it.
SOURCE_CHECKS ==
  <<"id", "duplicate_id", "url", "duplicate_url", "source_type", "known_date">>

\* `isinstance(known_date, date)` is also true of a datetime, whose
\* isoformat() "YYYY-MM-DDTHH:MM:SS" DATE_RE.fullmatch rejects.
\* Mutant: any date instance passes, the datetime included.
KnownDateOkAnyDate(known) == known \in {NoValue, DateTimeKnown} \/ known \in Nat

KnownDateOk(known) == known = NoValue \/ known \in Nat

SourcePasses(c, s, ids, seen) ==
  CASE c = "id"            -> s.id \in Nat \ {0}
    [] c = "duplicate_id"  -> s.id \notin ids
    [] c = "url"           -> s.url \in HttpUrls
    [] c = "duplicate_url" -> s.url \notin seen
    [] c = "source_type"   -> s.stype \in {"official", "external"}
    [] c = "known_date"    -> KnownDateOk(s.known)

\* Mutant: the loop never adds to `ids`, so duplicate ids pass.
RECURSIVE CheckFromForgetIds(_, _, _, _)
CheckFromForgetIds(sources, k, ids, seen) ==
  IF k > Len(sources) THEN [check |-> "ok", at |-> 0]
  ELSE LET c == FirstFailing(SOURCE_CHECKS,
                             LAMBDA x : SourcePasses(x, sources[k], ids, seen))
       IN IF c # 0 THEN [check |-> SOURCE_CHECKS[c], at |-> k]
          ELSE CheckFromForgetIds(sources, k + 1, ids, seen \cup {sources[k].url})

\* The loop of check_sources from source k on, with the ids and urls of the
\* sources before k: the first failed check, or "ok".
RECURSIVE CheckFrom(_, _, _, _)
CheckFrom(sources, k, ids, seen) ==
  IF k > Len(sources) THEN [check |-> "ok", at |-> 0]
  ELSE LET c == FirstFailing(SOURCE_CHECKS,
                             LAMBDA x : SourcePasses(x, sources[k], ids, seen))
       IN IF c # 0 THEN [check |-> SOURCE_CHECKS[c], at |-> k]
          ELSE CheckFrom(sources, k + 1, ids \cup {sources[k].id},
                         seen \cup {sources[k].url})

check_sources(sources) == CheckFrom(sources, 1, {}, {})

\* Lines 117-121: 401/403/405 only warn; 404, 410, >= 500 and a raised
\* RequestException are broken; any other status passes.
Broken(o) ==
  \/ o.exc
  \/ /\ o.code \notin {401, 403, 405}
     /\ o.code \in {404, 410} \/ o.code >= 500

Ok == [check |-> "ok", at |-> 0]

\* fail() raises SystemExit(1) with the check that failed; "ok" is main()'s
\* last print.  Either way nothing runs after it.
Exit(check, at) == verdict' = [check |-> check, at |-> at] /\ pc' = "done"

Init ==
  /\ present \in FileSets
  /\ docs \in [{AutoFiles[i] : i \in DOMAIN AutoFiles} -> DocContents]
  /\ readme \in Readmes
  /\ manifest \in Manifests
  /\ checkLinks \in BOOLEAN
  /\ pc = "files"
  /\ verdict = Ok
  /\ urls = << >>
  /\ next = 1
  /\ status = << >>
  /\ failures = << >>

Inputs == <<present, docs, readme, manifest, checkLinks>>

\* check_file_structure (lines 40-43).
CheckFileStructure ==
  /\ pc = "files"
  /\ LET f == SelectInSeq(REQUIRED_FILES, LAMBDA x : x \notin present)
     IN IF f # 0 THEN Exit("missing_file", f)
        ELSE pc' = "docs" /\ UNCHANGED verdict
  /\ UNCHANGED <<Inputs, urls, next, status, failures>>

\* check_markers_and_dates (lines 46-67): the auto files in order, then
\* README.md's date.
CheckMarkersAndDates ==
  /\ pc = "docs"
  /\ LET FailsIn(f) == FirstFailing(DOC_CHECKS, LAMBDA c : DocPasses(c, docs[f]))
         i == SelectInSeq(AutoFiles, LAMBDA f : FailsIn(f) # 0)
     IN IF i # 0 THEN Exit(DOC_CHECKS[FailsIn(AutoFiles[i])], i)
        ELSE IF ~LastUpdatedValid(readme)
             THEN Exit("last_updated", Len(AutoFiles) + 1)
        ELSE pc' = "manifest" /\ UNCHANGED verdict
  /\ UNCHANGED <<Inputs, urls, next, status, failures>>

\* load_manifest (lines 33-37).
LoadManifest ==
  /\ pc = "manifest"
  /\ IF manifest = NoValue THEN Exit("manifest", 0)
     ELSE pc' = "sources" /\ UNCHANGED verdict
  /\ UNCHANGED <<Inputs, urls, next, status, failures>>

\* check_sources (lines 70-101) returns the urls in manifest order.
CheckSources ==
  /\ pc = "sources"
  /\ LET r == check_sources(manifest)
     IN IF r.check # "ok" THEN Exit(r.check, r.at) /\ UNCHANGED urls
        ELSE /\ urls' = [k \in DOMAIN manifest |-> manifest[k].url]
             /\ pc' = "links"
             /\ UNCHANGED verdict
  /\ UNCHANGED <<Inputs, next, status, failures>>

\* Lines 105-108: CHECK_LINKS is not "1"; main() prints OK.
SkipLinks ==
  /\ pc = "links"
  /\ ~checkLinks
  /\ Exit("ok", 0)
  /\ UNCHANGED <<Inputs, urls, next, status, failures>>

\* Mutant: fail() on the first broken url instead of collecting them.
CheckLinkFailFast ==
  /\ pc = "links"
  /\ checkLinks
  /\ next <= Len(urls)
  /\ \E o \in LinkOutcomes :
       /\ status' = Append(status, o)
       /\ IF Broken(o)
          THEN failures' = Append(failures, next) /\ Exit("links", 0)
          ELSE failures' = failures /\ UNCHANGED <<pc, verdict>>
  /\ next' = next + 1
  /\ UNCHANGED <<Inputs, urls>>

\* Lines 113-123: one HEAD request and what the loop does with it.
CheckLink ==
  /\ pc = "links"
  /\ checkLinks
  /\ next <= Len(urls)
  /\ \E o \in LinkOutcomes :
       /\ status' = Append(status, o)
       /\ failures' = IF Broken(o) THEN Append(failures, next) ELSE failures
  /\ next' = next + 1
  /\ UNCHANGED <<Inputs, pc, verdict, urls>>

\* Lines 125-126 and 138: fail once with every broken url, or print OK.
ReportLinks ==
  /\ pc = "links"
  /\ checkLinks
  /\ next > Len(urls)
  /\ IF failures # << >> THEN Exit("links", 0) ELSE Exit("ok", 0)
  /\ UNCHANGED <<Inputs, urls, next, status, failures>>

Next ==
  \/ CheckFileStructure \/ CheckMarkersAndDates \/ LoadManifest
  \/ CheckSources \/ SkipLinks \/ CheckLink \/ ReportLinks

Spec == Init /\ [][Next]_vars

-----------------------------------------------------------------------------

\* Spec 2/4.6 (3), stated over the whole manifest: every id a non-empty
\* string, every url http(s), source_type one of the two, known_date absent
\* or YYYY-MM-DD, and ids and urls unique across the manifest.
SourceValid(s) ==
  /\ s.id \in Nat \ {0}
  /\ s.url \in HttpUrls
  /\ s.stype \in {"official", "external"}
  /\ s.known = NoValue \/ s.known \in Nat

ManifestValid(m) ==
  /\ \A k \in DOMAIN m : SourceValid(m[k])
  /\ \A j, k \in DOMAIN m : j # k => m[j].id # m[k].id /\ m[j].url # m[k].url

\* check_sources has run: main() got past it or stopped in it.
SourcesChecked ==
  \/ pc = "links"
  \/ pc = "done" /\ verdict.check \in {"ok", "links"} \cup Range(SOURCE_CHECKS)

\* check_sources, a fail-fast loop that remembers the ids and urls it has
\* seen, rejects exactly the manifests that break the spec's manifest
\* invariant, and blames the first source at which a prefix of the
\* manifest stops being valid.
SourcesVerdictMatchesReference ==
  SourcesChecked =>
    /\ verdict.check \in Range(SOURCE_CHECKS) <=> ~ManifestValid(manifest)
    /\ verdict.check \in Range(SOURCE_CHECKS) =>
         /\ ~ManifestValid(SubSeq(manifest, 1, verdict.at))
         /\ ManifestValid(SubSeq(manifest, 1, verdict.at - 1))

\* Spec 4.6 (4)/7 (d): with CHECK_LINKS=1 the run fails exactly when a url
\* is broken (404, 410, 5xx or a request error), and then lists every
\* broken url, not only the first; 401/403/405 never fail it.
BrokenLinksAllReported ==
  pc = "done" /\ checkLinks /\ verdict.check \in {"ok", "links"} =>
    /\ Len(status) = Len(urls)
    /\ verdict.check = "links" <=> \E k \in DOMAIN status : Broken(status[k])
    /\ failures = SelectSeq([k \in DOMAIN urls |-> k], LAMBDA k : Broken(status[k]))

\* Spec 4.5/6: the renderer needs exactly one START/END pair, START first,
\* and the validator guards the documents it renders: a run that prints OK
\* has seen only documents the next render keeps intact.
AcceptedDocsWellFormed ==
  pc = "done" /\ verdict.check = "ok" =>
    \A i \in DOMAIN AutoFiles : WellFormed(docs[AutoFiles[i]])

\* Spec 2/7: the validator guards the manifest the later stages read
\* ("validated separately by the Validator"; a fetch failure is data, not
\* a raised failure).  A manifest check_sources accepts is one that
\* fetch_sources.py sorts, and build_digest.py summarises and files,
\* without raising, and files each source under the sections it is
\* tagged with.
AcceptedManifestProcessable ==
  pc = "links" =>
    /\ ~PipelineRaises(manifest)
    /\ \A k \in DOMAIN manifest : ~TagsReadAsCharacters(manifest[k])

\* Spec 2/4.4: known_date is "normalized to YYYY-MM-DD".  validate.py and
\* fetch_sources.py read it with two different pieces of code (lines
\* 94-99, and normalize_known_date); every known_date check_sources
\* accepts is one fetch_one records as exactly that date, and an absent one
\* stays absent, so the digest dates a source by the date that was checked.
AcceptedKnownDatesNormalized ==
  pc = "links" =>
    \A k \in DOMAIN manifest :
      normalize_known_date(manifest[k].known) = manifest[k].known
=============================================================================
