# TLA+ models of the `scripts/codex` documentation pipeline

These modules model the four scripts under `src/scripts/codex/`. The scripts
turn a manifest of web sources into the generated blocks of the research
documents:

```
sources.yaml ─► fetch_sources.py ─► artifact.json ─► build_digest.py ─► digest.json
                                                                             │
          docs/*.md, README.md ◄── update_docs.py ◄──────────────────────────┘
                    │
                    └──► validate.py (manifest, markers, dates, links)
```

## Parts of the system and how they interact

| Part | Code | What it does | Interacts with |
|---|---|---|---|
| Manifest loader | `load_manifest` in fetch_sources.py and validate.py | reads `sources.yaml` | fetcher, validator |
| Source fetcher | `fetch_sources.main` | filters out external sources unless they are included, runs `fetch_one` on a `ThreadPoolExecutor`, collects with `as_completed`, sorts by id, writes the artifact | the network and the thread pool |
| Content extractor | `extract_title`, `extract_date`, `extract_headings`, `extract_excerpt`, `normalize_date` | regex extraction from the HTML | fetcher |
| Record normaliser | `fetch_one` | builds one record per source, including for errors | fetcher |
| Digest builder | `build_digest.py` | builds the claims, files them into sections, sorts the sections newest first, lists failures | reads the artifact |
| Doc renderer | `update_docs.py` | replaces the block between the markers in each DOC_MAP document, stamps `last_updated`, stamps README.md | reads the digest, rewrites the docs |
| Validator | `validate.py` | checks file structure, markers, dates, manifest fields and (optionally) links | reads docs and manifest |

The only concurrency is in the fetcher: the pool threads and the main thread
that collects their futures. The other stages run one after another. The
renderer changes persistent state (the documents) across runs.

## Modules

| Module | Models | State and actions |
|---|---|---|
| `FetchRecord` | `fetch_one`, the external filter, the sort key | Pure operators. `FetchOneAt(s, r, now)` is the record for source `s` and HTTP outcome `r`, entered on UTC date `now`, and `FetchOne(s, r)` is that record on the run's date `Today`. The cases are exception, `>= 400`, HTML, PDF or other content. `ExtractHeadings` is empty because of the `H_PATTERN` bug (see hazards). |
| `Extract` | `clean_text`, `normalize_date`, `extract_title`, `extract_date` | Pure operators over a page abstracted to the matches the regexes would find, in document order: `<title>`, `<h1>/<h2>` and the `DATE_PATTERNS` meta matches (`p` is the pattern's index). A text is a sequence of pieces (words, tags, escaped markup, spaces), and a date value holds ISO and slash tokens. `extract_date` is the RECURSIVE `DateFrom`, one pattern at a time, looking at each pattern's first match only. `FetchRecord` calls these on an HTML response. |
| `ListSort` | `list.sort(key=...)`, optionally with `reverse=True` | A stable sort, defined by each element's place. Python's sort is stable, and `reverse=True` keeps ties in order. |
| `FetchSources` | `fetch_sources.main` | Variables are the main thread's `pc`, the executor `queue`, each thread's `busy` slot, the futures' `result`, the futures `yielded` so far, `records` and `out`, the UTC date `clock`, and the date `captured[i]` that fetch_one of source i read on entry. Actions: `Start` (filter and submit), `Take(w)` (the dequeue), `ReadClock(w)` (fetch_one's first line, a separate step, so another thread may dequeue later and read the clock first), `Complete(w)` (the rest of `fetch_one`), `Collect` (one `as_completed` step), `Finish` (sort and write), and `Tick`, which moves the clock to a later date in `RunDays`. |
| `FetchAbstract` | what the fetch stage promises | One step that writes the stable sort of `Records(cap)`, the records of the selected sources each captured on a date of the run (`Captures`: any mix of the run's dates), (bound once with `\E` so that TLC's ENABLED check of the fairness condition does not re-evaluate them inside the sort). `FetchSources` refines its safety part, `SafetySpec`, with `finished <- (pc = "done")`. `Pipeline` fixes `RunDays` to `{Today}`. |
| `BuildDigest` | `build_digest.main` | `Build` writes `Digest(records)`: claims, sections, sort, failures. Every operator keeps its Python name. |
| `UpdateDocs` | `update_docs.main` over several runs | Variables: `docs`, `readme`, `pc` (the next DOC_MAP entry), the run's `digest` and `today`, and auxiliary history (`rendered`, `from`, `stamped`). Actions: `StartRun`, `RenderDoc` (writes `Updated(sec)`), `MarkersMissing` (ValueError ends the run), `StampReadme`. |
| `TornWrite` | update_docs.py killed inside `write_text` | `WriteKilled` and `ReadmeWriteKilled` leave a proper prefix of the text being written (`TornPrefixes`) and end the run. `CrashSpec` adds them to `Next`. `Spec` stays fault-free for the passing runs. |
| `DocTokens` | the document text both scripts read | Markers, the `last_updated` line (well formed or not), the placeholder, and `HasMarkers`. |
| `Validate` | `validate.main` | One action per check, in main()'s order: `CheckFileStructure`, `CheckMarkersAndDates`, `LoadManifest`, `CheckSources`, then `SkipLinks`, or one `CheckLink` per HEAD request and `ReportLinks`. `check_sources` is the RECURSIVE `CheckFrom`, which carries the ids and urls seen so far. `verdict` records the first failed check and where it failed. |
| `Handoff` | what the later stages do with a manifest value of the wrong type | Pure operators. fetch_one copies id, name and tags verbatim. `SortRaises` is the sort of fetch_sources.py meeting a number id next to a string key. `summarize_claim_raises` and `normalize_sections_raises` are build_digest.py's `.strip()` on a number name or id, and its iteration over number tags. `TagsReadAsCharacters` is the same iteration over a string. `normalize_known_date` is fetch_one's reading of a known_date: a YAML date, a string, or a datetime (kept with its time part). `Validate` extends it. |
| `DocChecks` | what `check_markers_and_dates` asks of one document | `LastUpdatedValid` and `DocPasses`, shared by `Validate` and `Publish`. |
| `Publish` | update_docs.py, then validate.py's document checks | Extends `UpdateDocs` with the property that a finished run leaves documents the validator accepts. |
| `Pipeline` | fetch, digest, then render (once or again) | Composes `FetchAbstract`, `BuildDigest` and `UpdateDocs` by INSTANCE. The artifact and the digest are the shared variables. `RenderStart` is `StartRun` reading this pipeline's digest. `ClaimEmbedded` derives the marker text a claim carries from the markup that `clean_text` decoded in the page title. |
| `MCData`, `MC*` | model values | HTTP outcomes, manifests, digests and documents. |

### Data abstraction

- Ids and dates are naturals, ordered the way their strings compare. A missing id is 0, which `or ""` sorts first.
- Titles are tagged with where they came from (`"page"`, `"name"` or `"id"`).
- A claim's text is a tuple naming the fields it is built from.
- A document is a sequence of tokens: markers, a date stamp, prose, and the rows the renderer emits. `Embedded(c)` lists the marker tokens that a claim's text carries. In `Pipeline` it comes from the page title; in `MCUpdateDocs` claims carry none.
- The table layout, newlines and escaping are left out. The marker and stamp structure, which every property is about, is kept exactly.

## Runs

| Run | Config | Expect | What it shows |
|---|---|---|---|
| fetch_pool | `MCFetchSources.cfg` | pass | 3 sources, 2 threads, every mix of the 4 HTTP outcomes, and a clock that may pass midnight between any two clock reads. In every interleaving the artifact has one record per source (`OneRecordPerSource`), and the pool writes what the abstract fetch writes: the records sorted by id, each on the date its own fetch read (`FetchRefinesAbstract`). No liveness is claimed; see Fairness. |
| fetch_untyped_external | `MCFetchSourcesUntyped.cfg` | violation | A source without `source_type` survives `--include-external false` and is recorded as external (`NoExternalWhenExcluded`). |
| digest_sections | `MCBuildDigest.cfg` | pass | Over every artifact the 5-source manifest can yield: each claim is in the timeline once and in exactly the sections its tags name, or in the catch-all section (`SectionCoverage`). Sections are newest first, with ties kept in record order (`SectionsNewestFirstStable`). |
| render_runs | `MCUpdateDocs.cfg` | pass | 3 runs, 2 digests, 2 dates, and documents with and without markers. A written document keeps exactly one marker pair (`WrittenDocsWellFormed`). Re-rendering the same digest changes only stamps (`RenderIdempotent`). README.md is stamped only after every document was rendered (`ReadmeStampedLast`). A finished run leaves documents that pass validate.py's document checks (`FinishedRunPassesValidation`). |
| render_end_before_start | `MCUpdateDocsEndFirst.cfg` | violation | END before START is accepted, and the document is rewritten with duplicated content. |
| render_torn_write | `MCUpdateDocsTornWrite.cfg` | violation | Under `CrashSpec`, a run is killed inside `write_text` after the END marker of a document whose `last_updated` line is a footer. The next run accepts the prefix, finds no stamp to rewrite, finishes and stamps README.md. The document then fails validate.py (`FinishedRunPassesValidation`). |
| validate_sources | `MCValidate.cfg` | pass | For every manifest of up to 3 sources built from 13 variants, `check_sources` fails exactly when the spec's manifest invariant fails, and blames the first source where a prefix becomes invalid (`SourcesVerdictMatchesReference`). Each variant breaks one check or none, or has a number for a name or for tags, or a string for tags, which validate.py does not read. Every known_date it accepts is one that fetch_one's `normalize_known_date` records as that same date, so the abstraction of `FetchRecord` (known_date copied as given) is sound on validated manifests (`AcceptedKnownDatesNormalized`). With `CHECK_LINKS=1`, every url is requested and every broken one is listed (`BrokenLinksAllReported`). |
| validate_accepts_crashing_manifest | `MCValidateAcceptsCrashing.cfg` | violation | `check_sources` accepts a manifest with `name: 2024` (or `tags: 1`), and build_digest.py then raises on it. With `tags: timeline` it files the source as untagged (`AcceptedManifestProcessable`). |
| validate_misordered_markers | `MCValidateMisordered.cfg` | violation | The validator prints OK for a document with END before START, or with two blocks (`AcceptedDocsWellFormed`). |
| pipeline_dates | `MCPipeline.cfg` | pass | Fetch, digest and two runs of update_docs.py. A claim's date is the page date, else `known_date`, else the capture date (`ClaimDatesResolved`). The page date is given by an independent definition, `PageDate`: the first match of the most important pattern whose first match holds a date. The rendered timeline document lists every submitted source exactly once, newest first (`TimelineDocComplete`). |
| pipeline_title_injects_end | `MCPipelineInjectedEnd.cfg` | violation | A page whose `<title>` holds `&lt;!-- AUTO-GENERATED:END --&gt;` reaches the timeline row as the END marker. The second render ends the block there, and the rows after it appear twice (`TimelineDocComplete`). |
| pipeline_spec_example | `MCPipelineSpecExample.cfg` | violation | The spec 8 example page gives the claim "Foo" instead of "Foo / Bar" (`HeadingsReachClaims`). |

Each property of a passing run has a mutant in PROJECT.json. The mutant is a
plausible bug in the modelled code, and TLC finds it.

### Bounds

- Fetch: 3 sources against 2 threads means a source must wait in the queue, and threads can finish out of order. The 4 outcomes (HTML page, PDF, 404, timeout) cover every branch of `fetch_one`. `RunDays` is 2 dates: one midnight per run, which the timeout bounds make the most a run can cross.
- Digest: the 5 sources have a date tie, one is tagged only with the timeline, one is untagged, and one has id 0. All `4^5` response combinations are checked.
- Validate: 2380 manifests (every list of at most 3 of the 13 source variants, plus a malformed file). Duplicates need 2 sources. A failure at the third source needs a valid prefix of 2. There are 6 HEAD outcomes (200, 403, 404, 503, 429, exception) over up to 3 urls.
- Pipeline: all `4^5` outcome combinations for the digest manifest, each with the operations and timeline documents either intact or missing END, and 2 render runs. The date fallback differs only for a timed-out source that has a `known_date`, and that case is included. The article page has two `<time datetime>` matches, the first without a date, so the first-match rule matters. The injected-title run uses 2 outcomes (that page, 404) over the same 5 sources.
- Torn write: every proper prefix of every text written, over the render bounds.
- Render: 3 runs let one digest be rendered twice in a row (idempotence) and a run fail after an earlier one succeeded. Documents include one without markers, so runs die part-way through.

### Fairness

`FetchSources` states weak fairness only of the steps that cannot block:
an idle pool thread takes queued work, a thread that entered fetch_one reads
the clock, and the main thread moves on. `Complete` (the GET) has none:
`requests.get(..., timeout=20)` bounds the connect and each read, not the
whole response or DNS, so a server that keeps sending can hold a thread
forever. The fetch phase is therefore not shown to end, and the refinement
is checked against the abstract fetch's safety part only. `Tick` has no
fairness: a run need not cross midnight. `UpdateDocs`,
`BuildDigest`, `Validate` and `Pipeline` state only safety properties and need
no fairness.
`MCFetchSources.cfg` sets `CHECK_DEADLOCK FALSE` because the script terminates
after the write.

## Findings

1. `build_digest.py:53`: validate.py does not check the type of `name` or `tags`. A manifest it accepts with a number there makes build_digest raise, and no digest is written. A string for `tags` files the source as untagged.
2. `fetch_sources.py:194`: the filter uses the raw `source_type`, but the record uses the default `"external"`.
3. `update_docs.py:86-91`: END before START is accepted and duplicates content.
4. `update_docs.py:90`: a page title written with entities becomes an END marker in the timeline row, and the next render duplicates rows.
5. `fetch_sources.py:29`: `H_PATTERN` (and `SCRIPT_STYLE_PATTERN`, line 31) never match, because `\\1` in a raw string is not a backreference. No headings are ever extracted.
6. `update_docs.py:119`: `write_text` is not atomic. A run killed after the END marker loses the document's tail for good. The next run's `last_updated` substitution (line 95) silently matches nothing, and README.md is stamped anyway.
7. `validate.py:56`: the marker check accepts the misordered documents that the renderer corrupts.

## Not modelled

- YAML, JSON and file I/O.
- argparse.
- The regexes of the content extractor. A page is the list of matches they would produce. `extract_excerpt` and `content_sha256` are opaque, because no property reads them.
- The message texts of `fail()` and the prints.
- Wrongly typed values inside the fetch and digest state machines. `Handoff` decides whether a manifest makes them raise; the machines themselves model ids as strings and tags as sets.
- Duplicate ids in fetch_sources.py. The order of two records that share an id follows completion order, so the artifact is not deterministic. The validator rejects such a manifest, and `FetchRefinesAbstract` is checked on the validated kind.
- The clock in `Pipeline` and `BuildDigest`. Those use one capture date (`Today`); `FetchSources` models the midnight crossing.
- A clock that goes backwards (an NTP step). `Tick` only moves forward.
- Marker text reaching a claim through the excerpt fallback (`build_digest.py:72`). `ClaimEmbedded` takes markup from the page title only; the excerpt is opaque.
- `load_manifest` in fetch_sources.py, which raises before any fetch on a file without `sources`. Its twin in validate.py is modelled (`LoadManifest`).
- A crash while writing the artifact or the digest (`open("w")` + `json.dump`). The next stage's `json.loads` fails loudly, so nothing is silently lost.
- An escaped marker longer than the claim's 180-character cut. The model keeps the whole title.

## Plan

1. Validate after render in `Pipeline`: the validator's document checks on the documents this fetch produced, so that a page title that injects a marker is followed through to `validate.py`.
