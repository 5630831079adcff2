---------------------------- MODULE FetchRecord ----------------------------
(***************************************************************************)
(* fetch_one() of scripts/codex/fetch_sources.py: the FetchRecord that one *)
(* manifest source and one live HTTP outcome produce.  The record is a    *)
(* pure function of the two; the worker pool (FetchSources) and the       *)
(* abstract fetch (FetchAbstract) share it.                               *)
(*                                                                        *)
(* Data abstraction: ids are naturals ordered like the id strings (0 is a *)
(* missing id, which `source_id or ""` sorts first); dates are naturals   *)
(* ordered like their ISO strings; names and urls are strings; a page's   *)
(* text is as in Extract.  An HTTP outcome is a record                    *)
(*   [exc, code, ctype, html]                                             *)
(* exc: requests.get raised (timeout, DNS, reset, TLS); code: final       *)
(* status after redirects; ctype: "html", "pdf" or "other" content type;  *)
(* html: the body as an Extract page.                                     *)
(***************************************************************************)
EXTENDS Naturals, Sequences, TLC, ListSort, Extract

CONSTANTS
  PdfUrls,   \* urls that end in ".pdf"
  Today      \* date portion of datetime.now(timezone.utc) (captured_at)

\* H_PATTERN is r"<(h1|h2)[^>]*>(.*?)</\\1>": in a raw string "\\1" is a
\* literal backslash followed by "1", so the closing tag it requires is the
\* text "</\1>", which no h1/h2 element ends with.  findall() yields nothing
\* and the dedup/cap loop of extract_headings never appends.
ExtractHeadings(page) == << >>

\* `source.get("source_type", "external")`
RecordType(s) == IF s.stype = NoValue THEN "external" ELSE s.stype

\* `result.get("source_name") or source_id`.  A title is tagged with where
\* it came from: <<"page", t>>, <<"name", n>> or <<"id", i>>.
\* With neither a name nor an id the title is None.
FallbackTitle(s) == IF s.name # NoValue THEN <<"name", s.name>>
                    ELSE IF s.id # 0 THEN <<"id", s.id>>
                    ELSE NoValue

\* The dict built before the request: identity fields, the UTC date `now`
\* read on entry (line 106), and status "ok".
BaseRecord(s, now) ==
  [source_id |-> s.id, source_name |-> s.name, url |-> s.url, source_type |-> RecordType(s),
   tags |-> s.tags, known_date |-> s.known, captured |-> now]

\* The whole of fetch_one(source), entered on date `now`: the try block
\* with its three content branches and the >= 400 downgrade, and the
\* except block.
FetchOneAt(s, r, now) ==
  LET isPdf == r.ctype = "pdf" \/ s.url \in PdfUrls
      ok    == r.code < 400
      page  == ok /\ r.ctype = "html"
  IN BaseRecord(s, now) @@
     IF r.exc
     THEN [status |-> "error", error |-> "request", title |-> FallbackTitle(s),
           published_date |-> NoValue, headings |-> << >>,
           excerpt |-> "degraded_request"]
     ELSE [status |-> IF ok THEN "ok" ELSE "error",
           error  |-> IF ok THEN NoValue ELSE "http",
           title  |-> IF page /\ TitleTruthy(r.html)
                      THEN <<"page", extract_title(r.html)>>
                      ELSE FallbackTitle(s),
           published_date |-> IF page /\ extract_date(r.html) # NoValue
                              THEN extract_date(r.html)
                              ELSE s.known,
           headings |-> IF page THEN ExtractHeadings(r.html) ELSE << >>,
           excerpt  |-> IF ~ok THEN "degraded_status"
                        ELSE IF page THEN "page_text"
                        ELSE IF isPdf THEN "pdf_fetched"
                        ELSE "content_type"]

\* fetch_one in a run that does not cross midnight.
FetchOne(s, r) == FetchOneAt(s, r, Today)

\* main(): `if not include_external and source.get("source_type") ==
\* "external": continue`; the indices of the sources submitted, in manifest
\* order.  Note the raw get(): a source with no source_type is submitted.
SelectSources(manifest, includeExternal) ==
  SelectSeq([i \in 1..Len(manifest) |-> i],
            LAMBDA i : includeExternal \/ manifest[i].stype # "external")

\* The sort key `x.get("source_id") or ""`.
IdKey(rec) == rec.source_id

\* `records.sort(key=lambda x: x.get("source_id") or "")`
SortById(recs) == SortAscending(recs, IdKey)
=============================================================================
