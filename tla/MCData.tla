------------------------------- MODULE MCData --------------------------------
(***************************************************************************)
(* Model values shared by the MC modules: manifests and the live outcomes *)
(* of a GET.  Ids and dates are naturals ordered like their strings.      *)
(***************************************************************************)
EXTENDS FetchRecord, ListSort

Word(w) == <<Piece("word", w)>>

\* A page with a title, a heading, a <time datetime> whose value holds no
\* date, a second one of date 6, then a JSON-LD datePublished of date 7.
ArticleHtml ==
  << [k |-> "title", v |-> Word("t_page")],
     [k |-> "h", v |-> Word("h_intro")],
     [k |-> "meta", p |-> 4, v |-> Word("soon")],
     [k |-> "meta", p |-> 4, v |-> <<Piece("iso", 6)>>],
     [k |-> "meta", p |-> 5, v |-> <<Piece("iso", 7)>>] >>

\* A 404 page: its own title, no date.
ErrorHtml == << [k |-> "title", v |-> Word("t_404")] >>

HtmlPage == [exc |-> FALSE, code |-> 200, ctype |-> "html", html |-> ArticleHtml]
PdfDoc   == [exc |-> FALSE, code |-> 200, ctype |-> "pdf", html |-> << >>]
NotFound == [exc |-> FALSE, code |-> 404, ctype |-> "html", html |-> ErrorHtml]
Timeout  == [exc |-> TRUE, code |-> 0, ctype |-> "other", html |-> << >>]

MCResponses == {HtmlPage, PdfDoc, NotFound, Timeout}

MCPdfUrls == {"u_c.pdf"}

Src(id, url, name, stype, known, tags) ==
  [id |-> id, url |-> url, name |-> name, stype |-> stype, known |-> known,
   tags |-> tags]

\* A manifest the validator accepts: distinct ids and urls.
ManifestDistinct ==
  << Src(3, "u_a", "n_a", "official", 5, {"operations"}),
     Src(1, "u_b", NoValue, "external", NoValue, {}),
     Src(2, "u_c.pdf", "n_c", "official", 3, {"timeline", "misc"}) >>

\* The second source has no source_type key.
ManifestUntyped ==
  << Src(3, "u_a", "n_a", "official", 5, {"operations"}),
     Src(1, "u_b", NoValue, NoValue, NoValue, {}),
     Src(2, "u_c.pdf", "n_c", "external", 3, {"timeline"}) >>

\* For the digest: two sources share known_date 5 (ties in the sort), one
\* has no known_date (falls back to captured_at), one has neither id nor
\* name, one is tagged only "timeline", one has no section tag, and no
\* source is tagged strategy_org.
ManifestDigest ==
  << Src(3, "u_a", "n_a", "official", 5, {"operations"}),
     Src(1, "u_b", NoValue, "external", NoValue, {}),
     Src(4, "u_d", NoValue, "external", 5, {"timeline", "misc"}),
     Src(2, "u_c.pdf", "n_c", "official", 3, {"security_governance"}),
     Src(0, "u_e", NoValue, "official", NoValue, {"operations"}) >>

\* Every artifact the fetch stage can write for a manifest: the sorted
\* records of the submitted sources, for every combination of outcomes.
ArtifactsOf(manifest, includeExternal) ==
  LET sel == SelectSources(manifest, includeExternal)
  IN { SortById([k \in DOMAIN sel |-> FetchOne(manifest[sel[k]], r[sel[k]])]) : r \in [DOMAIN manifest -> MCResponses] }
=============================================================================
