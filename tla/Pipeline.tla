------------------------------ MODULE Pipeline ------------------------------
(***************************************************************************)
(* The stages one after the other: fetch_sources.py writes the artifact   *)
(* (as FetchAbstract, which the worker pool of FetchSources refines),     *)
(* build_digest.py reads it and writes the digest (BuildDigest), and      *)
(* update_docs.py renders the digest into the documents, once or again    *)
(* (UpdateDocs).  The properties relate what the network returned for a  *)
(* source to the claim, and to the row the documents show for it.         *)
(***************************************************************************)
EXTENDS FetchRecord, ListSort, DocTokens, FiniteSets

CONSTANTS Manifest, IncludeExternal, Responses,
          DocKeys, MaxRuns, InitialDocs, InitialReadme  \* as in UpdateDocs

VARIABLES
  response,  \* response[i]: what the GET of source i returned
  artifact,  \* the "records" list fetch_sources.py wrote
  fetched,   \* the artifact has been written
  digest,    \* the digest build_digest.py wrote, NoValue before
  \* update_docs.py, as in UpdateDocs:
  docs, readme, rpc, rdigest, today, runs, rendered, from, stamped

fetchVars  == <<response, artifact, fetched, digest>>
renderVars == <<docs, readme, rpc, rdigest, today, runs, rendered, from, stamped>>
vars == <<fetchVars, renderVars>>

\* The marker and stamp text a claim carries: the markup the page title's
\* entities decoded to (clean_text).  Degraded claims name the manifest
\* entry, and headings are never extracted, so only a page title can.
ClaimEmbedded(c) ==
  LET title  == IF c.claim[1] \in {"title", "title_heading"} /\ c.claim[2][1] = "page"
                THEN c.claim[2][2] ELSE << >>
      markup == SelectSeq(title, LAMBDA p : p.k = "markup")
  IN [j \in DOMAIN markup |-> markup[j].v]

Fetcher  == INSTANCE FetchAbstract WITH out <- artifact, finished <- fetched,
              RunDays <- {Today}
Digester == INSTANCE BuildDigest WITH records <- artifact, Artifacts <- {}
Renderer == INSTANCE UpdateDocs WITH pc <- rpc, digest <- rdigest,
              Digests <- {}, Dates <- {Today}, Embedded <- ClaimEmbedded

Init == Fetcher!Init /\ digest = NoValue /\ Renderer!Init

\* fetch_sources.py main().
FetchStage == Fetcher!Fetch /\ UNCHANGED <<digest, renderVars>>

\* build_digest.py main(), on the artifact the fetch stage wrote.
DigestStage == fetched /\ Digester!Build /\ UNCHANGED <<response, fetched, renderVars>>

\* update_docs.py main() on the digest written, run once or more.  A run
\* reads digest.json's sections and today's date (StartRun, with the
\* digest this pipeline built); the other steps are the renderer's own.
RenderStart ==
  /\ digest # NoValue
  /\ rpc = Renderer!Idle
  /\ runs < MaxRuns
  /\ rdigest' = digest.sections
  /\ today' = Today
  /\ runs' = runs + 1
  /\ rpc' = 1
  /\ UNCHANGED <<fetchVars, docs, readme, rendered, from, stamped>>
RenderDoc     == Renderer!RenderDoc /\ UNCHANGED fetchVars
RenderAborted == Renderer!MarkersMissing /\ UNCHANGED fetchVars
RenderReadme  == Renderer!StampReadme /\ UNCHANGED fetchVars

Next == FetchStage \/ DigestStage \/ RenderStart \/ RenderDoc \/ RenderAborted \/ RenderReadme

Spec == Init /\ [][Next]_vars

-----------------------------------------------------------------------------

\* The GET returned an HTML page with a status below 400.
Page(r) == ~r.exc /\ r.code < 400 /\ r.ctype = "html"

Submitted(i) == \E k \in DOMAIN SelectSources(Manifest, IncludeExternal) :
                  SelectSources(Manifest, IncludeExternal)[k] = i

\* The timeline claims made from source i (urls are unique in a manifest
\* the validator accepts).
ClaimsOf(i) ==
  LET tl == digest.sections["timeline"]
  IN {tl[j] : j \in {j \in DOMAIN tl : tl[j].url = Manifest[i].url}}

IsMatchOf(e, n) == e.k = "meta" /\ e.p = n

\* The elements pattern.search() returns for DATE_PATTERNS[n]: its first
\* match in the page, if any.
FirstMatch(page, n) ==
  {j \in DOMAIN page : IsMatchOf(page[j], n) /\ \A i \in 1..j - 1 : ~IsMatchOf(page[i], n)}

\* Spec 4.2, as extract_date reads it: the date held by the first match of
\* the most important pattern whose first match holds one.
PageDate(page) ==
  LET dated == {n \in 1..NPatterns :
                  \E j \in FirstMatch(page, n) : normalize_date(page[j].v) # NoValue}
  IN IF dated = {} THEN NoValue
     ELSE normalize_date(page[CHOOSE j \in FirstMatch(page, Min(dated)) : TRUE].v)

\* Spec 3/4.2 (published_or_observed_date): a claim's date is the page's
\* published date (PageDate), else the manifest's known_date, else the date
\* of captured_at, whatever the GET returned: fetch_one fills
\* published_date from extract_date, or with known_date on every branch
\* but the exception one, and date_or_observed falls back in the same order.
ClaimDatesResolved ==
  digest # NoValue =>
    \A i \in DOMAIN Manifest : \A c \in ClaimsOf(i) :
      c.date = IF Page(response[i]) /\ PageDate(response[i].html) # NoValue
               THEN PageDate(response[i].html)
               ELSE IF Manifest[i].known # NoValue THEN Manifest[i].known
               ELSE Today

\* Spec 4.2: the headings are the cleaned texts of the page's h1/h2
\* elements in document order (empty ones dropped); the first of them.
FirstHeading(page) ==
  LET hs == SelectSeq(page, LAMBDA e : e.k = "h" /\ clean_text(e.v) # << >>)
  IN clean_text(Head(hs).v)

HasHeading(page) == \E j \in DOMAIN page : page[j].k = "h" /\ clean_text(page[j].v) # << >>

\* Spec 4.4/8: for an HTML page with a title and an h1/h2 heading, the
\* claim is "{title} / {first heading}" (the spec's "Foo / Bar" example).
HeadingsReachClaims ==
  digest # NoValue =>
    \A i \in DOMAIN Manifest :
      LET r == response[i]
      IN Submitted(i) /\ Page(r) /\ TitleTruthy(r.html) /\ HasHeading(r.html) =>
           \E c \in ClaimsOf(i) :
             c.claim = <<"title_heading", <<"page", extract_title(r.html)>>,
                         FirstHeading(r.html)>>

\* The claims of the timeline document's rows, in document order.
TimelineRows ==
  LET rows == SelectSeq(docs["timeline"], LAMBDA t : t.k = "timeline_row")
  IN [j \in DOMAIN rows |-> rows[j].v]

\* Spec 3/4.4/4.5, end to end: once update_docs.py has written the
\* timeline document (once or again) from the digest of this fetch, the
\* document lists every submitted source in exactly one row, newest first,
\* whatever each GET returned and whatever the page titles contain.
TimelineDocComplete ==
  rendered["timeline"] # 0 =>
    LET rows == TimelineRows
    IN /\ \A i \in DOMAIN Manifest :
            Cardinality({j \in DOMAIN rows : rows[j].url = Manifest[i].url}) =
              IF Submitted(i) THEN 1 ELSE 0
       /\ \A j \in 1..Len(rows) - 1 : Digester!DateKey(rows[j]) >= Digester!DateKey(rows[j + 1])
=============================================================================
