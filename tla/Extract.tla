------------------------------ MODULE Extract -------------------------------
(***************************************************************************)
(* The pattern-based extraction of scripts/codex/fetch_sources.py (lines  *)
(* 20-102): the page's title and published date.  Headings are in        *)
(* FetchRecord (ExtractHeadings).                                         *)
(*                                                                        *)
(* A page is the sequence of the elements the patterns can match, in      *)
(* document order: [k |-> "title", v |-> text] for a <title> element,    *)
(* [k |-> "h", v |-> text] for an <h1> or <h2> element, and              *)
(* [k |-> "meta", p |-> n, v |-> value] for a match of DATE_PATTERNS[n]   *)
(* (1 article:published_time, 2 publish_date, 3 date, 4 <time datetime>,  *)
(* 5 JSON-LD datePublished).  A text is a sequence of pieces: "word"s,    *)
(* "tag"s (an element inside the text), "escaped" markup (written with    *)
(* &lt; &gt; entities; v is the markup it decodes to) and "space"s.  A    *)
(* date value is a sequence of pieces too, where [k |-> "iso", v |-> d]   *)
(* is an embedded YYYY-MM-DD and [k |-> "slash", v |-> d] a YYYY/MM/DD    *)
(* token, for the date d.                                                 *)
(***************************************************************************)
EXTENDS Naturals, Sequences, SequencesExt

CONSTANT NoValue

Piece(k, v) == [k |-> k, v |-> v]

\* clean_text (lines 46-48): every tag becomes a space, entities are
\* decoded (escaped markup becomes markup), runs of whitespace collapse
\* and the ends are stripped.  A cleaned text is its non-space pieces.
clean_text(text) ==
  SelectSeq([i \in DOMAIN text |->
               IF text[i].k = "tag" THEN Piece("space", 0)
               ELSE IF text[i].k = "escaped" THEN Piece("markup", text[i].v)
               ELSE text[i]],
            LAMBDA x : x.k # "space")

\* normalize_date (lines 51-60): the first YYYY-MM-DD token, else the
\* first YYYY/MM/DD token with "/" replaced, else None.
normalize_date(value) ==
  LET iso   == SelectInSeq(value, LAMBDA x : x.k = "iso")
      slash == SelectInSeq(value, LAMBDA x : x.k = "slash")
  IN IF iso # 0 THEN value[iso].v
     ELSE IF slash # 0 THEN value[slash].v
     ELSE NoValue

\* extract_title (lines 71-75): the first <title>, cleaned (possibly the
\* empty text); None without one.
extract_title(page) ==
  LET i == SelectInSeq(page, LAMBDA e : e.k = "title")
  IN IF i = 0 THEN NoValue ELSE clean_text(page[i].v)

\* Python truthiness of the title: None and "" are both false.
TitleTruthy(page) == extract_title(page) \notin {NoValue, << >>}

NPatterns == 5

RECURSIVE DateFrom(_, _)

\* Mutant: a pattern whose first match holds no date goes on to its later
\* matches (re.finditer instead of pattern.search).
DateFromAnyMatch(page, n) ==
  IF n > NPatterns THEN NoValue
  ELSE LET m == SelectInSeq(page, LAMBDA e : e.k = "meta" /\ e.p = n
                                              /\ normalize_date(e.v) # NoValue)
       IN IF m # 0 THEN normalize_date(page[m].v) ELSE DateFrom(page, n + 1)

\* extract_date (lines 78-85): DATE_PATTERNS in order; each pattern's first
\* match (search) is normalized, and the first that yields a date wins.  A
\* pattern whose first match does not normalize is given up, even when a
\* later match of it would.
DateFrom(page, n) ==
  IF n > NPatterns THEN NoValue
  ELSE LET m == SelectInSeq(page, LAMBDA e : e.k = "meta" /\ e.p = n)
       IN IF m # 0 /\ normalize_date(page[m].v) # NoValue
          THEN normalize_date(page[m].v)
          ELSE DateFrom(page, n + 1)

extract_date(page) == DateFrom(page, 1)
=============================================================================
