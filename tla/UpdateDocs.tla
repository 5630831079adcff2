----------------------------- MODULE UpdateDocs -----------------------------
(***************************************************************************)
(* scripts/codex/update_docs.py: each run renders the digest's section    *)
(* into the block between the AUTO-GENERATED markers of that section's    *)
(* document, stamps last_updated, writes it, and after the last document  *)
(* stamps the index README.md.  A document without both markers makes     *)
(* the run raise and stop; the documents written before stay written.    *)
(*                                                                        *)
(* Documents are the token sequences of DocTokens.  The text of a claim  *)
(* may itself contain marker or stamp text (a page title is              *)
(* HTML-unescaped, and md_escape only touches "|" and newlines):          *)
(* Embedded(c) is the tokens that the claim's rendered text contains.     *)
(* The newlines and table layout are left out: no property turns on them. *)
(***************************************************************************)
EXTENDS DocTokens, FiniteSets

CONSTANTS
  DocKeys,        \* the section keys of DOC_MAP, in its order
  Digests,        \* digests a run may read: [section -> Seq(claim)]
  Dates,          \* the UTC dates a run may happen on (naturals)
  MaxRuns,        \* bound on the number of runs
  InitialDocs,    \* the documents as the repository may hold them
  InitialReadme,  \* README.md as the repository holds it
  Embedded(_)     \* the marker and stamp tokens a claim's text contains

ASSUME MaxRuns \in Nat /\ Dates \subseteq Nat

VARIABLES
  docs,      \* docs[sec]: the content of DOC_MAP[sec]
  readme,    \* README.md
  pc,        \* Idle, the index in DocKeys of the next document, or Readme
  digest,    \* the digest of the current run
  today,     \* the UTC date of the current run
  runs,      \* runs started so far
  rendered,  \* rendered[sec]: the run that last wrote DOC_MAP[sec], 0 if none
  from,      \* from[sec]: the digest that run rendered into it
  stamped    \* the run that last wrote README.md, 0 if none

vars == <<docs, readme, pc, digest, today, runs, rendered, from, stamped>>

Sections == {DocKeys[i] : i \in DOMAIN DocKeys}

Idle   == 0
Readme == Len(DocKeys) + 1

\* The claims' rows, each followed by what the claim's text embeds.
Rows(kind, claims) ==
  FlattenSeq([i \in DOMAIN claims |->
                <<Tok(kind, claims[i])>> \o Embedded(claims[i])])

\* render_section_table + render_source_matrix (lines 38-66).
render_section_table(claims) ==
  IF claims = << >> THEN <<Tok("no_data", 0)>>
  ELSE <<Tok("header", "section")>> \o Rows("row", claims)
         \o <<Tok("header", "matrix")>>
         \o [i \in DOMAIN claims |-> Tok("matrix_row", claims[i])]

\* render_timeline (lines 69-82).
render_timeline(claims) ==
  IF claims = << >> THEN <<Tok("no_data", 0)>>
  ELSE <<Tok("header", "timeline")>> \o Rows("timeline_row", claims)

GeneratedBlock(sec, claims) ==
  IF sec = "timeline" THEN render_timeline(claims)
  ELSE render_section_table(claims)

\* Mutant: the slice stops at the index of START_MARKER, without adding
\* len(START_MARKER), so the START marker itself is cut away.
replace_auto_block_no_len(content, generated) ==
  LET start == SelectInSeq(content, IsStart)
      end   == SelectInSeq(content, IsEnd)
  IN SubSeq(content, 1, start - 1) \o generated \o SubSeq(content, end, Len(content))

\* Mutant: the tail is sliced from the START marker instead of the END
\* marker, so the old block is kept after the new one.
replace_auto_block_keep_old(content, generated) ==
  LET start == SelectInSeq(content, IsStart)
  IN SubSeq(content, 1, start) \o generated \o SubSeq(content, start + 1, Len(content))

\* Lines 85-91: keep up to the first START marker and from the first END
\* marker on; whatever lies between is replaced.
replace_auto_block(content, generated) ==
  LET start == SelectInSeq(content, IsStart)
      end   == SelectInSeq(content, IsEnd)
  IN SubSeq(content, 1, start) \o generated \o SubSeq(content, end, Len(content))

\* Lines 94-95: re.sub(..., count=1) rewrites the first well-formed stamp;
\* with none the content is returned unchanged.
update_last_updated(content, date) ==
  LET i == SelectInSeq(content, IsStamp)
  IN IF i = 0 THEN content ELSE [content EXCEPT ![i] = Stamp(date)]

Init ==
  /\ docs \in [Sections -> InitialDocs]
  /\ readme = InitialReadme
  /\ pc = Idle
  /\ digest = << >>
  /\ today = 0
  /\ runs = 0
  /\ rendered = [sec \in Sections |-> 0]
  /\ from = [sec \in Sections |-> << >>]
  /\ stamped = 0

\* A run of main() reads digest.json on a date no earlier than the last.
StartRun ==
  /\ pc = Idle
  /\ runs < MaxRuns
  /\ \E d \in Digests, t \in Dates :
       /\ t >= today
       /\ digest' = d
       /\ today' = t
  /\ runs' = runs + 1
  /\ pc' = 1
  /\ UNCHANGED <<docs, readme, rendered, from, stamped>>

\* Lines 109-118: the text main() writes for section sec.
Updated(sec) ==
  update_last_updated(replace_auto_block(docs[sec], GeneratedBlock(sec, digest[sec])),
                      today)

\* Lines 108-119 for a document that has both markers.
RenderDoc ==
  /\ pc \in DOMAIN DocKeys
  /\ LET sec == DocKeys[pc]
     IN /\ HasMarkers(docs[sec])
        /\ docs' = [docs EXCEPT ![sec] = Updated(sec)]
        /\ rendered' = [rendered EXCEPT ![sec] = runs]
        /\ from' = [from EXCEPT ![sec] = digest]
  /\ pc' = pc + 1
  /\ UNCHANGED <<readme, digest, today, runs, stamped>>

\* Mutant: the error is caught and the loop goes on to the next document.
MarkersMissingContinue ==
  /\ pc \in DOMAIN DocKeys
  /\ ~HasMarkers(docs[DocKeys[pc]])
  /\ pc' = pc + 1
  /\ UNCHANGED <<docs, readme, digest, today, runs, rendered, from, stamped>>

\* Lines 86-87: replace_auto_block raises ValueError; main() dies with the
\* later documents and README.md untouched.
MarkersMissing ==
  /\ pc \in DOMAIN DocKeys
  /\ ~HasMarkers(docs[DocKeys[pc]])
  /\ pc' = Idle
  /\ UNCHANGED <<docs, readme, digest, today, runs, rendered, from, stamped>>

\* Lines 123-126: the index's date stamp.
StampReadme ==
  /\ pc = Readme
  /\ readme' = update_last_updated(readme, today)
  /\ stamped' = runs
  /\ pc' = Idle
  /\ UNCHANGED <<docs, digest, today, runs, rendered, from>>

Next == StartRun \/ RenderDoc \/ MarkersMissing \/ StampReadme

Spec == Init /\ [][Next]_vars

-----------------------------------------------------------------------------

\* The content with every date stamp's date blanked out.
Unstamped(content) ==
  [i \in DOMAIN content |-> IF content[i].k = "stamp" THEN Stamp(0) ELSE content[i]]

\* Spec 3/4.5: the renderer needs exactly one marker pair and never writes
\* a document that does not keep exactly one pair, START before END.
WrittenDocsWellFormed ==
  [][\A sec \in Sections :
       docs'[sec] # docs[sec] => WellFormed(docs'[sec])]_vars

\* Spec 4.5/8, idempotence: rendering into a document the same digest that
\* was rendered into it last time changes nothing but date stamps.
RenderIdempotent ==
  [][\A sec \in Sections :
       (/\ rendered'[sec] # rendered[sec]
        /\ rendered[sec] # 0
        /\ from[sec] = digest)
       => Unstamped(docs'[sec]) = Unstamped(docs[sec])]_vars

\* The index's last_updated is stamped only by a run that rendered every
\* section document first: a run that dies on a document leaves it alone.
ReadmeStampedLast ==
  \A sec \in Sections : rendered[sec] >= stamped
=============================================================================
