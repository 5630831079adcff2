---------------------------- MODULE BuildDigest -----------------------------
(***************************************************************************)
(* scripts/codex/build_digest.py: each fetched record becomes a Claim,    *)
(* claims are filed into the sections their tags map to (always including *)
(* the timeline), each section is sorted by date, newest first, and the   *)
(* records that did not fetch are listed as failures.                     *)
(*                                                                        *)
(* A claim's one-line text is abstracted to a tuple naming the fields it  *)
(* is made of: <<"degraded", who, error>>, <<"title_heading", t, h>>,     *)
(* <<"title", t>>, <<"heading", h>> or <<"excerpt", e>>.  Dates are       *)
(* naturals ordered like ISO strings; "unknown" compares above all of     *)
(* them, as "u" > "2" does in Python.                                     *)
(***************************************************************************)
EXTENDS FetchRecord, ListSort, FiniteSets

LOCAL INSTANCE SequencesExt

CONSTANT Artifacts   \* the "records" lists the fetch stage can write

VARIABLES
  records,  \* data.get("records", []) of the input artifact
  digest    \* the digest written to --out, NoValue before

vars == <<records, digest>>

SECTION_KEYS ==
  {"strategy_org", "operations", "security_governance", "use_cases_lessons",
   "timeline"}

\* TAG_TO_SECTION maps each section key to itself and nothing else.
TAG_TO_SECTION == [t \in SECTION_KEYS |-> t]

infer_confidence(source_type) ==
  IF source_type = "official" THEN "high" ELSE "medium"

\* Every captured_at is a full isoformat() string, so captured[:10] is its
\* date; "unknown" is left only for a record without captured_at.
\* Mutant: captured_at is preferred to known_date.
date_or_observed_captured_first(item) ==
  IF item.published_date # NoValue THEN item.published_date
  ELSE IF item.captured # NoValue THEN item.captured
  ELSE IF item.known_date # NoValue THEN item.known_date
  ELSE "unknown"

date_or_observed(item) ==
  IF item.published_date # NoValue THEN item.published_date
  ELSE IF item.known_date # NoValue THEN item.known_date
  ELSE IF item.captured # NoValue THEN item.captured
  ELSE "unknown"

DateKey(claim) ==
  IF claim.date \in Nat THEN claim.date ELSE 1000000

\* Mutant: an ascending sort reversed afterwards, which reverses ties too.
SortSectionByReversing(claims) == Reverse(SortAscending(claims, DateKey))

\* Lines 117-121: `sections[section].sort(key=lambda x: x["date"] or "",
\* reverse=True)`, a stable sort that keeps ties in input order.
SortSection(claims) == SortDescending(claims, DateKey)

\* `source_name or source_id or "source"`
Degraded(item) ==
  <<"degraded",
    IF item.source_name # NoValue THEN <<"name", item.source_name>>
    ELSE IF item.source_id # 0 THEN <<"id", item.source_id>>
    ELSE "source",
    item.error>>

summarize_claim(item) ==
  IF item.status # "ok" THEN Degraded(item)
  ELSE IF item.title # NoValue /\ item.headings # << >>
       THEN <<"title_heading", item.title, Head(item.headings)>>
  ELSE IF item.title # NoValue THEN <<"title", item.title>>
  ELSE IF item.headings # << >> THEN <<"heading", Head(item.headings)>>
  ELSE <<"excerpt", item.excerpt>>

build_claim(item, claim_idx) ==
  [claim_id    |-> <<item.source_id, claim_idx>>,
   claim       |-> summarize_claim(item),
   source_id   |-> item.source_id,
   url         |-> item.url,
   source_type |-> item.source_type,
   date        |-> date_or_observed(item),
   confidence  |-> infer_confidence(item.source_type),
   status      |-> item.status]

\* Mutant: the timeline is added only together with the catch-all section.
normalize_sections_default_only(item) ==
  LET mapped == {TAG_TO_SECTION[t] : t \in item.tags \cap DOMAIN TAG_TO_SECTION}
  IN IF mapped = {} THEN {"use_cases_lessons", "timeline"} ELSE mapped

normalize_sections(item) ==
  LET mapped == {TAG_TO_SECTION[t] : t \in item.tags \cap DOMAIN TAG_TO_SECTION}
  IN (IF mapped = {} THEN {"use_cases_lessons"} ELSE mapped) \cup {"timeline"}

\* Mutant: sections created on first use (a defaultdict), so a section no
\* claim is filed under is missing from the digest.
DigestLazySections(recs) ==
  LET claims == [k \in DOMAIN recs |-> build_claim(recs[k], k)]
      In(sec) == SelectSeq([k \in DOMAIN recs |-> k],
                           LAMBDA k : sec \in normalize_sections(recs[k]))
      Filed(sec) == [j \in DOMAIN In(sec) |-> claims[In(sec)[j]]]
  IN [source_count   |-> Len(recs),
      failed_sources |-> SelectSeq(claims, LAMBDA c : c.status # "ok"),
      sections       |-> [sec \in {s \in SECTION_KEYS : In(s) # << >>} |->
                            SortSection(Filed(sec))]]

\* Lines 107-128: the claim loop, the per-section sort and the digest.
Digest(recs) ==
  LET claims == [k \in DOMAIN recs |-> build_claim(recs[k], k)]
      In(sec) == SelectSeq([k \in DOMAIN recs |-> k],
                           LAMBDA k : sec \in normalize_sections(recs[k]))
      Filed(sec) == [j \in DOMAIN In(sec) |-> claims[In(sec)[j]]]
  IN [source_count   |-> Len(recs),
      failed_sources |-> SelectSeq(claims, LAMBDA c : c.status # "ok"),
      sections       |-> [sec \in SECTION_KEYS |->
                            SortSection(Filed(sec))]]

Init ==
  /\ records \in Artifacts
  /\ digest = NoValue

\* main(): read the artifact, build and write the digest.
Build ==
  /\ digest = NoValue
  /\ digest' = Digest(records)
  /\ UNCHANGED records

Spec == Init /\ [][Build]_vars

-----------------------------------------------------------------------------

TypeOK ==
  /\ digest # NoValue =>
       /\ DOMAIN digest.sections = SECTION_KEYS
       /\ digest.source_count = Len(records)

\* How often the claim of the k-th record is filed under sec.
Occurrences(sec, k) ==
  Cardinality({j \in DOMAIN digest.sections[sec] :
                 digest.sections[sec][j].claim_id[2] = k})

\* Spec 3/4.4/8, coverage: every record's claim is in the timeline exactly
\* once; outside the timeline it is filed once under each section its tags
\* name, or once under the catch-all use_cases_lessons when no tag names a
\* section, and nowhere else.
SectionCoverage ==
  digest # NoValue =>
    \A k \in DOMAIN records :
      /\ Occurrences("timeline", k) = 1
      /\ \A sec \in SECTION_KEYS \ {"timeline"} :
           Occurrences(sec, k) =
             IF \/ sec \in records[k].tags
                \/ sec = "use_cases_lessons" /\ records[k].tags \cap SECTION_KEYS = {}
             THEN 1 ELSE 0

\* Spec 3/8, sort invariant: every section is newest first, and claims with
\* the same date keep the order of the input records (their ordinal).
SectionsNewestFirstStable ==
  digest # NoValue =>
    \A sec \in SECTION_KEYS :
      LET s == digest.sections[sec]
      IN \A i, j \in DOMAIN s : i < j =>
           \/ DateKey(s[i]) > DateKey(s[j])
           \/ DateKey(s[i]) = DateKey(s[j]) /\ s[i].claim_id[2] < s[j].claim_id[2]
=============================================================================
