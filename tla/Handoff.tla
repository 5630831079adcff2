------------------------------ MODULE Handoff ------------------------------
(***************************************************************************)
(* What fetch_sources.py and build_digest.py do with a manifest value of  *)
(* a type they do not expect.  fetch_one copies id, name and tags from    *)
(* the source into the record verbatim (fetch_sources.py 107-114), so a   *)
(* YAML scalar that is not a string reaches the two places that assume    *)
(* one: the sort of main() and summarize_claim/normalize_sections of      *)
(* build_digest.py.  Either raises, and the stage exits without writing   *)
(* its output.                                                            *)
(*                                                                        *)
(* NonStrId and NonStrName are truthy YAML scalars that are not strings   *)
(* (`id: 12`, `name: 2024`); ScalarTags is a `tags:` value that is a      *)
(* number or a boolean, which cannot be iterated; StrTags is a `tags:`   *)
(* value written as one string (`tags: timeline`).  A known_date is      *)
(* NoValue, a natural (a YAML date, or a YYYY-MM-DD string), DateTimeKnown *)
(* (a YAML timestamp, loaded as a datetime) or BadKnown (a string with no  *)
(* date token in it, such as "TBD").                                      *)
(***************************************************************************)
EXTENDS FetchRecord

CONSTANTS
  NonStrId,    \* an id that is not a string
  NonStrName,  \* a name that is not a string
  ScalarTags,  \* a tags value that is not iterable
  StrTags,     \* a tags value that is a string
  DateTimeKnown, \* a known_date loaded as a datetime
  BadKnown     \* a known_date string with no date in it

\* normalize_known_date (fetch_sources.py 63-68).  A datetime is a date, so
\* its isoformat() "YYYY-MM-DDTHH:MM:SS" is returned whole; any other value
\* goes through normalize_date(str(value)), which finds no token in BadKnown.
normalize_known_date(v) ==
  CASE v = NoValue       -> NoValue
    [] v = DateTimeKnown -> <<"isoformat", v>>
    [] v = BadKnown      -> NoValue
    [] OTHER             -> v

\* `(item.get(...) or "").strip()`: a truthy value that is not a str has no
\* strip(), and AttributeError propagates out of main().
StripRaises(v) == v \in {NonStrId, NonStrName}

\* summarize_claim, lines 53-54, run for every record whatever its status.
summarize_claim_raises(s) == StripRaises(s.name) \/ StripRaises(s.id)

\* normalize_sections, lines 90-91: `item.get("tags") or []` keeps a truthy
\* number or boolean, and the comprehension's `for tag in tags` raises
\* TypeError.
normalize_sections_raises(s) == s.tags = ScalarTags

\* normalize_sections, line 91, on a string: `for tag in tags` walks its
\* characters, none of which is a TAG_TO_SECTION key, so the source is filed
\* as untagged (use_cases_lessons and timeline) whatever the string names.
TagsReadAsCharacters(s) == s.tags = StrTags

\* fetch_sources.py 206: the keys `x.get("source_id") or ""` of a number id
\* and of any other (a string, or "" for a missing id) are compared, which
\* raises TypeError.  Run with the default --include-external true, every
\* source is fetched.
SortRaises(m) ==
  \E j, k \in DOMAIN m : m[j].id = NonStrId /\ m[k].id # NonStrId

\* build_digest.py main(), lines 110-115, over the records of `m`.
DigestRaises(m) ==
  \E k \in DOMAIN m : summarize_claim_raises(m[k]) \/ normalize_sections_raises(m[k])

\* The fetch then the digest stage on manifest `m` ends in an exception.
PipelineRaises(m) == SortRaises(m) \/ DigestRaises(m)
=============================================================================
