----------------------------- MODULE DocTokens ------------------------------
(***************************************************************************)
(* The documents under docs/codex as update_docs.py and validate.py read  *)
(* them.  A document is a sequence of tokens [k, v]:                       *)
(*   START_MARKER, END_MARKER   the AUTO-GENERATED comment markers;        *)
(*   Stamp(d)                   a `last_updated: "YYYY-MM-DD"` line, date d;*)
(*   BAD_STAMP                  a `last_updated: "..."` line whose value is *)
(*                              not a YYYY-MM-DD date;                      *)
(*   AWAITING                   the "_自動更新待ち_" placeholder;           *)
(* and prose or generated rows of other kinds.  Newlines and layout are   *)
(* left out.                                                               *)
(***************************************************************************)
EXTENDS Naturals, Sequences, FiniteSets, SequencesExt

Tok(k, v) == [k |-> k, v |-> v]

START_MARKER == Tok("start", 0)
END_MARKER   == Tok("end", 0)

\* DATE_LINE_PATTERN of update_docs.py: `last_updated:\s*"\d{4}-\d{2}-\d{2}"`
Stamp(d) == Tok("stamp", d)

BAD_STAMP == Tok("bad_stamp", 0)
AWAITING  == Tok("awaiting", 0)

IsStart(t) == t = START_MARKER
IsEnd(t)   == t = END_MARKER
IsStamp(t) == t.k = "stamp"

\* `START_MARKER in content and END_MARKER in content`
HasMarkers(content) ==
  SelectInSeq(content, IsStart) # 0 /\ SelectInSeq(content, IsEnd) # 0

\* Spec 3/4.5/6: a document holds exactly one START marker and one END
\* marker, START first.
WellFormed(content) ==
  /\ Cardinality({i \in DOMAIN content : IsStart(content[i])}) = 1
  /\ Cardinality({i \in DOMAIN content : IsEnd(content[i])}) = 1
  /\ SelectInSeq(content, IsStart) < SelectInSeq(content, IsEnd)
=============================================================================
