----------------------------- MODULE MCValidate -----------------------------
(***************************************************************************)
(* Inputs of validate.py: two auto files, manifests of up to three        *)
(* sources drawn from sources that each break one check (or none), and    *)
(* HEAD outcomes covering every branch of check_links.                    *)
(***************************************************************************)
EXTENDS Validate, MCData

MCAutoFiles == <<"operations", "timeline">>

AllFiles == {"README.md", "operations", "timeline", "sources.yaml"}

MCHttpUrls == {"u_a", "u_b", "u_c", "u_d", "u_e", "u_g", "u_h", "u_i", "u_j", "u_k"}

Good1     == Src(1, "u_a", "n_a", "official", NoValue, {})
Good2     == Src(2, "u_b", NoValue, "external", 5, {})
SameId    == Src(1, "u_c", NoValue, "official", NoValue, {})
SameUrl   == Src(3, "u_a", NoValue, "official", 4, {})
NoId      == Src(0, "u_d", NoValue, "official", NoValue, {})
ScalarId  == Src(NonStrId, "u_e", NoValue, "official", NoValue, {})
FtpUrl    == Src(4, "u_ftp", NoValue, "official", NoValue, {})
Untyped   == Src(5, "u_d", NoValue, NoValue, NoValue, {})
Timestamp == Src(6, "u_g", NoValue, "official", DateTimeKnown, {})
BadDate   == Src(7, "u_h", NoValue, "official", BadKnown, {})
\* Fields validate.py does not read: `name: 2024`, `tags: 1`,
\* `tags: timeline`.
NumName   == Src(8, "u_i", NonStrName, "official", NoValue, {})
IntTags   == Src(9, "u_j", NoValue, "external", NoValue, ScalarTags)
StrTagged == Src(10, "u_k", NoValue, "official", NoValue, StrTags)

SourceVariants ==
  {Good1, Good2, SameId, SameUrl, NoId, ScalarId, FtpUrl, Untyped, Timestamp,
   BadDate, NumName, IntTags, StrTagged}

\* Every list of at most three of them, and a file with no "sources" key.
MCManifests == UNION {[1..n -> SourceVariants] : n \in 0..3} \cup {NoValue}

\* A rendered document, and the template before its first render.
Rendered == <<Stamp(4), Tok("text", 1), START_MARKER, Tok("row", 1), END_MARKER>>
Template == <<Stamp(1), Tok("text", 1), START_MARKER, AWAITING, END_MARKER>>
\* Both markers present, END first.
EndFirst == <<Stamp(4), END_MARKER, Tok("text", 1), START_MARKER, Tok("row", 1)>>
\* A second block pasted below the first.
TwoBlocks == Rendered \o <<START_MARKER, Tok("row", 2), END_MARKER>>

MCDocContents == {Rendered, Template}
MCDocContentsMisordered == {Rendered, EndFirst, TwoBlocks}

MCManifestsValid == {<<Good1, Good2>>}

MCReadmes == {<<Stamp(4), Tok("text", 3)>>, <<BAD_STAMP, Stamp(4)>>}

MCFileSets == {AllFiles, AllFiles \ {"timeline"}}

Head200 == [exc |-> FALSE, code |-> 200]
MCLinkOutcomes ==
  {Head200, [exc |-> FALSE, code |-> 403], [exc |-> FALSE, code |-> 404],
   [exc |-> FALSE, code |-> 503], [exc |-> FALSE, code |-> 429],
   [exc |-> TRUE, code |-> 0]}
=============================================================================
