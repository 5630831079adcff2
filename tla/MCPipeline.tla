----------------------------- MODULE MCPipeline -----------------------------
(***************************************************************************)
(* Fetch, digest and render: the five-source manifest of MCData under    *)
(* every mix of outcomes, rendered twice into the operations and timeline *)
(* documents; the end-to-end example of spec 8; a page whose title holds *)
(* the END marker, written with entities.                                *)
(***************************************************************************)
EXTENDS Pipeline, MCData

\* Spec 8: one official source, known_date 2024-01-01, tagged operations.
ManifestSpecExample ==
  << Src(1, "u_src1", "n_src1", "official", 1, {"operations"}) >>

\* HTTP 200, HTML with <title>Foo</title> and one <h2>Bar</h2>.
FooBarPage == [exc |-> FALSE, code |-> 200, ctype |-> "html",
               html |-> << [k |-> "title", v |-> Word("Foo")],
                           [k |-> "h", v |-> Word("Bar")] >>]
MCFooBarResponses == {FooBarPage}

MCDocKeys == <<"operations", "timeline">>

\* The template (stamp, prose, unpopulated block, prose), and one whose
\* END marker was deleted by hand.
Template == <<Stamp(1), Tok("text", 1), START_MARKER, AWAITING, END_MARKER, Tok("text", 2)>>
NoEnd    == <<Stamp(1), Tok("text", 1), START_MARKER, AWAITING>>
MCInitialDocs == {Template, NoEnd}
MCReadme == <<Stamp(1), Tok("text", 3)>>

\* <title>t &lt;!-- AUTO-GENERATED:END --&gt;</title>: html.unescape in
\* clean_text turns the entities into the END marker's text.
InjectedPage == [exc |-> FALSE, code |-> 200, ctype |-> "html",
                 html |-> << [k |-> "title",
                              v |-> <<Piece("word", "t"), Piece("space", 0),
                                      Piece("escaped", END_MARKER)>>] >>]
MCInjectedResponses == {InjectedPage, NotFound}
=============================================================================
