---------------------------- MODULE MCUpdateDocs ----------------------------
(***************************************************************************)
(* Two of the five documents of DOC_MAP, one with the claim table and     *)
(* source matrix, and the timeline, in DOC_MAP order; three runs on two   *)
(* dates so that a digest is rendered twice into the same document.       *)
(***************************************************************************)
EXTENDS TornWrite

MCDocKeys == <<"operations", "timeline">>

\* Claims are model values whose text carries no marker or stamp text
\* (Pipeline derives it from page titles).
MCEmbedded(c) == << >>

MCDigests ==
  { [s \in {"operations", "timeline"} |->
       IF s = "operations" THEN <<"c1">> ELSE <<"c1", "c2">>],
    [s \in {"operations", "timeline"} |->
       IF s = "operations" THEN << >> ELSE <<"c2">>] }

Prose(n) == Tok("text", n)

\* The template: front-matter stamp, prose, the unpopulated block, prose.
Template   == <<Stamp(1), Prose(1), START_MARKER, AWAITING, END_MARKER, Prose(2)>>
\* The stamp in a footer, after the block.
FooterStamp == <<Prose(1), START_MARKER, AWAITING, END_MARKER, Stamp(1)>>
\* The END marker was deleted by hand.
NoEnd == <<Stamp(1), Prose(1), START_MARKER, AWAITING>>
\* Both markers present, END first.
EndFirst == <<Stamp(1), END_MARKER, Prose(1), START_MARKER, AWAITING>>

MCInitialDocs == {Template, FooterStamp, NoEnd}
MCInitialDocsEndFirst == MCInitialDocs \cup {EndFirst}

MCReadme == <<Stamp(1), Prose(3)>>
=============================================================================
