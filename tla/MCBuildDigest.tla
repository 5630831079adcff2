--------------------------- MODULE MCBuildDigest ----------------------------
(***************************************************************************)
(* The digest builder on every artifact the fetch stage can write for a   *)
(* five-source manifest with date ties, missing dates, ids and tags.      *)
(***************************************************************************)
EXTENDS BuildDigest, MCData

MCArtifacts == ArtifactsOf(ManifestDigest, TRUE)
=============================================================================
